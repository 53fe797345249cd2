----------------------------- MODULE Rows_proofs -----------------------------
(***************************************************************************)
(* What is proved of the parts whose rows stand for something outside the   *)
(* database: the offer an order is taken by, the documents, the photos       *)
(* and pictures the rows name.  For any number of tasks, people, rows, keys.  *)
(***************************************************************************)
EXTENDS MCParts, FiniteSetTheorems, SequenceTheorems, WellFoundedInduction, TLAPS

-----------------------------------------------------------------------------
(***************************************************************************)
(* The pool: what a function that answers offers counts on, as long as no two   *)
(* of them overlap.  Who is asked follows from it, below.                      *)
(***************************************************************************)

\* The functions that answer offers: each finds its rows first and writes them by id.
Touching == {"acceptOffer", "adminAssign", "decline", "expireStaleOffers",
             "expireUnfilledSearches"}

\* One of them at a time.  The others may run as they like, and beside them.
OneAnswers == (\A t, u \in Tasks : t = u) \/ Touching \subseteq Alone

\* The rows are a sequence, which TypeOK does not say.
Rows == offers \in Seq(Offers) /\ Len(offers) <= MaxRows

LocalsOK == pc \in [Tasks -> Labels] /\ job \in [Tasks -> Jobs]

\* Who is where: what a label says of the locals of its task.
Accepting == {"c_claim", "c_accept", "c_capture", "c_undo_offer", "c_kill", "c_others"}
Assigning == {"m_claim", "m_capture", "m_find", "m_expire", "m_own"}
Moving == {"t_read", "t_write"}
ToAssigned(t) == pc[t] \in Moving /\ job[t].to = "ASSIGNED"
Placed(t) ==
  /\ pc[t] \in Accepting => job[t].op = "acceptOffer"
  /\ pc[t] \in Assigning => job[t].op = "adminAssign"
  /\ pc[t] = "m_claim" => job[t].st \in Pool
  /\ ToAssigned(t) => job[t].op \in {"acceptOffer", "adminAssign"}
  /\ pc[t] = "x_write" => job[t].op = "decline"
  /\ pc[t] \in {"s_write", "s_next"} => job[t].op = "expireStaleOffers"
  /\ pc[t] \in {"e_claim", "e_find", "e_write"} => job[t].op = "expireUnfilledSearches"
  /\ pc[t] \in {"d_write", "x_write"} \cup Accepting \cup Assigning => job[t].who \in Inspectors

Exclusive == \A t, u \in Tasks : job[t].op \in Touching /\ job[u].op \in Touching => t = u

\* What a function that answers offers counts on: the rows it found are as it found them,
\* and the order it has claimed is its own.
Its(t, st) ==
  job[t].row \in RowIds /\ offers[job[t].row].who = job[t].who /\ offers[job[t].row].st = st
Claimed(t) == order.by = job[t].who /\ order.st # "ASSIGNED"
Holds(t) ==
  /\ pc[t] = "x_write" => Its(t, "PENDING")
  /\ job[t].op = "expireStaleOffers" => job[t].todo \subseteq Pending
  /\ pc[t] = "s_write" => job[t].todo # {}
  /\ pc[t] = "e_write" => job[t].todo \subseteq Pending
  /\ pc[t] \in {"c_claim", "c_accept"} => Its(t, "PENDING")
  /\ pc[t] \in {"c_capture", "c_others"} => Its(t, "ACCEPTED")
  /\ pc[t] \in {"c_accept", "c_capture", "c_others", "m_capture", "m_find", "m_expire", "m_own"}
       => Claimed(t)
  /\ pc[t] \in {"c_undo_offer", "c_kill"} => order.st # "ASSIGNED"
  /\ ToAssigned(t) => order.by = job[t].who

PoolInv ==
  /\ TypeOK /\ Rows
  /\ \A t \in Tasks : Placed(t) /\ Holds(t)
  /\ Exclusive

-----------------------------------------------------------------------------
\* The rows are numbered: a set of them has a first.
LEMMA LeastIn ==
  ASSUME NEW S \in SUBSET (1 .. MaxRows), S # {}
  PROVE  Least(S) \in S
<1>1. S \subseteq Nat
  BY BoundsAssumption
<1> DEFINE Less == {ss \in Nat \X Nat : ss[1] < ss[2]}
<1>2. IsWellFoundedOn(Less, Nat)
  BY NatLessThanWellFounded DEF OpToRel
<1>3. PICK x \in S : \A y \in S : ~(<<y, x>> \in Less)
  <2> HIDE DEF Less
  <2> QED BY <1>1, <1>2, WFMin
<1>4. \A y \in S : x <= y
  <2> SUFFICES ASSUME NEW y \in S PROVE x <= y
    OBVIOUS
  <2>1. x \in Nat /\ y \in Nat
    BY <1>1
  <2>2. ~(y < x)
    <3>1. y < x => <<y, x>> \in Less
      BY <2>1
    <3> QED BY <1>3, <3>1
  <2> QED BY <2>1, <2>2
<1> QED BY <1>1, <1>4 DEF Least

-----------------------------------------------------------------------------
\* What a move of one task does to the locals of all.
Others(t) == \A u \in Tasks : u # t => pc'[u] = pc[u] /\ job'[u] = job[u]
Moves(t, l, j) == LocalsOK' /\ Others(t) /\ pc'[t] = l /\ job'[t] = j

LEMMA JobsAreTyped ==
  /\ \A op \in HandlerNames \cup {"none"}, who \in Inspectors \cup {NoOne}, row \in 0 .. MaxRows :
       /\ Job(op, who, row) \in Jobs
       /\ Job(op, who, row).op = op /\ Job(op, who, row).who = who
       /\ Job(op, who, row).row = row /\ Job(op, who, row).todo = {}
       /\ Job(op, who, row).to = "CANCELLED"
  /\ NoJob \in Jobs /\ NoJob.op = "none"
<1> /\ 0 \in 0 .. MaxRound /\ 0 \in 0 .. MaxRows /\ {} \in SUBSET (1 .. MaxRows)
    /\ {"CREATED", "CANCELLED"} \subseteq Statuses
  BY BoundsAssumption DEF Statuses
<1> QED BY DEF Job, Jobs, NoJob

LEMMA KeepMoves ==
  ASSUME LocalsOK, NEW t \in Tasks, NEW l \in Labels, NEW j \in Jobs, Keep(t, l, j)
  PROVE  Moves(t, l, j)
BY DEF Keep, LocalsOK, Others, Moves

LEMMA GoMoves ==
  ASSUME LocalsOK, NEW t \in Tasks, NEW l \in Labels, Go(t, l)
  PROVE  Moves(t, l, job[t])
BY KeepMoves DEF Go, LocalsOK

LEMMA EndMoves ==
  ASSUME LocalsOK, NEW t \in Tasks, End(t)
  PROVE  Moves(t, "idle", NoJob)
<1> "idle" \in Labels
  BY DEF Labels
<1> QED BY KeepMoves, JobsAreTyped DEF End

LEMMA BeginMoves ==
  ASSUME LocalsOK, NEW t \in Tasks, NEW l \in Labels, NEW j \in Jobs, Begin(t, l, j)
  PROVE  Moves(t, l, j)
BY DEF Begin, LocalsOK, Others, Moves

LEMMA ReturnMoves ==
  ASSUME LocalsOK, NEW t \in Tasks, Return(t)
  PROVE  \/ job[t].op = "expireStaleOffers" /\ Moves(t, "s_next", job[t])
         \/ job[t].op # "expireStaleOffers" /\ Moves(t, "idle", NoJob)
<1> "s_next" \in Labels
  BY DEF Labels
<1> QED BY GoMoves, EndMoves DEF Return

\* The two statuses that a function moves the order to, and the end of its search.
LEMMA MoveMoves ==
  ASSUME LocalsOK, NEW t \in Tasks, NEW to \in Statuses, Move(t, to)
  PROVE  /\ Moves(t, "t_read", [job[t] EXCEPT !.to = to])
         /\ job'[t].op = job[t].op /\ job'[t].who = job[t].who /\ job'[t].to = to
         /\ job'[t].todo = job[t].todo
<1>1. "t_read" \in Labels /\ job[t] \in Jobs
  BY DEF Labels, LocalsOK
<1>2. [job[t] EXCEPT !.to = to] \in Jobs
  BY <1>1 DEF Jobs
<1>3. Moves(t, "t_read", [job[t] EXCEPT !.to = to])
  BY <1>1, <1>2, KeepMoves DEF Move
<1> QED BY <1>1, <1>3 DEF Moves, Jobs

-----------------------------------------------------------------------------
\* What the writes of rows do to them.
LEMMA RowsAre ==
  ASSUME Rows
  PROVE  /\ Len(offers) \in Nat /\ RowIds = 1 .. Len(offers) /\ RowIds \subseteq 1 .. MaxRows
         /\ \A k \in RowIds : offers[k] \in Offers
         /\ offers \in [RowIds -> Offers]
BY LenProperties, BoundsAssumption DEF Rows, RowIds

LEMMA RowsInPlace ==
  ASSUME Rows, offers' \in [RowIds -> Offers]
  PROVE  Rows' /\ RowIds' = RowIds
<1>1. PICK n \in Nat : n = Len(offers) /\ RowIds = 1 .. n /\ n <= MaxRows
  BY RowsAre DEF Rows
<1>2. offers' \in Seq(Offers)
  BY <1>1, SeqDef
<1>3. Len(offers') = n
  BY <1>1, <1>2, LenProperties
<1> QED BY <1>1, <1>2, <1>3 DEF Rows, RowIds

LEMMA AnswerKeepsRows ==
  ASSUME Rows, NEW S, NEW From, NEW to \in AnyState, Answer(S, From, to)
  PROVE  /\ Rows' /\ RowIds' = RowIds
         /\ \A k \in RowIds : /\ offers'[k].who = offers[k].who
                              /\ offers'[k].st = IF k \in S /\ offers[k].st \in From
                                                 THEN to ELSE offers[k].st
<1>1. \A k \in RowIds : offers[k] \in Offers
  BY RowsAre
<1>2. \A k \in RowIds : [offers[k] EXCEPT !.st = to, !.live = FALSE] \in Offers
  BY <1>1 DEF Offers, AnyState
<1>3. offers' \in [RowIds -> Offers]
  BY <1>1, <1>2 DEF Answer
<1>4. Rows' /\ RowIds' = RowIds
  BY <1>3, RowsInPlace
<1>5. ASSUME NEW k \in RowIds
      PROVE  /\ offers'[k].who = offers[k].who
             /\ offers'[k].st = IF k \in S /\ offers[k].st \in From THEN to ELSE offers[k].st
  <2>1. offers'[k] = IF k \in S /\ offers[k].st \in From
                     THEN [offers[k] EXCEPT !.st = to, !.live = FALSE] ELSE offers[k]
    BY DEF Answer
  <2> QED BY <1>1, <2>1 DEF Offers
<1> QED BY <1>4, <1>5

LEMMA AppendKeepsRows ==
  ASSUME Rows, NEW r \in Offers, Len(offers) < MaxRows, offers' = Append(offers, r)
  PROVE  /\ Rows' /\ RowIds \subseteq RowIds'
         /\ \A k \in RowIds : offers'[k] = offers[k]
         /\ Len(offers) + 1 \in RowIds' /\ offers'[Len(offers) + 1] = r
<1>1. offers \in Seq(Offers) /\ Len(offers) \in Nat
  BY RowsAre DEF Rows
<1>2. /\ offers' \in Seq(Offers) /\ Len(offers') = Len(offers) + 1
      /\ \A k \in 1 .. Len(offers) : offers'[k] = offers[k]
      /\ offers'[Len(offers) + 1] = r
  BY <1>1, AppendProperties
<1> QED BY <1>1, <1>2, BoundsAssumption DEF Rows, RowIds

-----------------------------------------------------------------------------
\* A step that leaves every row what it was, perhaps with one more after them, and the order
\* whose it was: what a function counts on stays so.
Steady ==
  /\ RowIds \subseteq RowIds'
  /\ \A k \in RowIds : offers'[k].who = offers[k].who /\ offers'[k].st = offers[k].st
  /\ order'.by = order.by
  /\ order'.st = "ASSIGNED" => order.st = "ASSIGNED"

LEMMA UnchangedIsSteady ==
  ASSUME UNCHANGED <<order, offers>>
  PROVE  Steady /\ RowIds' = RowIds
BY DEF Steady, RowIds

LEMMA SteadyKeepsHolds ==
  ASSUME NEW t \in Tasks, Holds(t), Steady, pc'[t] = pc[t], job'[t] = job[t]
  PROVE  Holds(t)'
<1>1. Pending \subseteq Pending'
  BY DEF Steady, Pending
<1>2. \A st : Its(t, st) => Its(t, st)'
  BY DEF Steady, Its
<1>3. Claimed(t) => Claimed(t)'
  BY DEF Steady, Claimed
<1>4. ToAssigned(t)' <=> ToAssigned(t)
  BY DEF ToAssigned
<1> QED BY <1>1, <1>2, <1>3, <1>4 DEF Holds, Steady

LEMMA HoldsOfOthers ==
  ASSUME NEW t \in Tasks, Placed(t), job[t].op \notin Touching
  PROVE  Holds(t)
BY DEF Placed, Holds, Touching, Accepting, Assigning

\* What is left to see of a step of one task.
Typed ==
  /\ order \in [st : Statuses, by : Inspectors \cup {NoOne}, round : 0 .. MaxRound]
  /\ over \in BOOLEAN /\ locked \in BOOLEAN /\ free \subseteq Inspectors
  /\ refused \subseteq Inspectors

LEMMA TypeOKIs == Rows => (TypeOK <=> Typed /\ LocalsOK)
BY RowsAre DEF TypeOK, Typed, LocalsOK, Rows

Joins(t) ==
  job'[t].op \in Touching =>
    \/ job'[t].op = job[t].op
    \/ \A u \in Tasks : u # t => job[u].op \notin Touching

LEMMA OneStep ==
  ASSUME PoolInv, NEW t \in Tasks, Typed', Rows', LocalsOK', Others(t), Joins(t),
         Placed(t)', Holds(t)',
         Steady \/ job[t].op \in Touching
  PROVE  PoolInv'
<1>1. TypeOK'
  <2>1. (Rows => (TypeOK <=> Typed /\ LocalsOK))'
    BY RowsAre DEF TypeOK, Typed, LocalsOK, Rows, RowIds
  <2> QED BY <2>1
<1>2. Exclusive'
  BY DEF PoolInv, Exclusive, Joins, Others
<1>3. ASSUME NEW u \in Tasks PROVE Placed(u)' /\ Holds(u)'
  <2>1. CASE u = t
    BY <2>1
  <2>2. CASE u # t
    <3>1. pc'[u] = pc[u] /\ job'[u] = job[u]
      BY <2>2 DEF Others
    <3>2. Placed(u)'
      BY <3>1 DEF PoolInv, Placed, ToAssigned
    <3>3. CASE Steady
      BY <3>1, <3>2, <3>3, SteadyKeepsHolds DEF PoolInv
    <3>4. CASE job[t].op \in Touching
      <4>1. job'[u].op \notin Touching
        BY <2>2, <3>1, <3>4 DEF PoolInv, Exclusive
      <4> QED BY <3>2, <4>1 DEF Placed, Holds, Touching, Accepting, Assigning
    <3> QED BY <3>2, <3>3, <3>4
  <2> QED BY <2>1, <2>2
<1> QED BY <1>1, <1>2, <1>3 DEF PoolInv

\* A step that only moves its task.
LEMMA QuietStep ==
  ASSUME PoolInv, NEW t \in Tasks, UNCHANGED <<order, env, offers, refused>>,
         LocalsOK', Others(t), Joins(t), Placed(t)', Holds(t)'
  PROVE  PoolInv'
<1>1. Typed' /\ Rows'
  BY TypeOKIs DEF PoolInv, Typed, Rows, env
<1> QED BY <1>1, OneStep, UnchangedIsSteady

\* The labels at which a task counts on nothing but the rows it has still to go through.
Plain == {"idle", "d_read", "d_lock", "d_choose", "d_write", "s_next", "r_claim", "t_read",
          "t_write", "e_claim", "e_find", "m_claim"}

LEMMA PlainHolds ==
  ASSUME NEW t \in Tasks, Holds(t), Steady, pc'[t] \in Plain, ~ToAssigned(t)',
         \/ job'[t].op = job[t].op /\ job'[t].todo = job[t].todo
         \/ job'[t].op # "expireStaleOffers"
  PROVE  Holds(t)'
<1>1. Pending \subseteq Pending'
  BY DEF Steady, Pending
<1> QED BY <1>1 DEF Holds, Plain

LEMMA StartHolds ==
  ASSUME NEW t \in Tasks, pc'[t] \in Plain, ~ToAssigned(t)', job'[t].op # "expireStaleOffers"
  PROVE  Holds(t)'
BY DEF Holds, Plain

\* A function that starts.
LEMMA BeginJoins ==
  ASSUME PoolInv, OneAnswers, NEW t \in Tasks, NEW l \in Labels, NEW j \in Jobs, Begin(t, l, j)
  PROVE  Moves(t, l, j) /\ Joins(t)
<1>1. Moves(t, l, j)
  BY BeginMoves, TypeOKIs DEF PoolInv
<1>2. ASSUME j.op \in Touching, NEW u \in Tasks, u # t PROVE job[u].op \notin Touching
  BY <1>2 DEF OneAnswers, Begin
<1> QED BY <1>1, <1>2 DEF Joins, Moves

\* A function that ends, or goes on with the rows of its sweep.
LEMMA ReturnHolds ==
  ASSUME PoolInv, NEW t \in Tasks, Return(t), Steady
  PROVE  LocalsOK' /\ Others(t) /\ Joins(t) /\ Placed(t)' /\ Holds(t)'
<1>0. LocalsOK /\ Placed(t) /\ Holds(t)
  BY TypeOKIs DEF PoolInv
<1>1. CASE job[t].op = "expireStaleOffers" /\ Moves(t, "s_next", job[t])
  <2>1. Placed(t)' /\ ~ToAssigned(t)' /\ pc'[t] \in Plain
    BY <1>1 DEF Moves, Placed, ToAssigned, Moving, Accepting, Assigning, Plain
  <2> QED BY <1>0, <1>1, <2>1, PlainHolds DEF Moves, Joins
<1>2. CASE Moves(t, "idle", NoJob)
  <2>1. Placed(t)' /\ ~ToAssigned(t)' /\ pc'[t] \in Plain /\ job'[t].op = "none"
    BY <1>2, JobsAreTyped DEF Moves, Placed, ToAssigned, Moving, Accepting, Assigning, Plain
  <2> QED BY <1>2, <2>1, StartHolds DEF Moves, Joins, Touching
<1> QED BY <1>0, <1>1, <1>2, ReturnMoves

LEMMA EndHolds ==
  ASSUME PoolInv, NEW t \in Tasks, End(t)
  PROVE  LocalsOK' /\ Others(t) /\ Joins(t) /\ Placed(t)' /\ Holds(t)'
<1>1. Moves(t, "idle", NoJob)
  BY EndMoves, TypeOKIs DEF PoolInv
<1>2. Placed(t)' /\ ~ToAssigned(t)' /\ pc'[t] \in Plain /\ job'[t].op = "none"
  BY <1>1, JobsAreTyped DEF Moves, Placed, ToAssigned, Moving, Accepting, Assigning, Plain
<1> QED BY <1>1, <1>2, StartHolds DEF Moves, Joins, Touching

\* A step that only moves a task from one plain label to another.
LEMMA PlainStep ==
  ASSUME PoolInv, NEW t \in Tasks, UNCHANGED <<order, env, offers, refused>>,
         NEW l \in Plain \ {"m_claim", "s_next", "e_claim", "e_find"}, NEW j \in Jobs, Moves(t, l, j),
         j.op = job[t].op, j.todo = job[t].todo,
         ~(l \in Moving /\ j.to = "ASSIGNED"), l = "d_write" => j.who \in Inspectors
  PROVE  PoolInv'
<1>1. Placed(t)' /\ ~ToAssigned(t)' /\ pc'[t] \in Plain
  BY DEF Moves, Placed, ToAssigned, Plain, Accepting, Assigning, Moving
<1>2. Holds(t)'
  BY <1>1, PlainHolds, UnchangedIsSteady DEF Moves, PoolInv
<1> QED BY <1>1, <1>2, QuietStep DEF Moves, Joins

-----------------------------------------------------------------------------
\* dispatch and transition.
LEMMA LocalsTyped ==
  ASSUME PoolInv
  PROVE  LocalsOK /\ Typed /\ Rows
BY TypeOKIs DEF PoolInv

LEMMA ReturnStep ==
  ASSUME PoolInv, NEW t \in Tasks, Return(t), UNCHANGED <<order, env, offers, refused>>
  PROVE  PoolInv'
BY ReturnHolds, QuietStep, UnchangedIsSteady

LEMMA EndStep ==
  ASSUME PoolInv, NEW t \in Tasks, End(t), UNCHANGED <<order, env, offers, refused>>
  PROVE  PoolInv'
BY EndHolds, QuietStep

LEMMA DispatchReadKeeps ==
  ASSUME PoolInv, NEW t \in Tasks, DispatchRead(t)
  PROVE  PoolInv'
<1> DEFINE j == [job[t] EXCEPT !.st = order.st, !.round = order.round]
<1>0. UNCHANGED <<order, env, offers, refused>>
  BY DEF DispatchRead
<1>1. CASE Keep(t, "d_lock", j)
  <2>1. job[t] \in Jobs /\ order.st \in Statuses /\ order.round \in 0 .. MaxRound
    BY LocalsTyped DEF LocalsOK, Typed
  <2>2. j \in Jobs /\ j.op = job[t].op /\ j.todo = job[t].todo
    BY <2>1 DEF Jobs
  <2> HIDE DEF j
  <2>3. Moves(t, "d_lock", j)
    BY <1>1, <2>2, KeepMoves, LocalsTyped DEF Labels
  <2> QED BY <1>0, <2>2, <2>3, PlainStep DEF Plain, Moving
<1>2. CASE Return(t)
  BY <1>0, <1>2, ReturnStep
<1> QED BY <1>1, <1>2 DEF DispatchRead

LEMMA DispatchLockKeeps ==
  ASSUME PoolInv, NEW t \in Tasks, DispatchLock(t)
  PROVE  PoolInv'
<1>0. UNCHANGED <<order, env, offers, refused>>
  BY DEF DispatchLock
<1>1. CASE Go(t, "d_choose")
  <2>1. Moves(t, "d_choose", job[t]) /\ job[t] \in Jobs
    BY <1>1, GoMoves, LocalsTyped DEF Labels, LocalsOK
  <2> QED BY <1>0, <2>1, PlainStep DEF Plain, Moving
<1>2. CASE Return(t)
  BY <1>0, <1>2, ReturnStep
<1> QED BY <1>1, <1>2 DEF DispatchLock

LEMMA DispatchChooseKeeps ==
  ASSUME PoolInv, NEW t \in Tasks, DispatchChoose(t)
  PROVE  PoolInv'
<1>0. UNCHANGED <<order, env, offers, refused>> /\ job[t] \in Jobs
  BY LocalsTyped DEF DispatchChoose, LocalsOK
<1>1. ASSUME NEW i \in free, Keep(t, "d_write", [job[t] EXCEPT !.who = i])
      PROVE  PoolInv'
  <2> DEFINE j == [job[t] EXCEPT !.who = i]
  <2>1. i \in Inspectors
    BY LocalsTyped DEF Typed
  <2>2. j \in Jobs /\ j.op = job[t].op /\ j.todo = job[t].todo /\ j.who \in Inspectors
    BY <1>0, <2>1 DEF Jobs
  <2> HIDE DEF j
  <2>3. Moves(t, "d_write", j)
    BY <1>1, <2>2, KeepMoves, LocalsTyped DEF Labels, j
  <2> QED BY <1>0, <2>2, <2>3, PlainStep DEF Plain, Moving
<1>2. CASE Return(t)
  BY <1>0, <1>2, ReturnStep
<1>3. CASE Keep(t, "t_read", [job[t] EXCEPT !.to = "UNASSIGNED"])
  <2> DEFINE j == [job[t] EXCEPT !.to = "UNASSIGNED"]
  <2>1. "UNASSIGNED" \in Statuses
    BY DEF Statuses
  <2>2. j \in Jobs /\ j.op = job[t].op /\ j.todo = job[t].todo /\ j.to = "UNASSIGNED"
    BY <1>0, <2>1 DEF Jobs
  <2> HIDE DEF j
  <2>3. Moves(t, "t_read", j)
    BY <1>3, <2>2, KeepMoves, LocalsTyped DEF Labels, j
  <2> QED BY <1>0, <2>2, <2>3, PlainStep DEF Plain, Moving
<1> QED BY <1>1, <1>2, <1>3 DEF DispatchChoose

LEMMA DispatchWriteKeeps ==
  ASSUME PoolInv, NEW t \in Tasks, DispatchWrite(t)
  PROVE  PoolInv'
<1>0. LocalsOK /\ Typed /\ Rows /\ Return(t) /\ UNCHANGED <<order, env, refused>>
  BY LocalsTyped DEF DispatchWrite
<1>1. Typed'
  BY <1>0 DEF Typed, env
<1>2. CASE Len(offers) = MaxRows
  BY <1>0, <1>2, ReturnStep DEF DispatchWrite
<1>3. CASE Len(offers) # MaxRows
  <2> DEFINE r == [who |-> job[t].who, st |-> "PENDING", round |-> job[t].round, live |-> TRUE]
  <2>1. job[t].who \in Inspectors /\ job[t].round \in 0 .. MaxRound
    BY <1>0 DEF DispatchWrite, PoolInv, Placed, LocalsOK, Jobs
  <2>2. r \in Offers
    BY <2>1 DEF Offers
  <2>3. offers' = Append(offers, r) /\ Len(offers) < MaxRows
    <3>1. Len(offers) \in Nat /\ Len(offers) <= MaxRows
      BY <1>0, RowsAre DEF Rows
    <3> QED BY <1>3, <3>1, BoundsAssumption DEF DispatchWrite
  <2> HIDE DEF r
  <2>4. Rows' /\ Steady
    BY <1>0, <2>2, <2>3, AppendKeepsRows DEF Steady
  <2> QED BY <1>0, <1>1, <2>4, ReturnHolds, OneStep
<1> QED BY <1>2, <1>3

LEMMA TransitionReadKeeps ==
  ASSUME PoolInv, NEW t \in Tasks, TransitionRead(t)
  PROVE  PoolInv'
<1>0. UNCHANGED <<order, env, offers, refused>> /\ job[t] \in Jobs /\ pc[t] = "t_read"
  BY LocalsTyped DEF TransitionRead, LocalsOK
<1>1. CASE Go(t, "t_write")
  <2>1. Moves(t, "t_write", job[t])
    BY <1>1, GoMoves, LocalsTyped DEF Labels
  <2>2. CASE job[t].to # "ASSIGNED"
    BY <1>0, <2>1, <2>2, PlainStep DEF Plain
  <2>3. CASE job[t].to = "ASSIGNED"
    <3>1. job[t].op \in {"acceptOffer", "adminAssign"} /\ order.by = job[t].who
          /\ Placed(t)
      BY <1>0, <2>3 DEF PoolInv, Placed, Holds, ToAssigned, Moving
    <3>2. Placed(t)'
      BY <2>1, <3>1 DEF Moves, Placed, ToAssigned, Accepting, Assigning, Moving
    <3>3. Holds(t)'
      BY <1>0, <2>1, <3>1 DEF Moves, Holds
    <3> QED BY <1>0, <2>1, <3>2, <3>3, QuietStep DEF Moves, Joins
  <2> QED BY <2>2, <2>3
<1>2. CASE Return(t)
  BY <1>0, <1>2, ReturnStep
<1>3. CASE End(t)
  BY <1>0, <1>3, EndStep
<1> QED BY <1>1, <1>2, <1>3 DEF TransitionRead

LEMMA TransitionWriteKeeps ==
  ASSUME PoolInv, NEW t \in Tasks, TransitionWrite(t)
  PROVE  PoolInv'
<1>0. LocalsOK /\ Typed /\ Rows /\ job[t] \in Jobs /\ Return(t) /\ pc[t] = "t_write"
      /\ order' = [order EXCEPT !.st = job[t].to] /\ UNCHANGED <<env, offers, refused>>
  BY LocalsTyped DEF TransitionWrite, LocalsOK
<1>1. order'.st = job[t].to /\ order'.by = order.by /\ Typed'
  <2>1. job[t].to \in Statuses
    BY <1>0 DEF Jobs
  <2> QED BY <1>0, <2>1 DEF Typed, env
<1>2. Rows' /\ RowIds' = RowIds
  BY <1>0 DEF Rows, RowIds
<1>3. CASE job[t].to # "ASSIGNED"
  <2>1. Steady
    BY <1>0, <1>1, <1>2, <1>3 DEF Steady
  <2> QED BY <1>0, <1>1, <1>2, <2>1, ReturnHolds, OneStep
<1>4. CASE job[t].to = "ASSIGNED"
  <2>1. job[t].op \in {"acceptOffer", "adminAssign"}
    BY <1>0, <1>4 DEF PoolInv, Placed, ToAssigned, Moving
  <2>2. Moves(t, "idle", NoJob)
    BY <1>0, <2>1, ReturnMoves
  <2>3. Placed(t)' /\ ~ToAssigned(t)' /\ pc'[t] \in Plain /\ job'[t].op = "none"
    BY <2>2, JobsAreTyped DEF Moves, Placed, ToAssigned, Moving, Accepting, Assigning, Plain
  <2>4. Holds(t)' /\ Joins(t)
    BY <2>3, StartHolds DEF Joins, Touching
  <2> QED BY <1>1, <1>2, <2>1, <2>2, <2>3, <2>4, OneStep DEF Moves, Touching
<1> QED BY <1>3, <1>4

-----------------------------------------------------------------------------
\* Functions that start.
LEMMA PlainBegins ==
  ASSUME PoolInv, OneAnswers, NEW t \in Tasks, NEW l \in {"d_read", "r_claim", "t_read", "e_claim"},
         NEW op \in HandlerNames \ {"expireStaleOffers"}, NEW who \in Inspectors \cup {NoOne},
         NEW row \in 0 .. MaxRows, Begin(t, l, Job(op, who, row)),
         l = "e_claim" => op = "expireUnfilledSearches",
         Typed', Rows', Steady
  PROVE  PoolInv'
<1> DEFINE j == Job(op, who, row)
<1>1. j \in Jobs /\ j.op = op /\ j.to = "CANCELLED"
  BY JobsAreTyped
<1> HIDE DEF j
<1>2. l \in Labels
  BY DEF Labels
<1>3. Moves(t, l, j) /\ Joins(t)
  BY <1>1, <1>2, BeginJoins DEF j
<1>4. Placed(t)' /\ ~ToAssigned(t)' /\ pc'[t] \in Plain /\ job'[t].op # "expireStaleOffers"
  BY <1>1, <1>3 DEF Moves, Placed, ToAssigned, Moving, Accepting, Assigning, Plain
<1> QED BY <1>3, <1>4, StartHolds, OneStep DEF Moves

LEMMA SameWorld ==
  ASSUME PoolInv, UNCHANGED <<order, env, offers, refused>>
  PROVE  Typed' /\ Rows' /\ Steady
BY LocalsTyped, UnchangedIsSteady DEF Typed, Rows, env

LEMMA NoOneTyped == NoOne \in Inspectors \cup {NoOne} /\ 0 \in 0 .. MaxRows
BY BoundsAssumption

LEMMA AuthorizeKeeps ==
  ASSUME PoolInv, OneAnswers, NEW t \in Tasks, Authorize(t)
  PROVE  PoolInv'
<1>1. Typed /\ Rows /\ order' = [order EXCEPT !.st = "PAID"] /\ UNCHANGED <<env, offers, refused>>
  BY LocalsTyped DEF Authorize
<1>2. Typed' /\ order'.by = order.by /\ order'.st = "PAID"
  BY <1>1 DEF Typed, env, Statuses
<1>3. Rows' /\ Steady
  BY <1>1, <1>2 DEF Rows, RowIds, Steady
<1> QED BY <1>2, <1>3, PlainBegins, NoOneTyped DEF Authorize, HandlerNames

LEMMA RedispatchKeeps ==
  ASSUME PoolInv, OneAnswers, NEW t \in Tasks, Redispatch(t)
  PROVE  PoolInv'
BY SameWorld, PlainBegins, NoOneTyped DEF Redispatch, HandlerNames

LEMMA CancelKeeps ==
  ASSUME PoolInv, OneAnswers, NEW t \in Tasks, Cancel(t)
  PROVE  PoolInv'
BY SameWorld, PlainBegins, NoOneTyped DEF Cancel, HandlerNames

LEMMA ExpireUnfilledSearchesKeeps ==
  ASSUME PoolInv, OneAnswers, NEW t \in Tasks, ExpireUnfilledSearches(t)
  PROVE  PoolInv'
BY SameWorld, PlainBegins, NoOneTyped DEF ExpireUnfilledSearches, HandlerNames

LEMMA AbandonKeeps ==
  ASSUME PoolInv, OneAnswers, NEW t \in Tasks, Abandon(t)
  PROVE  PoolInv'
<1>1. Typed' /\ Rows' /\ Steady
  BY LocalsTyped, UnchangedIsSteady DEF Abandon, Typed, Rows
<1> QED BY <1>1, PlainBegins, NoOneTyped DEF Abandon, HandlerNames

LEMMA DeclineKeeps ==
  ASSUME PoolInv, OneAnswers, NEW t \in Tasks, Decline(t)
  PROVE  PoolInv'
<1>0. UNCHANGED <<order, env, offers, refused>>
  BY DEF Decline
<1>1. PICK k \in RowIds :
        Begin(t, IF offers[k].st = "PENDING" THEN "x_write" ELSE "d_read",
              Job("decline", offers[k].who, k))
  BY DEF Decline
<1>2. k \in 0 .. MaxRows /\ offers[k].who \in Inspectors
  BY RowsAre, LocalsTyped DEF Offers
<1>3. CASE offers[k].st # "PENDING"
  BY <1>0, <1>1, <1>2, <1>3, SameWorld, PlainBegins DEF HandlerNames
<1>4. CASE offers[k].st = "PENDING"
  <2> DEFINE j == Job("decline", offers[k].who, k)
  <2>1. j \in Jobs /\ j.op = "decline" /\ j.who = offers[k].who /\ j.row = k
    BY <1>2, JobsAreTyped DEF HandlerNames
  <2> HIDE DEF j
  <2>2. Moves(t, "x_write", j) /\ Joins(t)
    BY <1>1, <1>4, <2>1, BeginJoins DEF Labels, j
  <2>3. Placed(t)'
    BY <1>2, <2>1, <2>2 DEF Moves, Placed, ToAssigned, Moving, Accepting, Assigning
  <2>4. Its(t, "PENDING")'
    BY <1>0, <1>4, <2>1, <2>2 DEF Moves, Its, RowIds
  <2>5. Holds(t)'
    BY <2>1, <2>2, <2>4 DEF Moves, Holds, ToAssigned, Moving
  <2> QED BY <1>0, <2>2, <2>3, <2>5, QuietStep DEF Moves
<1> QED BY <1>3, <1>4

LEMMA ExpireStaleOffersKeeps ==
  ASSUME PoolInv, OneAnswers, NEW t \in Tasks, ExpireStaleOffers(t)
  PROVE  PoolInv'
<1>0. UNCHANGED <<order, env, offers, refused>>
  BY DEF ExpireStaleOffers
<1> DEFINE stale == {k \in Pending : ~offers[k].live}
           j == [Job("expireStaleOffers", NoOne, 0) EXCEPT !.todo = stale]
<1>1. stale # {} /\ Begin(t, "s_write", j)
  BY DEF ExpireStaleOffers
<1>2. stale \subseteq Pending /\ stale \in SUBSET (1 .. MaxRows)
  BY RowsAre, LocalsTyped DEF Pending
<1> HIDE DEF stale
<1>3. j \in Jobs /\ j.op = "expireStaleOffers" /\ j.todo = stale
  <2>1. Job("expireStaleOffers", NoOne, 0) \in Jobs
        /\ Job("expireStaleOffers", NoOne, 0).op = "expireStaleOffers"
    BY JobsAreTyped, NoOneTyped DEF HandlerNames
  <2> HIDE DEF Job
  <2> QED BY <1>2, <2>1 DEF Jobs
<1> HIDE DEF j
<1>4. Moves(t, "s_write", j) /\ Joins(t)
  BY <1>1, <1>3, BeginJoins DEF Labels
<1>5. Placed(t)'
  BY <1>3, <1>4 DEF Moves, Placed, ToAssigned, Moving, Accepting, Assigning
<1>6. Pending' = Pending
  BY <1>0 DEF Pending, RowIds
<1>7. Holds(t)'
  BY <1>1, <1>2, <1>3, <1>4, <1>6 DEF Moves, Holds, ToAssigned, Moving
<1> QED BY <1>0, <1>4, <1>5, <1>7, QuietStep DEF Moves

LEMMA AcceptOfferKeeps ==
  ASSUME PoolInv, OneAnswers, NEW t \in Tasks, AcceptOffer(t)
  PROVE  PoolInv'
<1>0. UNCHANGED <<order, env, offers, refused>>
  BY DEF AcceptOffer
<1>1. PICK k \in Pending : Begin(t, "c_claim", Job("acceptOffer", offers[k].who, k))
  BY DEF AcceptOffer
<1>2. k \in RowIds /\ k \in 0 .. MaxRows /\ offers[k].who \in Inspectors /\ offers[k].st = "PENDING"
  BY RowsAre, LocalsTyped DEF Offers, Pending
<1> DEFINE j == Job("acceptOffer", offers[k].who, k)
<1>3. j \in Jobs /\ j.op = "acceptOffer" /\ j.who = offers[k].who /\ j.row = k
  BY <1>2, JobsAreTyped DEF HandlerNames
<1> HIDE DEF j
<1>4. Moves(t, "c_claim", j) /\ Joins(t)
  BY <1>1, <1>3, BeginJoins DEF Labels, j
<1>5. Placed(t)'
  BY <1>2, <1>3, <1>4 DEF Moves, Placed, ToAssigned, Moving, Accepting, Assigning
<1>6. Its(t, "PENDING")'
  BY <1>0, <1>2, <1>3, <1>4 DEF Moves, Its, RowIds
<1>7. Holds(t)'
  BY <1>3, <1>4, <1>6 DEF Moves, Holds, ToAssigned, Moving
<1> QED BY <1>0, <1>4, <1>5, <1>7, QuietStep DEF Moves

LEMMA AdminAssignKeeps ==
  ASSUME PoolInv, OneAnswers, NEW t \in Tasks, AdminAssign(t)
  PROVE  PoolInv'
<1>0. UNCHANGED <<order, env, offers, refused>> /\ order.st \in Pool /\ order.st \in Statuses
  BY LocalsTyped DEF AdminAssign, Typed
<1>1. PICK i \in Inspectors :
        Begin(t, "m_claim", [Job("adminAssign", i, 0) EXCEPT !.st = order.st])
  BY DEF AdminAssign
<1> DEFINE j == [Job("adminAssign", i, 0) EXCEPT !.st = order.st]
<1>2. j \in Jobs /\ j.op = "adminAssign" /\ j.who = i /\ j.st = order.st
  <2>1. /\ Job("adminAssign", i, 0) \in Jobs /\ Job("adminAssign", i, 0).op = "adminAssign"
        /\ Job("adminAssign", i, 0).who = i
    BY JobsAreTyped, NoOneTyped DEF HandlerNames
  <2> HIDE DEF Job
  <2> QED BY <1>0, <2>1 DEF Jobs
<1> HIDE DEF j
<1>3. Moves(t, "m_claim", j) /\ Joins(t)
  BY <1>1, <1>2, BeginJoins DEF Labels, j
<1>4. Placed(t)' /\ ~ToAssigned(t)' /\ pc'[t] \in Plain
  BY <1>0, <1>2, <1>3 DEF Moves, Placed, ToAssigned, Moving, Accepting, Assigning, Plain
<1>5. Holds(t)'
  BY <1>2, <1>3, <1>4, StartHolds DEF Moves
<1> QED BY <1>0, <1>3, <1>4, <1>5, QuietStep DEF Moves

-----------------------------------------------------------------------------
\* Answers.
LEMMA AnswerStep ==
  ASSUME PoolInv, NEW t \in Tasks, job[t].op \in Touching,
         NEW S, NEW From, NEW to \in AnyState, Answer(S, From, to),
         order' = order, env' = env, refused' \subseteq Inspectors,
         LocalsOK', Others(t), Joins(t), Placed(t)', Holds(t)'
  PROVE  PoolInv'
<1>1. Typed' /\ Rows'
  BY LocalsTyped, AnswerKeepsRows DEF Typed, env
<1> QED BY <1>1, OneStep

LEMMA DeclineWriteKeeps ==
  ASSUME PoolInv, NEW t \in Tasks, DeclineWrite(t)
  PROVE  PoolInv'
<1>0. /\ Rows /\ Typed /\ pc[t] = "x_write" /\ order' = order /\ env' = env
      /\ Answer({job[t].row}, AnyState, "DECLINED") /\ refused' = refused \cup {job[t].who}
  BY LocalsTyped DEF DeclineWrite
<1>1. Moves(t, "d_read", job[t])
  BY GoMoves, LocalsTyped DEF DeclineWrite, Labels
<1>2. job[t].op = "decline" /\ job[t].who \in Inspectors /\ Its(t, "PENDING")
  BY <1>0 DEF PoolInv, Placed, Holds
<1>3. Placed(t)' /\ Joins(t)
  BY <1>1 DEF Moves, Placed, ToAssigned, Moving, Accepting, Assigning, Joins
<1>4. Holds(t)'
  BY <1>1, <1>2 DEF Moves, Holds, ToAssigned, Moving
<1>5. refused' \subseteq Inspectors
  BY <1>0, <1>2 DEF Typed
<1> QED BY <1>0, <1>1, <1>2, <1>3, <1>4, <1>5, AnswerStep DEF Moves, Touching, AnyState

LEMMA StaleWriteKeeps ==
  ASSUME PoolInv, NEW t \in Tasks, StaleWrite(t)
  PROVE  PoolInv'
<1> DEFINE k == Least(job[t].todo)
           j == [job[t] EXCEPT !.todo = @ \ {k}]
<1>0. /\ Rows /\ Typed /\ pc[t] = "s_write" /\ UNCHANGED <<order, env, refused>>
      /\ Answer({k}, AnyState, "EXPIRED") /\ Keep(t, "d_read", j)
      /\ job[t] \in Jobs /\ LocalsOK
  BY LocalsTyped DEF StaleWrite, LocalsOK
<1>1. /\ job[t].op = "expireStaleOffers" /\ job[t].todo \subseteq Pending /\ job[t].todo # {}
      /\ job[t].todo \in SUBSET (1 .. MaxRows)
  BY <1>0 DEF PoolInv, Placed, Holds, Jobs
<1>2. k \in job[t].todo
  BY <1>1, LeastIn
<1>3. /\ j \in Jobs /\ j.op = "expireStaleOffers" /\ j.todo = job[t].todo \ {k}
      /\ j.who = job[t].who
  BY <1>0, <1>1 DEF Jobs
<1> HIDE DEF j, k
<1>4. Moves(t, "d_read", j)
  BY <1>0, <1>3, KeepMoves DEF Labels
<1>5. Placed(t)' /\ Joins(t)
  BY <1>1, <1>3, <1>4 DEF Moves, Placed, ToAssigned, Moving, Accepting, Assigning, Joins
<1>6. j.todo \subseteq Pending'
  <2>1. \A r \in j.todo : r \in RowIds /\ r # k /\ offers[r].st = "PENDING"
    BY <1>1, <1>3 DEF Pending
  <2>2. \A r \in j.todo : r \in RowIds' /\ offers'[r].st = "PENDING"
    BY <1>0, <2>1, AnswerKeepsRows DEF AnyState
  <2> QED BY <2>2 DEF Pending
<1>7. Holds(t)'
  BY <1>3, <1>4, <1>6 DEF Moves, Holds, ToAssigned, Moving
<1>8. refused' \subseteq Inspectors /\ order' = order /\ env' = env
  BY <1>0 DEF Typed
<1> QED BY <1>0, <1>1, <1>4, <1>5, <1>7, <1>8, AnswerStep DEF Moves, Touching, AnyState

LEMMA StaleNextKeeps ==
  ASSUME PoolInv, NEW t \in Tasks, StaleNext(t)
  PROVE  PoolInv'
<1>0. UNCHANGED <<order, env, offers, refused>> /\ pc[t] = "s_next" /\ LocalsOK
  BY LocalsTyped DEF StaleNext
<1>1. CASE job[t].todo = {}
  BY <1>0, <1>1, EndStep DEF StaleNext
<1>2. CASE job[t].todo # {}
  <2>1. Moves(t, "s_write", job[t])
    BY <1>0, <1>2, GoMoves DEF StaleNext, Labels
  <2>2. job[t].op = "expireStaleOffers" /\ job[t].todo \subseteq Pending
    BY <1>0 DEF PoolInv, Placed, Holds
  <2>3. Pending' = Pending
    BY <1>0 DEF Pending, RowIds
  <2>4. Placed(t)' /\ Joins(t)
    BY <2>1, <2>2 DEF Moves, Placed, ToAssigned, Moving, Accepting, Assigning, Joins
  <2>5. Holds(t)'
    BY <1>2, <2>1, <2>2, <2>3 DEF Moves, Holds, ToAssigned, Moving
  <2> QED BY <1>0, <2>1, <2>4, <2>5, QuietStep DEF Moves
<1> QED BY <1>1, <1>2

LEMMA RedispatchClaimKeeps ==
  ASSUME PoolInv, NEW t \in Tasks, RedispatchClaim(t)
  PROVE  PoolInv'
<1>0. UNCHANGED <<env, offers, refused>> /\ Typed /\ Rows /\ LocalsOK /\ job[t] \in Jobs
  BY LocalsTyped DEF RedispatchClaim, LocalsOK
<1>1. CASE End(t) /\ UNCHANGED order
  BY <1>0, <1>1, EndStep
<1>2. CASE /\ order.st = "UNASSIGNED" /\ order.round < MaxRound
           /\ order' = [order EXCEPT !.round = @ + 1] /\ Go(t, "d_read")
  <2>1. order.round + 1 \in 0 .. MaxRound
    BY <1>0, <1>2, BoundsAssumption DEF Typed
  <2>2. Typed' /\ order'.by = order.by /\ order'.st = order.st
    BY <1>0, <1>2, <2>1 DEF Typed, env
  <2>3. Rows' /\ Steady
    BY <1>0, <2>2 DEF Rows, RowIds, Steady
  <2>4. Moves(t, "d_read", job[t])
    BY <1>0, <1>2, GoMoves DEF Labels
  <2>5. Placed(t)' /\ ~ToAssigned(t)' /\ pc'[t] \in Plain
    BY <2>4 DEF Moves, Placed, ToAssigned, Moving, Accepting, Assigning, Plain
  <2>6. Holds(t)'
    BY <2>3, <2>4, <2>5, PlainHolds DEF Moves, PoolInv
  <2> QED BY <2>2, <2>3, <2>4, <2>5, <2>6, OneStep DEF Moves, Joins
<1> QED BY <1>1, <1>2 DEF RedispatchClaim

-----------------------------------------------------------------------------
\* The order is claimed by whoever accepts, or is let go.
LEMMA PoolIs == "ASSIGNED" \notin Pool
BY DEF Pool

\* A step of a function that answers offers, which writes the order but not its status.
LEMMA ClaimStep ==
  ASSUME PoolInv, NEW t \in Tasks, job[t].op \in Touching,
         NEW by \in Inspectors \cup {NoOne},
         order' = [order EXCEPT !.by = by], UNCHANGED <<env, offers, refused>>,
         LocalsOK', Others(t), Joins(t), Placed(t)', Holds(t)'
  PROVE  PoolInv'
<1>1. Typed' /\ Rows'
  BY LocalsTyped DEF Typed, env, Rows
<1> QED BY <1>1, OneStep

LEMMA AcceptClaimKeeps ==
  ASSUME PoolInv, NEW t \in Tasks, AcceptClaim(t)
  PROVE  PoolInv'
<1>0. /\ UNCHANGED <<env, offers, refused>> /\ Typed /\ Rows /\ LocalsOK /\ pc[t] = "c_claim"
  BY LocalsTyped DEF AcceptClaim
<1>1. CASE End(t) /\ UNCHANGED order
  BY <1>0, <1>1, EndStep
<1>2. CASE Searching /\ order' = [order EXCEPT !.by = job[t].who] /\ Go(t, "c_accept")
  <2>1. job[t].op = "acceptOffer" /\ job[t].who \in Inspectors /\ Its(t, "PENDING")
    BY <1>0 DEF PoolInv, Placed, Holds, Accepting
  <2>2. order.st # "ASSIGNED"
    BY <1>2, PoolIs DEF Searching
  <2>3. Moves(t, "c_accept", job[t])
    BY <1>0, <1>2, GoMoves DEF Labels
  <2>4. Placed(t)' /\ Joins(t)
    BY <2>1, <2>3 DEF Moves, Placed, ToAssigned, Moving, Accepting, Assigning, Joins
  <2>5. Its(t, "PENDING")' /\ Claimed(t)'
    BY <1>0, <1>2, <2>1, <2>2, <2>3 DEF Its, Claimed, Moves, RowIds, Typed
  <2>6. Holds(t)'
    BY <2>1, <2>3, <2>5 DEF Moves, Holds, ToAssigned, Moving
  <2> QED BY <1>0, <1>2, <2>1, <2>2, <2>3, <2>4, <2>6, ClaimStep DEF Moves, Touching
<1> QED BY <1>1, <1>2 DEF AcceptClaim

LEMMA AcceptMarkKeeps ==
  ASSUME PoolInv, NEW t \in Tasks, AcceptMark(t)
  PROVE  PoolInv'
<1>0. /\ UNCHANGED <<order, env, refused>> /\ Typed /\ Rows /\ LocalsOK /\ pc[t] = "c_accept"
      /\ Answer({job[t].row}, {"PENDING"}, "ACCEPTED")
  BY LocalsTyped DEF AcceptMark
<1>1. job[t].op = "acceptOffer" /\ job[t].who \in Inspectors /\ Its(t, "PENDING") /\ Claimed(t)
  BY <1>0 DEF PoolInv, Placed, Holds, Accepting
<1>2. Moves(t, "c_capture", job[t])
  BY <1>0, GoMoves DEF AcceptMark, Labels
<1>3. Placed(t)' /\ Joins(t)
  BY <1>1, <1>2 DEF Moves, Placed, ToAssigned, Moving, Accepting, Assigning, Joins
<1>4. Its(t, "ACCEPTED")'
  BY <1>0, <1>1, <1>2, AnswerKeepsRows DEF Its, Moves, AnyState
<1>5. Holds(t)'
  BY <1>0, <1>1, <1>2, <1>4 DEF Moves, Holds, ToAssigned, Moving, Claimed
<1> QED BY <1>0, <1>1, <1>2, <1>3, <1>5, AnswerStep DEF Moves, Touching, AnyState, Claimed, Typed

LEMMA UnclaimedIs ==
  ASSUME Typed, NEW t \in Tasks
  PROVE  \E by \in Inspectors \cup {NoOne} : Unclaimed(t) = [order EXCEPT !.by = by]
<1>1. CASE Unclaimed(t) = order
  <2>1. order = [order EXCEPT !.by = order.by]
    BY DEF Typed
  <2> QED BY <1>1, <2>1 DEF Typed
<1>2. CASE Unclaimed(t) = [order EXCEPT !.by = NoOne]
  BY <1>2
<1> QED BY <1>1, <1>2 DEF Unclaimed

LEMMA AcceptCaptureKeeps ==
  ASSUME PoolInv, NEW t \in Tasks, AcceptCapture(t)
  PROVE  PoolInv'
<1>0. /\ UNCHANGED <<env, offers, refused>> /\ Typed /\ Rows /\ LocalsOK /\ pc[t] = "c_capture"
  BY LocalsTyped DEF AcceptCapture
<1>1. /\ job[t].op = "acceptOffer" /\ job[t].who \in Inspectors
      /\ Its(t, "ACCEPTED") /\ Claimed(t)
  BY <1>0 DEF PoolInv, Placed, Holds, Accepting
<1>2. CASE Go(t, "c_others") /\ UNCHANGED order
  <2>1. Moves(t, "c_others", job[t])
    BY <1>0, <1>2, GoMoves DEF Labels
  <2>2. Placed(t)' /\ Joins(t)
    BY <1>1, <2>1 DEF Moves, Placed, ToAssigned, Moving, Accepting, Assigning, Joins
  <2>3. Its(t, "ACCEPTED")' /\ Claimed(t)'
    BY <1>0, <1>1, <1>2, <2>1 DEF Its, Claimed, Moves, RowIds
  <2>4. Holds(t)'
    BY <1>1, <2>1, <2>3 DEF Moves, Holds, ToAssigned, Moving
  <2> QED BY <1>0, <1>2, <2>1, <2>2, <2>4, QuietStep DEF Moves
<1>3. ASSUME NEW l \in {"c_undo_offer", "c_kill"}, Go(t, l), order' = Unclaimed(t)
      PROVE  PoolInv'
  <2>1. Moves(t, l, job[t])
    BY <1>0, <1>3, GoMoves DEF Labels
  <2>2. PICK by \in Inspectors \cup {NoOne} : order' = [order EXCEPT !.by = by]
    BY <1>0, <1>3, UnclaimedIs
  <2>3. order.st # "ASSIGNED" /\ order'.st = order.st
    BY <1>0, <1>1, <2>2 DEF Claimed, Typed
  <2>4. Placed(t)' /\ Joins(t)
    BY <1>1, <2>1 DEF Moves, Placed, ToAssigned, Moving, Accepting, Assigning, Joins
  <2>5. Holds(t)'
    BY <1>1, <2>1, <2>3 DEF Moves, Holds, ToAssigned, Moving
  <2> QED BY <1>0, <1>1, <2>1, <2>2, <2>3, <2>4, <2>5, ClaimStep DEF Moves, Touching
<1> QED BY <1>2, <1>3 DEF AcceptCapture

LEMMA UndoOfferKeeps ==
  ASSUME PoolInv, NEW t \in Tasks, UndoOffer(t)
  PROVE  PoolInv'
<1>0. /\ UNCHANGED <<order, env, refused>> /\ Typed /\ Rows /\ pc[t] = "c_undo_offer" /\ End(t)
  BY LocalsTyped DEF UndoOffer
<1>1. job[t].op = "acceptOffer"
  BY <1>0 DEF PoolInv, Placed, Accepting
<1>2. Rows'
  <2>1. PICK live \in BOOLEAN :
          offers' = [k \in RowIds |->
            IF k = job[t].row /\ offers[k].st = "ACCEPTED"
            THEN [offers[k] EXCEPT !.st = "PENDING", !.live = live] ELSE offers[k]]
    BY DEF UndoOffer
  <2>2. \A k \in RowIds :
          offers[k] \in Offers /\ [offers[k] EXCEPT !.st = "PENDING", !.live = live] \in Offers
    BY <1>0, RowsAre DEF Offers
  <2>3. offers' \in [RowIds -> Offers]
    BY <2>1, <2>2
  <2> QED BY <1>0, <2>3, RowsInPlace
<1>3. Typed'
  BY <1>0 DEF Typed, env
<1> QED BY <1>0, <1>1, <1>2, <1>3, EndHolds, OneStep DEF Touching

\* A function on its way to the transition that it ends with.
LEMMA MovesToCancelled ==
  ASSUME PoolInv, NEW t \in Tasks, Move(t, "CANCELLED"), job[t].op \in {"acceptOffer", "adminAssign"}
  PROVE  LocalsOK' /\ Others(t) /\ Joins(t) /\ Placed(t)' /\ Holds(t)'
<1>1. /\ Moves(t, "t_read", [job[t] EXCEPT !.to = "CANCELLED"])
      /\ job'[t].op = job[t].op /\ job'[t].to = "CANCELLED"
  BY MoveMoves, LocalsTyped DEF Statuses
<1>2. Placed(t)' /\ ~ToAssigned(t)' /\ pc'[t] \in Plain
  BY <1>1 DEF Moves, Placed, ToAssigned, Moving, Accepting, Assigning, Plain
<1>3. Holds(t)'
  BY <1>1, <1>2, StartHolds
<1> QED BY <1>1, <1>2, <1>3 DEF Moves, Joins

LEMMA MovesToAssigned ==
  ASSUME PoolInv, NEW t \in Tasks, Move(t, "ASSIGNED"), job[t].op \in {"acceptOffer", "adminAssign"},
         job[t].who \in Inspectors, order'.by = job[t].who
  PROVE  LocalsOK' /\ Others(t) /\ Joins(t) /\ Placed(t)' /\ Holds(t)'
<1>1. /\ Moves(t, "t_read", [job[t] EXCEPT !.to = "ASSIGNED"])
      /\ job'[t].op = job[t].op /\ job'[t].to = "ASSIGNED" /\ job'[t].who = job[t].who
  BY MoveMoves, LocalsTyped DEF Statuses
<1>2. Placed(t)'
  BY <1>1 DEF Moves, Placed, ToAssigned, Moving, Accepting, Assigning
<1>3. Holds(t)'
  BY <1>1 DEF Moves, Holds, ToAssigned, Moving
<1> QED BY <1>1, <1>2, <1>3 DEF Moves, Joins

LEMMA KillOffersKeeps ==
  ASSUME PoolInv, NEW t \in Tasks, KillOffers(t)
  PROVE  PoolInv'
<1>0. /\ UNCHANGED <<order, env, refused>> /\ Typed /\ pc[t] = "c_kill" /\ Move(t, "CANCELLED")
      /\ Answer(RowIds, {"PENDING", "ACCEPTED"}, "EXPIRED")
  BY LocalsTyped DEF KillOffers
<1>1. job[t].op = "acceptOffer"
  BY <1>0 DEF PoolInv, Placed, Accepting
<1>2. LocalsOK' /\ Others(t) /\ Joins(t) /\ Placed(t)' /\ Holds(t)'
  BY <1>0, <1>1, MovesToCancelled
<1> QED BY <1>0, <1>1, <1>2, AnswerStep DEF Touching, AnyState, Typed

LEMMA ExpireOthersKeeps ==
  ASSUME PoolInv, NEW t \in Tasks, ExpireOthers(t)
  PROVE  PoolInv'
<1>0. /\ UNCHANGED <<order, env, refused>> /\ Typed /\ Rows /\ pc[t] = "c_others"
      /\ Move(t, "ASSIGNED") /\ Answer(RowIds, {"PENDING"}, "EXPIRED")
  BY LocalsTyped DEF ExpireOthers
<1>1. /\ job[t].op = "acceptOffer" /\ job[t].who \in Inspectors
      /\ Its(t, "ACCEPTED") /\ Claimed(t)
  BY <1>0 DEF PoolInv, Placed, Holds, Accepting
<1>2. LocalsOK' /\ Others(t) /\ Joins(t) /\ Placed(t)' /\ Holds(t)'
  BY <1>0, <1>1, MovesToAssigned DEF Claimed
<1> QED BY <1>0, <1>1, <1>2, AnswerStep DEF Touching, AnyState, Typed, Claimed

-----------------------------------------------------------------------------
\* The operator assigns.
LEMMA AdminClaimKeeps ==
  ASSUME PoolInv, NEW t \in Tasks, AdminClaim(t)
  PROVE  PoolInv'
<1>0. /\ UNCHANGED <<env, offers, refused>> /\ Typed /\ LocalsOK /\ pc[t] = "m_claim"
  BY LocalsTyped DEF AdminClaim
<1>1. CASE End(t) /\ UNCHANGED order
  BY <1>0, <1>1, EndStep
<1>2. CASE /\ order.st = job[t].st /\ order' = [order EXCEPT !.by = job[t].who]
           /\ Go(t, "m_capture")
  <2>1. job[t].op = "adminAssign" /\ job[t].who \in Inspectors /\ job[t].st \in Pool
    BY <1>0 DEF PoolInv, Placed, Assigning
  <2>2. order.st # "ASSIGNED"
    BY <1>2, <2>1, PoolIs
  <2>3. Moves(t, "m_capture", job[t])
    BY <1>0, <1>2, GoMoves DEF Labels
  <2>4. Placed(t)' /\ Joins(t)
    BY <2>1, <2>3 DEF Moves, Placed, ToAssigned, Moving, Accepting, Assigning, Joins
  <2>5. Claimed(t)'
    BY <1>0, <1>2, <2>2, <2>3 DEF Claimed, Moves, Typed
  <2>6. Holds(t)'
    BY <2>1, <2>3, <2>5 DEF Moves, Holds, ToAssigned, Moving
  <2> QED BY <1>0, <1>2, <2>1, <2>2, <2>3, <2>4, <2>6, ClaimStep DEF Moves, Touching
<1> QED BY <1>1, <1>2 DEF AdminClaim

LEMMA AdminCaptureKeeps ==
  ASSUME PoolInv, NEW t \in Tasks, AdminCapture(t)
  PROVE  PoolInv'
<1>0. /\ UNCHANGED <<env, offers, refused>> /\ Typed /\ LocalsOK /\ pc[t] = "m_capture"
  BY LocalsTyped DEF AdminCapture
<1>1. job[t].op = "adminAssign" /\ job[t].who \in Inspectors /\ Claimed(t)
  BY <1>0 DEF PoolInv, Placed, Holds, Assigning
<1>2. CASE Go(t, "m_find") /\ UNCHANGED order
  <2>1. Moves(t, "m_find", job[t])
    BY <1>0, <1>2, GoMoves DEF Labels
  <2>2. Placed(t)' /\ Joins(t)
    BY <1>1, <2>1 DEF Moves, Placed, ToAssigned, Moving, Accepting, Assigning, Joins
  <2>3. Claimed(t)'
    BY <1>1, <1>2, <2>1 DEF Claimed, Moves
  <2>4. Holds(t)'
    BY <1>1, <2>1, <2>3 DEF Moves, Holds, ToAssigned, Moving
  <2> QED BY <1>0, <1>2, <2>1, <2>2, <2>4, QuietStep DEF Moves
<1>3. CASE (End(t) \/ Move(t, "CANCELLED")) /\ order' = Unclaimed(t)
  <2>1. LocalsOK' /\ Others(t) /\ Joins(t) /\ Placed(t)' /\ Holds(t)'
    BY <1>1, <1>3, EndHolds, MovesToCancelled
  <2>2. PICK by \in Inspectors \cup {NoOne} : order' = [order EXCEPT !.by = by]
    BY <1>0, <1>3, UnclaimedIs
  <2> QED BY <1>0, <1>1, <2>1, <2>2, ClaimStep DEF Touching, Claimed
<1> QED BY <1>2, <1>3 DEF AdminCapture

LEMMA AdminFindKeeps ==
  ASSUME PoolInv, NEW t \in Tasks, AdminFind(t)
  PROVE  PoolInv'
<1> DEFINE S == Pending \ Of(job[t].who)
           j == [job[t] EXCEPT !.todo = S]
<1>0. /\ UNCHANGED <<order, env, offers, refused>> /\ Typed /\ LocalsOK /\ pc[t] = "m_find"
      /\ Keep(t, "m_expire", j) /\ job[t] \in Jobs
  BY LocalsTyped DEF AdminFind, LocalsOK
<1>1. job[t].op = "adminAssign" /\ job[t].who \in Inspectors /\ Claimed(t)
  BY <1>0 DEF PoolInv, Placed, Holds, Assigning
<1>2. S \in SUBSET (1 .. MaxRows)
  BY RowsAre, LocalsTyped DEF Pending
<1> HIDE DEF S
<1>3. j \in Jobs /\ j.op = job[t].op /\ j.who = job[t].who
  BY <1>0, <1>2 DEF Jobs
<1> HIDE DEF j
<1>4. Moves(t, "m_expire", j)
  BY <1>0, <1>3, KeepMoves DEF Labels
<1>5. Placed(t)' /\ Joins(t)
  BY <1>1, <1>3, <1>4 DEF Moves, Placed, ToAssigned, Moving, Accepting, Assigning, Joins
<1>6. Claimed(t)'
  BY <1>0, <1>1, <1>3, <1>4 DEF Claimed, Moves
<1>7. Holds(t)'
  BY <1>1, <1>3, <1>4, <1>6 DEF Moves, Holds, ToAssigned, Moving
<1> QED BY <1>0, <1>4, <1>5, <1>7, QuietStep DEF Moves

LEMMA AdminExpireKeeps ==
  ASSUME PoolInv, NEW t \in Tasks, AdminExpire(t)
  PROVE  PoolInv'
<1>0. /\ UNCHANGED <<order, env, refused>> /\ Typed /\ LocalsOK /\ pc[t] = "m_expire"
      /\ Answer(job[t].todo, AnyState, "EXPIRED")
  BY LocalsTyped DEF AdminExpire
<1>1. job[t].op = "adminAssign" /\ job[t].who \in Inspectors /\ Claimed(t)
  BY <1>0 DEF PoolInv, Placed, Holds, Assigning
<1>2. Moves(t, "m_own", job[t])
  BY <1>0, GoMoves DEF AdminExpire, Labels
<1>3. Placed(t)' /\ Joins(t)
  BY <1>1, <1>2 DEF Moves, Placed, ToAssigned, Moving, Accepting, Assigning, Joins
<1>4. Claimed(t)'
  BY <1>0, <1>1, <1>2 DEF Claimed, Moves
<1>5. Holds(t)'
  BY <1>1, <1>2, <1>4 DEF Moves, Holds, ToAssigned, Moving
<1> QED BY <1>0, <1>1, <1>2, <1>3, <1>5, AnswerStep DEF Moves, Touching, AnyState, Claimed, Typed

LEMMA AdminOwnKeeps ==
  ASSUME PoolInv, NEW t \in Tasks, AdminOwn(t)
  PROVE  PoolInv'
<1>0. /\ UNCHANGED <<order, env, refused>> /\ Typed /\ Rows /\ pc[t] = "m_own"
  BY LocalsTyped DEF AdminOwn
<1>1. job[t].op = "adminAssign" /\ job[t].who \in Inspectors /\ Claimed(t)
  BY <1>0 DEF PoolInv, Placed, Holds, Assigning
<1>2. ASSUME NEW k \in Of(job[t].who), Answer({k}, AnyState, "ACCEPTED"), Move(t, "ASSIGNED")
      PROVE  PoolInv'
  <2>1. LocalsOK' /\ Others(t) /\ Joins(t) /\ Placed(t)' /\ Holds(t)'
    BY <1>0, <1>1, <1>2, MovesToAssigned DEF Claimed
  <2> QED BY <1>0, <1>1, <1>2, <2>1, AnswerStep DEF Touching, AnyState, Claimed, Typed
<1>3. ASSUME Len(offers) < MaxRows, Move(t, "ASSIGNED"),
             offers' = Append(offers, [who |-> job[t].who, st |-> "ACCEPTED",
                                       round |-> 0, live |-> FALSE])
      PROVE  PoolInv'
  <2> DEFINE r == [who |-> job[t].who, st |-> "ACCEPTED", round |-> 0, live |-> FALSE]
  <2>1. r \in Offers /\ r.who = job[t].who /\ r.st = "ACCEPTED"
    BY <1>1, BoundsAssumption DEF Offers
  <2>2. offers' = Append(offers, r)
    BY <1>3
  <2> HIDE DEF r
  <2>3. Rows' /\ Steady
    BY <1>0, <1>3, <2>1, <2>2, AppendKeepsRows DEF Steady
  <2>4. LocalsOK' /\ Others(t) /\ Joins(t) /\ Placed(t)' /\ Holds(t)'
    BY <1>0, <1>1, <1>3, MovesToAssigned DEF Claimed
  <2>5. Typed'
    BY <1>0 DEF Typed, env
  <2> QED BY <2>3, <2>4, <2>5, OneStep
<1>4. CASE End(t) /\ UNCHANGED offers
  BY <1>0, <1>4, EndStep
<1> QED BY <1>2, <1>3, <1>4 DEF AdminOwn

-----------------------------------------------------------------------------
\* The end of the search.
LEMMA ExpireClaimKeeps ==
  ASSUME PoolInv, NEW t \in Tasks, ExpireClaim(t)
  PROVE  PoolInv'
<1>0. /\ UNCHANGED <<env, offers, refused>> /\ Typed /\ Rows /\ LocalsOK
      /\ job[t].op = "expireUnfilledSearches"
  BY LocalsTyped DEF ExpireClaim, PoolInv, Placed
<1>1. CASE End(t) /\ UNCHANGED order
  BY <1>0, <1>1, EndStep
<1>2. CASE order' = [order EXCEPT !.st = "CANCELLED"] /\ Go(t, "e_find")
  <2>1. Typed' /\ order'.by = order.by /\ order'.st = "CANCELLED"
    BY <1>0, <1>2 DEF Typed, env, Statuses
  <2>2. Rows' /\ Steady
    BY <1>0, <2>1 DEF Rows, RowIds, Steady
  <2>3. Moves(t, "e_find", job[t])
    BY <1>0, <1>2, GoMoves DEF Labels
  <2>4. Placed(t)' /\ ~ToAssigned(t)' /\ pc'[t] \in Plain
    BY <1>0, <2>3 DEF Moves, Placed, ToAssigned, Moving, Accepting, Assigning, Plain
  <2>5. Holds(t)'
    BY <2>2, <2>3, <2>4, PlainHolds DEF Moves, PoolInv
  <2> QED BY <2>1, <2>2, <2>3, <2>4, <2>5, OneStep DEF Moves, Joins
<1> QED BY <1>1, <1>2 DEF ExpireClaim

LEMMA ExpireWriteKeeps ==
  ASSUME PoolInv, NEW t \in Tasks, ExpireWrite(t)
  PROVE  PoolInv'
<1>0. /\ UNCHANGED <<order, env, refused>> /\ Typed /\ pc[t] = "e_write" /\ End(t)
      /\ Answer(job[t].todo, AnyState, "EXPIRED")
  BY LocalsTyped DEF ExpireWrite
<1>1. job[t].op = "expireUnfilledSearches"
  BY <1>0 DEF PoolInv, Placed
<1>2. LocalsOK' /\ Others(t) /\ Joins(t) /\ Placed(t)' /\ Holds(t)'
  BY <1>0, EndHolds
<1> QED BY <1>0, <1>1, <1>2, AnswerStep DEF Touching, AnyState, Typed

LEMMA ExpireFindKeeps ==
  ASSUME PoolInv, NEW t \in Tasks, ExpireFind(t)
  PROVE  PoolInv'
<1>0. UNCHANGED <<order, env, offers, refused>> /\ pc[t] = "e_find" /\ LocalsOK /\ job[t] \in Jobs
  BY LocalsTyped DEF ExpireFind, LocalsOK
<1>1. CASE End(t)
  BY <1>0, <1>1, EndStep
<1>2. CASE Keep(t, "e_write", [job[t] EXCEPT !.todo = Pending])
  <2> DEFINE j == [job[t] EXCEPT !.todo = Pending]
  <2>1. job[t].op = "expireUnfilledSearches"
    BY <1>0 DEF PoolInv, Placed
  <2>2. Pending \in SUBSET (1 .. MaxRows) /\ Pending' = Pending
    BY <1>0, RowsAre, LocalsTyped DEF Pending, RowIds
  <2>3. j \in Jobs /\ j.op = job[t].op /\ j.todo = Pending
    <3> HIDE DEF Pending
    <3> QED BY <1>0, <2>2 DEF Jobs
  <2> HIDE DEF j
  <2>4. Moves(t, "e_write", j)
    BY <1>0, <1>2, <2>3, KeepMoves DEF Labels, j
  <2>5. Placed(t)' /\ Joins(t)
    BY <2>1, <2>3, <2>4 DEF Moves, Placed, ToAssigned, Moving, Accepting, Assigning, Joins
  <2>6. Holds(t)'
    BY <2>1, <2>2, <2>3, <2>4 DEF Moves, Holds, ToAssigned, Moving
  <2> QED BY <1>0, <2>4, <2>5, <2>6, QuietStep DEF Moves
<1> QED BY <1>1, <1>2 DEF ExpireFind

-----------------------------------------------------------------------------
\* The world leaves the rows and the order as they are, but for the time.
LEMMA LapsingKeepsRows ==
  ASSUME Rows, OfferLapses
  PROVE  /\ Rows' /\ RowIds' = RowIds
         /\ \A k \in RowIds : offers'[k].who = offers[k].who /\ offers'[k].st = offers[k].st
<1>1. PICK k \in Pending : offers' = [offers EXCEPT ![k].live = FALSE]
  BY DEF OfferLapses
<1>2. k \in RowIds /\ offers \in [RowIds -> Offers] /\ offers[k] \in Offers
  BY RowsAre DEF Pending
<1>3. [offers[k] EXCEPT !.live = FALSE] \in Offers
  BY <1>2 DEF Offers
<1>4. offers' \in [RowIds -> Offers]
  BY <1>1, <1>2, <1>3
<1>5. Rows' /\ RowIds' = RowIds
  BY <1>4, RowsInPlace
<1>6. ASSUME NEW r \in RowIds
      PROVE  offers'[r].who = offers[r].who /\ offers'[r].st = offers[r].st
  <2>1. offers[r] \in Offers
    BY <1>2
  <2>2. offers'[r] = IF r = k THEN [offers[k] EXCEPT !.live = FALSE] ELSE offers[r]
    BY <1>1, <1>2
  <2> QED BY <2>1, <2>2 DEF Offers
<1> QED BY <1>5, <1>6

LEMMA WorldKeeps ==
  ASSUME PoolInv, World
  PROVE  PoolInv'
<1>0. LocalsOK /\ Typed /\ Rows
  BY LocalsTyped
<1>1. order' = order /\ pc' = pc /\ job' = job /\ refused' = refused
  BY DEF World, FreeChanges, OfferLapses, SearchEnds, CounterOfferPaid
<1>2. Typed'
  BY <1>0, <1>1 DEF Typed, World, FreeChanges, OfferLapses, SearchEnds, CounterOfferPaid, env
<1>3. Rows' /\ Steady
  <2>1. CASE offers' = offers
    BY <1>0, <1>1, <2>1, UnchangedIsSteady DEF Rows
  <2>2. CASE OfferLapses
    BY <1>0, <1>1, <2>2, LapsingKeepsRows DEF Steady
  <2> QED BY <2>1, <2>2 DEF World, FreeChanges, SearchEnds, CounterOfferPaid
<1>4. LocalsOK' /\ Exclusive'
  BY <1>0, <1>1 DEF LocalsOK, PoolInv, Exclusive
<1>5. TypeOK'
  <2>1. (Rows => (TypeOK <=> Typed /\ LocalsOK))'
    BY RowsAre DEF TypeOK, Typed, LocalsOK, Rows, RowIds
  <2> QED BY <1>2, <1>3, <1>4, <2>1
<1>6. \A u \in Tasks : Placed(u)' /\ Holds(u)'
  BY <1>1, <1>3, SteadyKeepsHolds DEF PoolInv, Placed, ToAssigned
<1> QED BY <1>3, <1>4, <1>5, <1>6 DEF PoolInv

-----------------------------------------------------------------------------
LEMMA InitHolds == Init => PoolInv
<1> SUFFICES ASSUME Init PROVE PoolInv
  OBVIOUS
<1>1. Rows /\ RowIds = {}
  BY EmptySeq, BoundsAssumption DEF Init, Rows, RowIds
<1>2. Typed /\ LocalsOK
  <2>1. Typed
    <3>1. 0 \in 0 .. MaxRound /\ "CREATED" \in Statuses
      BY BoundsAssumption DEF Statuses
    <3>2. order \in [st : Statuses, by : Inspectors \cup {NoOne}, round : 0 .. MaxRound]
      BY <3>1 DEF Init
    <3> QED BY <3>2 DEF Init, Typed
  <2>2. "idle" \in Labels /\ NoJob \in Jobs
    BY JobsAreTyped DEF Labels
  <2> HIDE DEF NoJob
  <2>3. LocalsOK
    BY <2>2 DEF Init, LocalsOK
  <2> QED BY <2>1, <2>3
<1>3. \A t \in Tasks : pc[t] = "idle" /\ job[t].op = "none"
  BY JobsAreTyped DEF Init
<1>4. \A t \in Tasks : Placed(t) /\ Holds(t)
  BY <1>3 DEF Placed, Holds, ToAssigned, Moving, Accepting, Assigning
<1>5. Exclusive
  BY <1>3 DEF Exclusive, Touching
<1> QED BY <1>1, <1>2, <1>4, <1>5, TypeOKIs DEF PoolInv

LEMMA NextKeeps ==
  ASSUME PoolInv, OneAnswers, [Next]_vars
  PROVE  PoolInv'
<1>1. CASE UNCHANGED vars
  <2>1. UNCHANGED <<order, env, offers, refused>> /\ pc' = pc /\ job' = job
    BY <1>1 DEF vars
  <2>2. Typed' /\ Rows' /\ Steady
    BY <2>1, SameWorld
  <2>3. LocalsOK' /\ Exclusive'
    BY <2>1, <2>2, LocalsTyped DEF LocalsOK, PoolInv, Exclusive
  <2>4. \A u \in Tasks : Placed(u)' /\ Holds(u)'
    BY <2>1, <2>2, SteadyKeepsHolds DEF PoolInv, Placed, ToAssigned
  <2>5. TypeOK'
    <3>1. (Rows => (TypeOK <=> Typed /\ LocalsOK))'
      BY RowsAre DEF TypeOK, Typed, LocalsOK, Rows, RowIds
    <3> QED BY <2>2, <2>3, <3>1
  <2> QED BY <2>2, <2>3, <2>4, <2>5 DEF PoolInv
<1>2. CASE World
  BY <1>2, WorldKeeps
<1>3. ASSUME NEW t \in Tasks, Called(t) PROVE PoolInv'
  BY <1>3, AuthorizeKeeps, DeclineKeeps, AcceptOfferKeeps, AdminAssignKeeps, CancelKeeps,
     AbandonKeeps DEF Called
<1>4. ASSUME NEW t \in Tasks, DispatchSteps(t) PROVE PoolInv'
  BY <1>4, DispatchReadKeeps, DispatchLockKeeps, DispatchChooseKeeps, DispatchWriteKeeps,
     TransitionReadKeeps, TransitionWriteKeeps DEF DispatchSteps
<1>5. ASSUME NEW t \in Tasks, Continue(t) PROVE PoolInv'
  BY <1>4, <1>5, DeclineWriteKeeps, StaleWriteKeeps, StaleNextKeeps, RedispatchClaimKeeps,
     AcceptClaimKeeps, AcceptMarkKeeps, AcceptCaptureKeeps, UndoOfferKeeps, KillOffersKeeps,
     ExpireOthersKeeps, AdminClaimKeeps, AdminCaptureKeeps, AdminFindKeeps, AdminExpireKeeps,
     AdminOwnKeeps, ExpireClaimKeeps, ExpireFindKeeps, ExpireWriteKeeps DEF Continue
<1>6. ASSUME NEW t \in Tasks, ExpireStaleOffers(t) \/ Redispatch(t) \/ ExpireUnfilledSearches(t)
      PROVE  PoolInv'
  BY <1>6, ExpireStaleOffersKeeps, RedispatchKeeps, ExpireUnfilledSearchesKeeps
<1> QED BY <1>1, <1>2, <1>3, <1>5, <1>6 DEF Next

-----------------------------------------------------------------------------
(***************************************************************************)
(* Who is asked: nobody who has refused, nobody twice in a round, as long as   *)
(* one function at a time works on the order.                                *)
(***************************************************************************)
Turns == (\A t, u \in Tasks : t = u) \/ HandlerNames \subseteq Alone

AtIt(t) == job[t].op # "none"
OneWorks == \A t, u \in Tasks : AtIt(t) /\ AtIt(u) => t = u

\* What the function at work counts on: the order is still searched for, the one it has
\* chosen is not on the list, the rows it will expire are waiting.
Asking(t) ==
  /\ pc[t] # "idle" => AtIt(t)
  /\ pc[t] \in {"d_lock", "d_choose", "d_write", "m_capture", "m_find", "m_expire", "m_own"}
       => order.st \in Pool
  /\ pc[t] = "d_write" => \A k \in RowIds : offers[k].who = job[t].who =>
                             offers[k].st = "EXPIRED" /\ offers[k].round # job[t].round
  /\ pc[t] = "m_expire" => job[t].todo \subseteq Pending
  /\ pc[t] \in Moving => /\ job[t].to \in {"UNASSIGNED", "CANCELLED", "ASSIGNED"}
                         /\ job[t].to = "UNASSIGNED" => order.st \in Pool

\* Whoever has refused has a row that says so, until the order is taken out of the pool.
Refusals == \A i \in refused : \E k \in Of(i) : offers[k].st = "DECLINED"
RefusalsStand == order.st \in Pool /\ (\A t \in Tasks : ~ToAssigned(t)) => Refusals
Unasked == order.st = "CREATED" => RowIds = {} /\ refused = {}

AskInv == PoolInv /\ OneWorks /\ (\A t \in Tasks : Asking(t)) /\ RefusalsStand /\ Unasked

-----------------------------------------------------------------------------
LEMMA TurnsAnswer == Turns => OneAnswers
BY DEF Turns, OneAnswers, Touching, HandlerNames

LEMMA AskInit == Init => AskInv
<1> SUFFICES ASSUME Init PROVE AskInv
  OBVIOUS
<1>1. \A t \in Tasks : pc[t] = "idle" /\ job[t].op = "none"
  BY JobsAreTyped DEF Init
<1>2. RowIds = {} /\ refused = {} /\ order.st = "CREATED"
  BY EmptySeq, BoundsAssumption DEF Init, RowIds
<1>3. \A t \in Tasks : Asking(t)
  BY <1>1 DEF Asking, Moving
<1> QED BY <1>1, <1>2, <1>3, InitHolds DEF AskInv, OneWorks, AtIt, RefusalsStand, Refusals, Unasked

\* A step of the function at work.
LEMMA AskStep ==
  ASSUME AskInv, PoolInv', NEW t \in Tasks, Others(t), \A u \in Tasks : u # t => ~AtIt(u),
         Asking(t)', order'.st \in Pool /\ ~ToAssigned(t)' => Refusals', Unasked'
  PROVE  AskInv'
<1>1. ASSUME NEW u \in Tasks, u # t PROVE Asking(u)' /\ ~AtIt(u)'
  <2>1. job[u].op = "none" /\ pc[u] = "idle" /\ pc'[u] = pc[u] /\ job'[u] = job[u]
    BY <1>1 DEF AskInv, Asking, AtIt, Others
  <2> QED BY <2>1 DEF Asking, AtIt, Moving
<1>2. OneWorks'
  BY <1>1 DEF OneWorks
<1>3. RefusalsStand'
  BY DEF RefusalsStand
<1> QED BY <1>1, <1>2, <1>3 DEF AskInv

LEMMA AtWork ==
  ASSUME AskInv, NEW t \in Tasks, pc[t] # "idle"
  PROVE  /\ \A u \in Tasks : u # t => ~AtIt(u) /\ ~ToAssigned(u)
         /\ AtIt(t) /\ Asking(t) /\ LocalsOK /\ Typed /\ Rows
<1>1. AtIt(t) /\ Asking(t)
  BY DEF AskInv, Asking
<1>2. ASSUME NEW u \in Tasks, u # t PROVE ~AtIt(u) /\ ~ToAssigned(u)
  BY <1>1, <1>2 DEF AskInv, OneWorks, Asking, ToAssigned, Moving
<1> QED BY <1>1, <1>2, LocalsTyped DEF AskInv

\* A function that starts is alone.
LEMMA AloneBegins ==
  ASSUME AskInv, Turns, NEW t \in Tasks, NEW l \in Labels, NEW j \in Jobs, Begin(t, l, j),
         j.op # "none"
  PROVE  /\ Moves(t, l, j) /\ j.op \in Handlers /\ pc[t] = "idle"
         /\ \A u \in Tasks : u # t => ~AtIt(u) /\ ~ToAssigned(u)
<1>1. Moves(t, l, j) /\ j.op \in Handlers /\ pc[t] = "idle"
  BY BeginMoves, LocalsTyped DEF AskInv, Begin
<1>2. ASSUME NEW u \in Tasks, u # t PROVE ~AtIt(u) /\ ~ToAssigned(u)
  <2>1. job[u].op \in HandlerNames \cup {"none"} /\ j.op \in HandlerNames
    BY LocalsTyped DEF AskInv, LocalsOK, Jobs
  <2>2. job[u].op = "none"
    BY <1>2, <2>1 DEF Turns, Begin
  <2> QED BY <2>2 DEF AtIt, ToAssigned, AskInv, Asking, Moving
<1> QED BY <1>1, <1>2

\* The steps that leave the rows, the refusals and the status alone.
LEMMA CalmStep ==
  ASSUME AskInv, PoolInv', NEW t \in Tasks, Others(t),
         \A u \in Tasks : u # t => ~AtIt(u) /\ ~ToAssigned(u),
         offers' = offers, refused' = refused, order'.st = order.st,
         Asking(t)', order.st \in Pool /\ ToAssigned(t) => ToAssigned(t)'
  PROVE  AskInv'
<1>1. RowIds' = RowIds
  BY DEF RowIds
<1>2. Unasked'
  BY <1>1 DEF AskInv, Unasked
<1>3. order'.st \in Pool /\ ~ToAssigned(t)' => Refusals'
  BY <1>1 DEF AskInv, RefusalsStand, Refusals, Of
<1> QED BY <1>2, <1>3, AskStep

LEMMA ReturnAsks ==
  ASSUME AskInv, NEW t \in Tasks, pc[t] # "idle", Return(t)
  PROVE  Others(t) /\ Asking(t)' /\ ~ToAssigned(t)'
<1>1. LocalsOK /\ Asking(t)
  BY AtWork
<1>2. CASE Moves(t, "s_next", job[t])
  BY <1>1, <1>2 DEF Moves, Asking, AtIt, ToAssigned, Moving
<1>3. CASE Moves(t, "idle", NoJob)
  BY <1>1, <1>3, JobsAreTyped DEF Moves, Asking, AtIt, ToAssigned, Moving
<1> QED BY <1>1, <1>2, <1>3, ReturnMoves

LEMMA EndAsks ==
  ASSUME AskInv, NEW t \in Tasks, pc[t] # "idle", End(t)
  PROVE  Others(t) /\ Asking(t)' /\ ~ToAssigned(t)'
<1>1. Moves(t, "idle", NoJob)
  BY AtWork, EndMoves
<1> QED BY <1>1, JobsAreTyped DEF Moves, Asking, AtIt, ToAssigned, Moving

-----------------------------------------------------------------------------
\* The steps of dispatch and of a transition.
LEMMA DispatchReadAsks ==
  ASSUME AskInv, PoolInv', NEW t \in Tasks, DispatchRead(t)
  PROVE  AskInv'
<1> DEFINE j == [job[t] EXCEPT !.st = order.st, !.round = order.round]
<1>0. /\ pc[t] = "d_read" /\ offers' = offers /\ refused' = refused /\ order' = order
      /\ LocalsOK /\ Asking(t) /\ AtIt(t) /\ job[t] \in Jobs
      /\ \A u \in Tasks : u # t => ~AtIt(u) /\ ~ToAssigned(u)
  BY AtWork DEF DispatchRead, LocalsOK
<1>1. CASE order.st \in Pool /\ Keep(t, "d_lock", j)
  <2>1. j \in Jobs /\ j.op = job[t].op
    BY <1>0, AtWork DEF Jobs, Typed
  <2> HIDE DEF j
  <2>2. Moves(t, "d_lock", j)
    BY <1>0, <1>1, <2>1, KeepMoves DEF Labels
  <2>3. Asking(t)'
    BY <1>0, <1>1, <2>1, <2>2 DEF Moves, Asking, AtIt, Moving
  <2> QED BY <1>0, <2>2, <2>3, CalmStep DEF Moves, ToAssigned, Moving
<1>2. CASE Return(t)
  BY <1>0, <1>2, ReturnAsks, CalmStep DEF ToAssigned, Moving
<1> QED BY <1>1, <1>2 DEF DispatchRead

LEMMA DispatchLockAsks ==
  ASSUME AskInv, PoolInv', NEW t \in Tasks, DispatchLock(t)
  PROVE  AskInv'
<1>0. /\ pc[t] = "d_lock" /\ offers' = offers /\ refused' = refused /\ order' = order
      /\ LocalsOK /\ Asking(t) /\ AtIt(t)
      /\ \A u \in Tasks : u # t => ~AtIt(u) /\ ~ToAssigned(u)
  BY AtWork DEF DispatchLock
<1>1. CASE Go(t, "d_choose")
  <2>1. Moves(t, "d_choose", job[t])
    BY <1>0, <1>1, GoMoves DEF Labels
  <2>2. Asking(t)'
    BY <1>0, <2>1 DEF Moves, Asking, AtIt, Moving
  <2> QED BY <1>0, <2>1, <2>2, CalmStep DEF Moves, ToAssigned, Moving
<1>2. CASE Return(t)
  BY <1>0, <1>2, ReturnAsks, CalmStep DEF ToAssigned, Moving
<1> QED BY <1>1, <1>2 DEF DispatchLock

LEMMA DispatchChooseAsks ==
  ASSUME AskInv, PoolInv', NEW t \in Tasks, DispatchChoose(t)
  PROVE  AskInv'
<1>0. /\ pc[t] = "d_choose" /\ offers' = offers /\ refused' = refused /\ order' = order
      /\ LocalsOK /\ Asking(t) /\ AtIt(t) /\ job[t] \in Jobs /\ order.st \in Pool
      /\ \A u \in Tasks : u # t => ~AtIt(u) /\ ~ToAssigned(u)
  BY AtWork DEF DispatchChoose, LocalsOK, Asking
<1>1. ASSUME NEW i \in free \ Excluded(job[t].round), Keep(t, "d_write", [job[t] EXCEPT !.who = i])
      PROVE  AskInv'
  <2> DEFINE j == [job[t] EXCEPT !.who = i]
  <2>1. i \in Inspectors
    BY <1>0, AtWork DEF Typed
  <2>2. j \in Jobs /\ j.op = job[t].op /\ j.who = i /\ j.round = job[t].round
    BY <1>0, <2>1 DEF Jobs
  <2> HIDE DEF j
  <2>3. Moves(t, "d_write", j)
    BY <1>0, <1>1, <2>2, KeepMoves DEF Labels, j
  <2>4. \A k \in RowIds : offers[k].who = i =>
           offers[k].st = "EXPIRED" /\ offers[k].round # job[t].round
    BY DEF Excluded
  <2>5. RowIds' = RowIds
    BY <1>0 DEF RowIds
  <2>6. Asking(t)'
    BY <1>0, <2>2, <2>3, <2>4, <2>5 DEF Moves, Asking, AtIt, Moving
  <2> QED BY <1>0, <2>3, <2>6, CalmStep DEF Moves, ToAssigned, Moving
<1>2. CASE Return(t)
  BY <1>0, <1>2, ReturnAsks, CalmStep DEF ToAssigned, Moving
<1>3. CASE Keep(t, "t_read", [job[t] EXCEPT !.to = "UNASSIGNED"])
  <2> DEFINE j == [job[t] EXCEPT !.to = "UNASSIGNED"]
  <2>1. "UNASSIGNED" \in Statuses
    BY DEF Statuses
  <2>2. j \in Jobs /\ j.op = job[t].op /\ j.to = "UNASSIGNED"
    BY <1>0, <2>1 DEF Jobs
  <2> HIDE DEF j
  <2>3. Moves(t, "t_read", j)
    BY <1>0, <1>3, <2>2, KeepMoves DEF Labels, j
  <2>4. Asking(t)'
    BY <1>0, <2>2, <2>3 DEF Moves, Asking, AtIt, Moving
  <2> QED BY <1>0, <2>3, <2>4, CalmStep DEF Moves, ToAssigned, Moving
<1> QED BY <1>1, <1>2, <1>3 DEF DispatchChoose

\* Rows that are there keep their answer.
Keeping ==
  /\ RowIds \subseteq RowIds'
  /\ \A k \in RowIds : /\ offers'[k].who = offers[k].who
                       /\ offers[k].st = "DECLINED" => offers'[k].st = "DECLINED"

LEMMA RefusalsKept ==
  ASSUME Refusals, Keeping, refused' = refused
  PROVE  Refusals'
BY DEF Refusals, Keeping, Of

\* Who is asked is somebody who has not refused, and not yet in this round.
LEMMA DispatchWriteAsks ==
  ASSUME AskInv, PoolInv', NEW t \in Tasks, DispatchWrite(t)
  PROVE  AskInv' /\ AsksOnceARound
<1>0. /\ pc[t] = "d_write" /\ refused' = refused /\ order' = order /\ Return(t)
      /\ LocalsOK /\ Asking(t) /\ AtIt(t) /\ job[t] \in Jobs /\ order.st \in Pool /\ Rows
      /\ \A u \in Tasks : u # t => ~AtIt(u) /\ ~ToAssigned(u)
  BY AtWork DEF DispatchWrite, LocalsOK, Asking
<1>1. Others(t) /\ Asking(t)' /\ ~ToAssigned(t)'
  BY <1>0, ReturnAsks
<1>2. Refusals
  BY <1>0 DEF AskInv, RefusalsStand, ToAssigned, Moving
<1>3. order.st # "CREATED"
  BY <1>0 DEF Pool
<1>4. CASE offers' = offers
  <2>1. ~(Len(offers') > Len(offers))
    BY <1>0, <1>4, RowsAre
  <2> QED BY <1>0, <1>1, <1>4, <2>1, CalmStep DEF ToAssigned, Moving, AsksOnceARound
<1>5. CASE Len(offers) # MaxRows
  <2> DEFINE r == [who |-> job[t].who, st |-> "PENDING", round |-> job[t].round, live |-> TRUE]
  <2>1. job[t].who \in Inspectors /\ job[t].round \in 0 .. MaxRound
    BY <1>0 DEF AskInv, PoolInv, Placed, Jobs
  <2>2. r \in Offers /\ r.who = job[t].who /\ r.round = job[t].round
    BY <2>1 DEF Offers
  <2>3. offers' = Append(offers, r) /\ Len(offers) < MaxRows
    <3>1. Len(offers) \in Nat /\ Len(offers) <= MaxRows
      BY <1>0, RowsAre DEF Rows
    <3> QED BY <1>5, <3>1, BoundsAssumption DEF DispatchWrite
  <2> HIDE DEF r
  <2>4. Keeping
    BY <1>0, <2>2, <2>3, AppendKeepsRows DEF Keeping
  <2>5. AskInv'
    BY <1>0, <1>1, <1>2, <1>3, <2>4, RefusalsKept, AskStep DEF Unasked
  <2>6. NewRow = r
    <3>1. offers \in Seq(Offers) /\ Len(offers) \in Nat
      BY <1>0, RowsAre DEF Rows
    <3>2. Len(offers') = Len(offers) + 1 /\ offers'[Len(offers) + 1] = r
      BY <2>2, <2>3, <3>1, AppendProperties
    <3> QED BY <3>2 DEF NewRow
  <2>7. \A k \in RowIds : offers[k].who = job[t].who =>
           offers[k].st = "EXPIRED" /\ offers[k].round # job[t].round
    BY <1>0 DEF Asking
  <2>8. job[t].who \notin refused
    BY <1>2, <2>7 DEF Refusals, Of
  <2> QED BY <2>2, <2>5, <2>6, <2>7, <2>8 DEF AsksOnceARound
<1> QED BY <1>4, <1>5 DEF DispatchWrite

LEMMA TransitionReadAsks ==
  ASSUME AskInv, PoolInv', NEW t \in Tasks, TransitionRead(t)
  PROVE  AskInv'
<1>0. /\ pc[t] = "t_read" /\ offers' = offers /\ refused' = refused /\ order' = order
      /\ LocalsOK /\ Asking(t) /\ AtIt(t)
      /\ \A u \in Tasks : u # t => ~AtIt(u) /\ ~ToAssigned(u)
  BY AtWork DEF TransitionRead
<1>1. CASE Go(t, "t_write")
  <2>1. Moves(t, "t_write", job[t])
    BY <1>0, <1>1, GoMoves DEF Labels
  <2>2. Asking(t)'
    BY <1>0, <2>1 DEF Moves, Asking, AtIt, Moving
  <2> QED BY <1>0, <2>1, <2>2, CalmStep DEF Moves, ToAssigned, Moving
<1>2. CASE ~Go(t, "t_write")
  <2>1. Return(t) \/ End(t)
    BY <1>2 DEF TransitionRead
  <2>2. ~(order.st \in Pool /\ job[t].to = "ASSIGNED")
    BY <1>2 DEF TransitionRead, Pool, CanTransition, OrderTransitions, Statuses
  <2>3. Others(t) /\ Asking(t)'
    BY <1>0, <2>1, ReturnAsks, EndAsks
  <2> QED BY <1>0, <2>2, <2>3, CalmStep DEF ToAssigned, Moving
<1> QED BY <1>1, <1>2

LEMMA TransitionWriteAsks ==
  ASSUME AskInv, PoolInv', NEW t \in Tasks, TransitionWrite(t)
  PROVE  AskInv'
<1>0. /\ pc[t] = "t_write" /\ offers' = offers /\ refused' = refused /\ Return(t)
      /\ LocalsOK /\ Asking(t) /\ AtIt(t) /\ Typed
      /\ order' = [order EXCEPT !.st = job[t].to]
      /\ \A u \in Tasks : u # t => ~AtIt(u) /\ ~ToAssigned(u)
  BY AtWork DEF TransitionWrite
<1>1. order'.st = job[t].to
  BY <1>0 DEF Typed
<1>2. /\ job[t].to \in {"UNASSIGNED", "CANCELLED", "ASSIGNED"}
      /\ job[t].to = "UNASSIGNED" => order.st \in Pool
  BY <1>0 DEF Asking, Moving
<1>3. Others(t) /\ Asking(t)' /\ ~ToAssigned(t)'
  BY <1>0, ReturnAsks
<1>4. Unasked'
  BY <1>1, <1>2 DEF Unasked
<1>5. order'.st \in Pool => Refusals'
  <2> SUFFICES ASSUME order'.st \in Pool PROVE Refusals'
    OBVIOUS
  <2>1. job[t].to = "UNASSIGNED" /\ order.st \in Pool
    BY <1>1, <1>2 DEF Pool
  <2>2. Refusals
    BY <1>0, <2>1 DEF AskInv, RefusalsStand, ToAssigned
  <2> QED BY <1>0, <2>2 DEF Refusals, Of, RowIds
<1> QED BY <1>0, <1>3, <1>4, <1>5, AskStep

-----------------------------------------------------------------------------
\* Functions that start.
LEMMA BeginAsks ==
  ASSUME AskInv, PoolInv', Turns, NEW t \in Tasks, NEW l \in Labels \ Moving, NEW j \in Jobs,
         Begin(t, l, j), l \notin {"idle", "d_lock", "d_choose", "d_write", "m_capture", "m_find",
           "m_expire", "m_own"},
         offers' = offers, refused' = refused, order'.st = order.st, j.op # "none"
  PROVE  AskInv'
<1>1. /\ Moves(t, l, j) /\ j.op \in Handlers /\ pc[t] = "idle"
      /\ \A u \in Tasks : u # t => ~AtIt(u) /\ ~ToAssigned(u)
  BY AloneBegins
<1>2. Asking(t)'
  BY <1>1 DEF Moves, Asking, AtIt
<1> QED BY <1>1, <1>2, CalmStep DEF Moves, ToAssigned, Moving

LEMMA AuthorizeAsks ==
  ASSUME AskInv, PoolInv', Turns, NEW t \in Tasks, Authorize(t)
  PROVE  AskInv'
<1> DEFINE j == Job("authorize", NoOne, 0)
<1>0. /\ order.st = "CREATED" /\ order'.st = "PAID" /\ offers' = offers /\ refused' = refused
      /\ Begin(t, "d_read", j)
  BY LocalsTyped DEF Authorize, AskInv, Typed
<1>1. j \in Jobs /\ j.op = "authorize"
  BY JobsAreTyped, NoOneTyped DEF HandlerNames
<1> HIDE DEF j
<1>2. /\ Moves(t, "d_read", j) /\ j.op \in Handlers /\ pc[t] = "idle"
      /\ \A u \in Tasks : u # t => ~AtIt(u) /\ ~ToAssigned(u)
  BY <1>0, <1>1, AloneBegins DEF Labels
<1>3. Asking(t)'
  BY <1>1, <1>2 DEF Moves, Asking, AtIt, Moving
<1>4. Refusals' /\ Unasked'
  BY <1>0 DEF AskInv, Unasked, Refusals
<1> QED BY <1>2, <1>3, <1>4, AskStep DEF Moves

LEMMA DeclineAsks ==
  ASSUME AskInv, PoolInv', Turns, NEW t \in Tasks, Decline(t)
  PROVE  AskInv'
<1>0. offers' = offers /\ refused' = refused /\ order' = order /\ Rows
  BY LocalsTyped DEF Decline, AskInv
<1>1. PICK k \in RowIds :
        Begin(t, IF offers[k].st = "PENDING" THEN "x_write" ELSE "d_read",
              Job("decline", offers[k].who, k))
  BY DEF Decline
<1> DEFINE j == Job("decline", offers[k].who, k)
<1>2. k \in 0 .. MaxRows /\ offers[k].who \in Inspectors
  BY <1>0, RowsAre DEF Offers
<1>3. j \in Jobs /\ j.op = "decline"
  BY <1>2, JobsAreTyped DEF HandlerNames
<1> HIDE DEF j
<1>4. PICK l \in {"x_write", "d_read"} : Begin(t, l, j)
  BY <1>1 DEF j
<1> QED BY <1>0, <1>3, <1>4, BeginAsks DEF Labels, Moving

LEMMA ExpireStaleOffersAsks ==
  ASSUME AskInv, PoolInv', Turns, NEW t \in Tasks, ExpireStaleOffers(t)
  PROVE  AskInv'
<1> DEFINE stale == {k \in Pending : ~offers[k].live}
           j == [Job("expireStaleOffers", NoOne, 0) EXCEPT !.todo = stale]
<1>0. offers' = offers /\ refused' = refused /\ order' = order /\ Begin(t, "s_write", j) /\ Rows
  BY LocalsTyped DEF ExpireStaleOffers, AskInv
<1>1. stale \in SUBSET (1 .. MaxRows)
  BY <1>0, RowsAre DEF Pending
<1> HIDE DEF stale
<1>2. j \in Jobs /\ j.op = "expireStaleOffers"
  <2>1. Job("expireStaleOffers", NoOne, 0) \in Jobs
        /\ Job("expireStaleOffers", NoOne, 0).op = "expireStaleOffers"
    BY JobsAreTyped, NoOneTyped DEF HandlerNames
  <2> HIDE DEF Job
  <2> QED BY <1>1, <2>1 DEF Jobs
<1> HIDE DEF j
<1> QED BY <1>0, <1>2, BeginAsks DEF Labels, Moving

LEMMA AdminAssignAsks ==
  ASSUME AskInv, PoolInv', Turns, NEW t \in Tasks, AdminAssign(t)
  PROVE  AskInv'
<1>0. offers' = offers /\ refused' = refused /\ order' = order /\ order.st \in Statuses
  BY LocalsTyped DEF AdminAssign, AskInv, Typed
<1>1. PICK i \in Inspectors :
        Begin(t, "m_claim", [Job("adminAssign", i, 0) EXCEPT !.st = order.st])
  BY DEF AdminAssign
<1> DEFINE j == [Job("adminAssign", i, 0) EXCEPT !.st = order.st]
<1>2. j \in Jobs /\ j.op = "adminAssign"
  <2>1. Job("adminAssign", i, 0) \in Jobs /\ Job("adminAssign", i, 0).op = "adminAssign"
    BY JobsAreTyped, NoOneTyped DEF HandlerNames
  <2> HIDE DEF Job
  <2> QED BY <1>0, <2>1 DEF Jobs
<1>3. Begin(t, "m_claim", j)
  BY <1>1
<1> HIDE DEF j
<1> QED BY <1>0, <1>2, <1>3, BeginAsks DEF Labels, Moving

LEMMA AcceptOfferAsks ==
  ASSUME AskInv, PoolInv', Turns, NEW t \in Tasks, AcceptOffer(t)
  PROVE  AskInv'
<1>0. offers' = offers /\ refused' = refused /\ order' = order /\ Rows
  BY LocalsTyped DEF AcceptOffer, AskInv
<1>1. PICK k \in Pending : Begin(t, "c_claim", Job("acceptOffer", offers[k].who, k))
  BY DEF AcceptOffer
<1> DEFINE j == Job("acceptOffer", offers[k].who, k)
<1>2. k \in 0 .. MaxRows /\ offers[k].who \in Inspectors
  BY <1>0, RowsAre DEF Offers, Pending
<1>3. j \in Jobs /\ j.op = "acceptOffer" /\ Begin(t, "c_claim", j)
  BY <1>1, <1>2, JobsAreTyped DEF HandlerNames
<1> HIDE DEF j
<1> QED BY <1>0, <1>3, BeginAsks DEF Labels, Moving

\* redispatch, the end of a search and a counter-offer that is given up.
LEMMA OthersBeginAsk ==
  ASSUME AskInv, PoolInv', Turns, NEW t \in Tasks,
         Redispatch(t) \/ ExpireUnfilledSearches(t) \/ Abandon(t)
  PROVE  AskInv'
<1>1. offers' = offers /\ refused' = refused /\ order' = order
  BY DEF Redispatch, ExpireUnfilledSearches, Abandon
<1>2. PICK op \in {"redispatch", "expireUnfilledSearches", "abandon"},
           l \in {"r_claim", "e_claim", "d_read"} :
        Begin(t, l, Job(op, NoOne, 0))
  BY DEF Redispatch, ExpireUnfilledSearches, Abandon
<1> DEFINE j == Job(op, NoOne, 0)
<1>3. j \in Jobs /\ j.op = op
  BY JobsAreTyped, NoOneTyped DEF HandlerNames
<1> HIDE DEF j
<1>4. Begin(t, l, j)
  BY <1>2 DEF j
<1> QED BY <1>1, <1>3, <1>4, BeginAsks DEF Labels, Moving

LEMMA CancelAsks ==
  ASSUME AskInv, PoolInv', Turns, NEW t \in Tasks, Cancel(t)
  PROVE  AskInv'
<1> DEFINE j == Job("cancel", NoOne, 0)
<1>0. offers' = offers /\ refused' = refused /\ order' = order /\ Begin(t, "t_read", j)
  BY DEF Cancel
<1>1. j \in Jobs /\ j.op = "cancel" /\ j.to = "CANCELLED"
  <2>1. "cancel" \in HandlerNames \cup {"none"}
    BY DEF HandlerNames
  <2> QED BY <2>1, JobsAreTyped, NoOneTyped
<1> HIDE DEF j
<1>2. /\ Moves(t, "t_read", j) /\ j.op \in Handlers /\ pc[t] = "idle"
      /\ \A u \in Tasks : u # t => ~AtIt(u) /\ ~ToAssigned(u)
  BY <1>0, <1>1, AloneBegins DEF Labels
<1>3. Asking(t)'
  BY <1>1, <1>2 DEF Moves, Asking, AtIt, Moving
<1> QED BY <1>0, <1>2, <1>3, CalmStep DEF Moves, ToAssigned, Moving

-----------------------------------------------------------------------------
\* Refusals and sweeps.
LEMMA RowStep ==
  ASSUME AskInv, PoolInv', NEW t \in Tasks, pc[t] # "idle", Others(t), ~ToAssigned(t),
         Keeping, RowIds' = RowIds, refused' = refused, order'.st = order.st, Asking(t)'
  PROVE  AskInv'
<1>1. \A u \in Tasks : u # t => ~AtIt(u) /\ ~ToAssigned(u)
  BY AtWork
<1>2. order'.st \in Pool => Refusals'
  BY <1>1, RefusalsKept DEF AskInv, RefusalsStand
<1>3. Unasked'
  BY DEF AskInv, Unasked
<1> QED BY <1>1, <1>2, <1>3, AskStep

LEMMA AnswerKeeps ==
  ASSUME Rows, NEW S, NEW From, NEW to \in AnyState, Answer(S, From, to),
         \A k \in S \cap RowIds : offers[k].st \in From => offers[k].st # "DECLINED"
  PROVE  Keeping /\ RowIds' = RowIds
BY AnswerKeepsRows DEF Keeping

LEMMA DeclineWriteAsks ==
  ASSUME AskInv, PoolInv', NEW t \in Tasks, DeclineWrite(t)
  PROVE  AskInv'
<1>0. /\ pc[t] = "x_write" /\ order' = order /\ LocalsOK /\ Asking(t) /\ Rows
      /\ Answer({job[t].row}, AnyState, "DECLINED") /\ refused' = refused \cup {job[t].who}
      /\ \A u \in Tasks : u # t => ~AtIt(u) /\ ~ToAssigned(u)
  BY AtWork DEF DeclineWrite
<1>1. Moves(t, "d_read", job[t])
  BY <1>0, GoMoves DEF DeclineWrite, Labels
<1>2. job[t].row \in RowIds /\ offers[job[t].row].who = job[t].who /\ offers[job[t].row].st = "PENDING"
  BY <1>0 DEF AskInv, PoolInv, Holds, Its
<1>3. Asking(t)'
  BY <1>0, <1>1 DEF Moves, Asking, AtIt, Moving
<1>4. /\ RowIds' = RowIds
      /\ \A k \in RowIds : /\ offers'[k].who = offers[k].who
                           /\ offers[k].st = "DECLINED" => offers'[k].st = "DECLINED"
      /\ offers'[job[t].row].st = "DECLINED"
  BY <1>0, <1>2, AnswerKeepsRows DEF AnyState
<1>5. order'.st \in Pool => Refusals'
  <2> SUFFICES ASSUME order'.st \in Pool, NEW i \in refused'
               PROVE  \E k \in RowIds : offers'[k].who = i /\ offers'[k].st = "DECLINED"
    BY <1>4 DEF Refusals, Of
  <2>1. Refusals
    BY <1>0 DEF AskInv, RefusalsStand, ToAssigned, Moving
  <2>2. CASE i \in refused
    <3>1. PICK k \in RowIds : offers[k].who = i /\ offers[k].st = "DECLINED"
      BY <2>1, <2>2 DEF Refusals, Of
    <3> QED BY <1>4, <3>1
  <2>3. CASE i = job[t].who
    BY <1>2, <1>4, <2>3
  <2> QED BY <1>0, <2>2, <2>3
<1>6. Unasked'
  BY <1>0, <1>2 DEF AskInv, Unasked
<1> QED BY <1>0, <1>1, <1>3, <1>5, <1>6, AskStep DEF Moves

LEMMA StaleWriteAsks ==
  ASSUME AskInv, PoolInv', NEW t \in Tasks, StaleWrite(t)
  PROVE  AskInv'
<1> DEFINE k == Least(job[t].todo)
           j == [job[t] EXCEPT !.todo = @ \ {k}]
<1>0. /\ pc[t] = "s_write" /\ order' = order /\ refused' = refused /\ LocalsOK /\ Asking(t) /\ Rows
      /\ Answer({k}, AnyState, "EXPIRED") /\ Keep(t, "d_read", j) /\ job[t] \in Jobs
  BY AtWork DEF StaleWrite, LocalsOK
<1>1. job[t].todo \subseteq Pending /\ job[t].todo # {} /\ job[t].todo \in SUBSET (1 .. MaxRows)
  BY <1>0 DEF AskInv, PoolInv, Placed, Holds, Jobs
<1>2. k \in job[t].todo
  BY <1>1, LeastIn
<1>3. j \in Jobs /\ j.op = job[t].op
  BY <1>0, <1>1 DEF Jobs
<1> HIDE DEF j, k
<1>4. Moves(t, "d_read", j)
  BY <1>0, <1>3, KeepMoves DEF Labels
<1>5. Asking(t)'
  BY <1>0, <1>3, <1>4 DEF Moves, Asking, AtIt, Moving
<1>6. Keeping /\ RowIds' = RowIds
  BY <1>0, <1>1, <1>2, AnswerKeeps DEF Pending, AnyState
<1> QED BY <1>0, <1>4, <1>5, <1>6, RowStep DEF Moves, ToAssigned, Moving

LEMMA StaleNextAsks ==
  ASSUME AskInv, PoolInv', NEW t \in Tasks, StaleNext(t)
  PROVE  AskInv'
<1>0. /\ pc[t] = "s_next" /\ offers' = offers /\ refused' = refused /\ order' = order
      /\ LocalsOK /\ Asking(t) /\ AtIt(t)
      /\ \A u \in Tasks : u # t => ~AtIt(u) /\ ~ToAssigned(u)
  BY AtWork DEF StaleNext
<1>1. CASE Go(t, "s_write")
  <2>1. Moves(t, "s_write", job[t])
    BY <1>0, <1>1, GoMoves DEF Labels
  <2>2. Asking(t)'
    BY <1>0, <2>1 DEF Moves, Asking, AtIt, Moving
  <2> QED BY <1>0, <2>1, <2>2, CalmStep DEF Moves, ToAssigned, Moving
<1>2. CASE End(t)
  BY <1>0, <1>2, EndAsks, CalmStep DEF ToAssigned, Moving
<1> QED BY <1>1, <1>2 DEF StaleNext

LEMMA RedispatchClaimAsks ==
  ASSUME AskInv, PoolInv', NEW t \in Tasks, RedispatchClaim(t)
  PROVE  AskInv'
<1>0. /\ pc[t] = "r_claim" /\ offers' = offers /\ refused' = refused /\ order'.st = order.st
      /\ LocalsOK /\ Asking(t) /\ AtIt(t)
      /\ \A u \in Tasks : u # t => ~AtIt(u) /\ ~ToAssigned(u)
  BY AtWork DEF RedispatchClaim, Typed
<1>1. CASE Go(t, "d_read")
  <2>1. Moves(t, "d_read", job[t])
    BY <1>0, <1>1, GoMoves DEF Labels
  <2>2. Asking(t)'
    BY <1>0, <2>1 DEF Moves, Asking, AtIt, Moving
  <2> QED BY <1>0, <2>1, <2>2, CalmStep DEF Moves, ToAssigned, Moving
<1>2. CASE End(t)
  BY <1>0, <1>2, EndAsks, CalmStep DEF ToAssigned, Moving
<1> QED BY <1>1, <1>2 DEF RedispatchClaim

-----------------------------------------------------------------------------
\* Acceptances.
LEMMA UnclaimedStands == ASSUME Typed, NEW t \in Tasks PROVE Unclaimed(t).st = order.st
BY UnclaimedIs DEF Typed

LEMMA AcceptClaimAsks ==
  ASSUME AskInv, PoolInv', NEW t \in Tasks, AcceptClaim(t) \/ AcceptCapture(t)
  PROVE  AskInv'
<1>0. /\ pc[t] \in {"c_claim", "c_capture"} /\ offers' = offers /\ refused' = refused
      /\ order'.st = order.st /\ LocalsOK /\ Asking(t) /\ AtIt(t)
      /\ \A u \in Tasks : u # t => ~AtIt(u) /\ ~ToAssigned(u)
  BY AtWork, UnclaimedStands DEF AcceptClaim, AcceptCapture, Typed
<1>1. ASSUME NEW l \in {"c_accept", "c_others", "c_undo_offer", "c_kill"}, Go(t, l)
      PROVE  AskInv'
  <2>1. Moves(t, l, job[t])
    BY <1>0, <1>1, GoMoves DEF Labels
  <2>2. Asking(t)'
    BY <1>0, <2>1 DEF Moves, Asking, AtIt, Moving
  <2> QED BY <1>0, <2>1, <2>2, CalmStep DEF Moves, ToAssigned, Moving
<1>2. CASE End(t)
  BY <1>0, <1>2, EndAsks, CalmStep DEF ToAssigned, Moving
<1> QED BY <1>1, <1>2 DEF AcceptClaim, AcceptCapture

LEMMA AcceptMarkAsks ==
  ASSUME AskInv, PoolInv', NEW t \in Tasks, AcceptMark(t)
  PROVE  AskInv'
<1>0. /\ pc[t] = "c_accept" /\ order' = order /\ refused' = refused /\ LocalsOK /\ Asking(t) /\ Rows
      /\ Answer({job[t].row}, {"PENDING"}, "ACCEPTED")
  BY AtWork DEF AcceptMark
<1>1. Moves(t, "c_capture", job[t])
  BY <1>0, GoMoves DEF AcceptMark, Labels
<1>2. Asking(t)'
  BY <1>0, <1>1 DEF Moves, Asking, AtIt, Moving
<1>3. Keeping /\ RowIds' = RowIds
  BY <1>0, AnswerKeeps DEF AnyState
<1> QED BY <1>0, <1>1, <1>2, <1>3, RowStep DEF Moves, ToAssigned, Moving

LEMMA UndoOfferAsks ==
  ASSUME AskInv, PoolInv', NEW t \in Tasks, UndoOffer(t)
  PROVE  AskInv'
<1>0. /\ pc[t] = "c_undo_offer" /\ order' = order /\ refused' = refused /\ Rows /\ End(t)
  BY AtWork DEF UndoOffer
<1>1. PICK live \in BOOLEAN :
        offers' = [k \in RowIds |->
          IF k = job[t].row /\ offers[k].st = "ACCEPTED"
          THEN [offers[k] EXCEPT !.st = "PENDING", !.live = live] ELSE offers[k]]
  BY DEF UndoOffer
<1>2. \A k \in RowIds :
        offers[k] \in Offers /\ [offers[k] EXCEPT !.st = "PENDING", !.live = live] \in Offers
  BY <1>0, RowsAre DEF Offers
<1>3. RowIds' = RowIds
  <2>1. offers' \in [RowIds -> Offers]
    BY <1>1, <1>2
  <2> QED BY <1>0, <2>1, RowsInPlace
<1>4. \A k \in RowIds : /\ offers'[k].who = offers[k].who
                        /\ offers[k].st = "DECLINED" => offers'[k].st = "DECLINED"
  <2> TAKE k \in RowIds
  <2>1. CASE k = job[t].row /\ offers[k].st = "ACCEPTED"
    <3>1. offers'[k] = [offers[k] EXCEPT !.st = "PENDING", !.live = live]
      BY <1>1, <2>1
    <3> QED BY <1>2, <2>1, <3>1 DEF Offers
  <2>2. CASE ~(k = job[t].row /\ offers[k].st = "ACCEPTED")
    BY <1>1, <2>2
  <2> QED BY <2>1, <2>2
<1>5. Others(t) /\ Asking(t)'
  BY <1>0, EndAsks
<1> QED BY <1>0, <1>3, <1>4, <1>5, RowStep DEF Keeping, ToAssigned, Moving

\* A function that has made up its mind: the transition is next.
LEMMA MoveAsks ==
  ASSUME AskInv, NEW t \in Tasks, pc[t] # "idle", NEW to \in {"CANCELLED", "ASSIGNED"}, Move(t, to)
  PROVE  Others(t) /\ Asking(t)' /\ (ToAssigned(t)' <=> to = "ASSIGNED")
<1>1. LocalsOK /\ Asking(t) /\ to \in Statuses
  BY AtWork DEF Statuses
<1>2. /\ Moves(t, "t_read", [job[t] EXCEPT !.to = to])
      /\ job'[t].op = job[t].op /\ job'[t].to = to
  BY <1>1, MoveMoves
<1> QED BY <1>1, <1>2 DEF Moves, Asking, AtIt, ToAssigned, Moving

LEMMA EndOfOffersAsks ==
  ASSUME AskInv, PoolInv', NEW t \in Tasks, KillOffers(t) \/ ExpireOthers(t)
  PROVE  AskInv'
<1>0. pc[t] \in {"c_kill", "c_others"} /\ order' = order /\ refused' = refused /\ Rows
  BY AtWork DEF KillOffers, ExpireOthers
<1>1. Others(t) /\ Asking(t)'
  BY <1>0, MoveAsks DEF KillOffers, ExpireOthers
<1>2. PICK From \in {{"PENDING"}, {"PENDING", "ACCEPTED"}} : Answer(RowIds, From, "EXPIRED")
  BY DEF KillOffers, ExpireOthers
<1>3. Keeping /\ RowIds' = RowIds
  BY <1>0, <1>2, AnswerKeeps DEF AnyState
<1> QED BY <1>0, <1>1, <1>3, RowStep DEF ToAssigned, Moving

-----------------------------------------------------------------------------
\* The operator.
LEMMA AdminClaimAsks ==
  ASSUME AskInv, PoolInv', NEW t \in Tasks, AdminClaim(t) \/ AdminCapture(t)
  PROVE  AskInv'
<1>0. /\ pc[t] \in {"m_claim", "m_capture"} /\ offers' = offers /\ refused' = refused
      /\ order'.st = order.st /\ LocalsOK /\ Asking(t) /\ AtIt(t)
      /\ \A u \in Tasks : u # t => ~AtIt(u) /\ ~ToAssigned(u)
  BY AtWork, UnclaimedStands DEF AdminClaim, AdminCapture, Typed
<1>1. CASE Go(t, "m_capture") \/ Go(t, "m_find")
  <2>1. order.st \in Pool
    <3>1. CASE pc[t] = "m_claim" /\ order.st = job[t].st
      BY <3>1 DEF AskInv, PoolInv, Placed
    <3>2. CASE pc[t] = "m_claim" /\ order.st # job[t].st
      <4>1. End(t)
        BY <3>2 DEF AdminClaim, AdminCapture
      <4>2. pc'[t] \in {"m_capture", "m_find"} /\ pc'[t] = "idle"
        <5>1. pc'[t] = "idle"
          BY <1>0, <4>1, EndMoves DEF Moves
        <5>2. Moves(t, "m_capture", job[t]) \/ Moves(t, "m_find", job[t])
          BY <1>0, <1>1, GoMoves DEF Labels
        <5> QED BY <5>1, <5>2 DEF Moves
      <4> QED BY <4>2
    <3>3. CASE pc[t] = "m_capture"
      BY <1>0, <3>3 DEF Asking
    <3> QED BY <1>0, <3>1, <3>2, <3>3
  <2>2. PICK l \in {"m_capture", "m_find"} : Moves(t, l, job[t])
    BY <1>0, <1>1, GoMoves DEF Labels
  <2>3. Asking(t)'
    BY <1>0, <2>1, <2>2 DEF Moves, Asking, AtIt, Moving
  <2> QED BY <1>0, <2>2, <2>3, CalmStep DEF Moves, ToAssigned, Moving
<1>2. CASE End(t)
  BY <1>0, <1>2, EndAsks, CalmStep DEF ToAssigned, Moving
<1>3. CASE Move(t, "CANCELLED")
  BY <1>0, <1>3, MoveAsks, CalmStep DEF ToAssigned, Moving
<1> QED BY <1>1, <1>2, <1>3 DEF AdminClaim, AdminCapture

LEMMA AdminFindAsks ==
  ASSUME AskInv, PoolInv', NEW t \in Tasks, AdminFind(t)
  PROVE  AskInv'
<1> DEFINE S == Pending \ Of(job[t].who)
           j == [job[t] EXCEPT !.todo = S]
<1>0. /\ pc[t] = "m_find" /\ offers' = offers /\ refused' = refused /\ order' = order
      /\ LocalsOK /\ Asking(t) /\ AtIt(t) /\ job[t] \in Jobs /\ Rows /\ Keep(t, "m_expire", j)
      /\ \A u \in Tasks : u # t => ~AtIt(u) /\ ~ToAssigned(u)
  BY AtWork DEF AdminFind, LocalsOK
<1>1. S \in SUBSET (1 .. MaxRows) /\ S \subseteq Pending /\ Pending' = Pending
  BY <1>0, RowsAre DEF Pending, RowIds
<1> HIDE DEF S
<1>2. j \in Jobs /\ j.op = job[t].op /\ j.todo = S
  BY <1>0, <1>1 DEF Jobs
<1> HIDE DEF j
<1>3. Moves(t, "m_expire", j)
  BY <1>0, <1>2, KeepMoves DEF Labels
<1>4. Asking(t)'
  BY <1>0, <1>1, <1>2, <1>3 DEF Moves, Asking, AtIt, Moving
<1> QED BY <1>0, <1>3, <1>4, CalmStep DEF Moves, ToAssigned, Moving

LEMMA AdminExpireAsks ==
  ASSUME AskInv, PoolInv', NEW t \in Tasks, AdminExpire(t)
  PROVE  AskInv'
<1>0. /\ pc[t] = "m_expire" /\ order' = order /\ refused' = refused /\ LocalsOK /\ Asking(t) /\ Rows
      /\ Answer(job[t].todo, AnyState, "EXPIRED") /\ job[t].todo \subseteq Pending
  BY AtWork DEF AdminExpire, Asking
<1>1. Moves(t, "m_own", job[t])
  BY <1>0, GoMoves DEF AdminExpire, Labels
<1>2. Asking(t)'
  BY <1>0, <1>1 DEF Moves, Asking, AtIt, Moving
<1>3. Keeping /\ RowIds' = RowIds
  BY <1>0, AnswerKeeps DEF AnyState, Pending
<1> QED BY <1>0, <1>1, <1>2, <1>3, RowStep DEF Moves, ToAssigned, Moving

\* The inspector of the operator may be one who had refused: the order leaves the pool.
LEMMA AdminOwnAsks ==
  ASSUME AskInv, PoolInv', NEW t \in Tasks, AdminOwn(t)
  PROVE  AskInv'
<1>0. /\ pc[t] = "m_own" /\ order' = order /\ refused' = refused /\ LocalsOK /\ Asking(t) /\ Rows
      /\ AtIt(t) /\ order.st \in Pool
      /\ \A u \in Tasks : u # t => ~AtIt(u) /\ ~ToAssigned(u)
  BY AtWork DEF AdminOwn, Asking
<1>1. CASE Move(t, "ASSIGNED")
  <2>1. Others(t) /\ Asking(t)' /\ ToAssigned(t)'
    BY <1>0, <1>1, MoveAsks
  <2>2. Unasked'
    BY <1>0 DEF Unasked, Pool
  <2> QED BY <1>0, <2>1, <2>2, AskStep
<1>2. CASE End(t) /\ UNCHANGED offers
  BY <1>0, <1>2, EndAsks, CalmStep DEF ToAssigned, Moving
<1> QED BY <1>1, <1>2 DEF AdminOwn

-----------------------------------------------------------------------------
\* The end of the search, and the world.
LEMMA ExpireClaimAsks ==
  ASSUME AskInv, PoolInv', NEW t \in Tasks, ExpireClaim(t)
  PROVE  AskInv'
<1>0. /\ pc[t] = "e_claim" /\ offers' = offers /\ refused' = refused /\ Typed
      /\ LocalsOK /\ Asking(t) /\ AtIt(t)
      /\ \A u \in Tasks : u # t => ~AtIt(u) /\ ~ToAssigned(u)
  BY AtWork DEF ExpireClaim
<1>1. CASE End(t) /\ UNCHANGED order
  BY <1>0, <1>1, EndAsks, CalmStep DEF ToAssigned, Moving
<1>2. CASE order' = [order EXCEPT !.st = "CANCELLED"] /\ Go(t, "e_find")
  <2>1. order'.st = "CANCELLED"
    BY <1>0, <1>2 DEF Typed
  <2>2. Moves(t, "e_find", job[t])
    BY <1>0, <1>2, GoMoves DEF Labels
  <2>3. Asking(t)'
    BY <1>0, <2>2 DEF Moves, Asking, AtIt, Moving
  <2> QED BY <1>0, <2>1, <2>2, <2>3, AskStep DEF Moves, Unasked, Pool
<1> QED BY <1>1, <1>2 DEF ExpireClaim

LEMMA ExpireFindAsks ==
  ASSUME AskInv, PoolInv', NEW t \in Tasks, ExpireFind(t)
  PROVE  AskInv'
<1> DEFINE j == [job[t] EXCEPT !.todo = Pending]
<1>0. /\ pc[t] = "e_find" /\ offers' = offers /\ refused' = refused /\ order' = order
      /\ LocalsOK /\ Asking(t) /\ AtIt(t) /\ job[t] \in Jobs /\ Rows
      /\ \A u \in Tasks : u # t => ~AtIt(u) /\ ~ToAssigned(u)
  BY AtWork DEF ExpireFind, LocalsOK
<1>1. CASE End(t)
  BY <1>0, <1>1, EndAsks, CalmStep DEF ToAssigned, Moving
<1>2. CASE Keep(t, "e_write", j)
  <2>1. Pending \in SUBSET (1 .. MaxRows)
    BY <1>0, RowsAre DEF Pending
  <2>2. j \in Jobs /\ j.op = job[t].op
    <3> HIDE DEF Pending
    <3> QED BY <1>0, <2>1 DEF Jobs
  <2> HIDE DEF j
  <2>3. Moves(t, "e_write", j)
    BY <1>0, <1>2, <2>2, KeepMoves DEF Labels
  <2>4. Asking(t)'
    BY <1>0, <2>2, <2>3 DEF Moves, Asking, AtIt, Moving
  <2> QED BY <1>0, <2>3, <2>4, CalmStep DEF Moves, ToAssigned, Moving
<1> QED BY <1>1, <1>2 DEF ExpireFind

LEMMA ExpireWriteAsks ==
  ASSUME AskInv, PoolInv', NEW t \in Tasks, ExpireWrite(t)
  PROVE  AskInv'
<1>0. /\ pc[t] = "e_write" /\ order' = order /\ refused' = refused /\ Rows /\ End(t)
      /\ Answer(job[t].todo, AnyState, "EXPIRED")
  BY AtWork DEF ExpireWrite
<1>1. job[t].op = "expireUnfilledSearches" /\ job[t].todo \subseteq Pending
  BY <1>0 DEF AskInv, PoolInv, Placed, Holds
<1>2. Others(t) /\ Asking(t)'
  BY <1>0, EndAsks
<1>3. Keeping /\ RowIds' = RowIds
  BY <1>0, <1>1, AnswerKeeps DEF AnyState, Pending
<1> QED BY <1>0, <1>2, <1>3, RowStep DEF ToAssigned, Moving

LEMMA WorldAsks ==
  ASSUME AskInv, PoolInv', World \/ UNCHANGED vars
  PROVE  AskInv'
<1>0. LocalsOK /\ Typed /\ Rows
  BY LocalsTyped DEF AskInv
<1>1. order' = order /\ pc' = pc /\ job' = job /\ refused' = refused
  BY DEF World, FreeChanges, OfferLapses, SearchEnds, CounterOfferPaid, vars
<1>2. /\ RowIds' = RowIds
      /\ \A k \in RowIds : /\ offers'[k].who = offers[k].who /\ offers'[k].st = offers[k].st
                           /\ offers'[k].round = offers[k].round
  <2>1. CASE offers' = offers
    BY <2>1 DEF RowIds
  <2>2. CASE OfferLapses
    <3>1. PICK k \in Pending : offers' = [offers EXCEPT ![k].live = FALSE]
      BY <2>2 DEF OfferLapses
    <3>2. k \in RowIds /\ offers \in [RowIds -> Offers] /\ offers[k] \in Offers
      BY <1>0, RowsAre DEF Pending
    <3>3. [offers[k] EXCEPT !.live = FALSE] \in Offers
      BY <3>2 DEF Offers
    <3>4. offers' \in [RowIds -> Offers]
      BY <3>1, <3>2, <3>3
    <3>5. RowIds' = RowIds
      BY <1>0, <3>4, RowsInPlace
    <3>6. \A r \in RowIds : /\ offers'[r].who = offers[r].who /\ offers'[r].st = offers[r].st
                            /\ offers'[r].round = offers[r].round
      <4> TAKE r \in RowIds
      <4>1. offers[r] \in Offers
        BY <3>2
      <4>2. offers'[r] = IF r = k THEN [offers[k] EXCEPT !.live = FALSE] ELSE offers[r]
        BY <3>1, <3>2
      <4> QED BY <4>1, <4>2 DEF Offers
    <3> QED BY <3>5, <3>6
  <2> QED BY <2>1, <2>2 DEF World, FreeChanges, SearchEnds, CounterOfferPaid, vars
<1>3. OneWorks' /\ \A t \in Tasks : ToAssigned(t)' <=> ToAssigned(t)
  BY <1>1 DEF AskInv, OneWorks, AtIt, ToAssigned
<1>4. Pending' = Pending
  BY <1>2 DEF Pending
<1>5. \A t \in Tasks : Asking(t)'
  BY <1>1, <1>2, <1>4 DEF AskInv, Asking, AtIt
<1>6. RefusalsStand' /\ Unasked'
  BY <1>1, <1>2, <1>3 DEF AskInv, RefusalsStand, Refusals, Of, Unasked
<1> QED BY <1>3, <1>5, <1>6 DEF AskInv

-----------------------------------------------------------------------------
\* No other function puts anybody on the list whose answer is waited for.
LEMMA NoMoreRows ==
  ASSUME Rows, Rows', RowIds' = RowIds
  PROVE  AsksOnceARound
<1>1. PICK n \in Nat : n = Len(offers) /\ RowIds = 1 .. n
  BY RowsAre
<1>2. PICK m \in Nat : m = Len(offers') /\ RowIds' = 1 .. m
  <2>1. (Rows => Len(offers) \in Nat /\ RowIds = 1 .. Len(offers))'
    BY RowsAre DEF Rows, RowIds
  <2> QED BY <2>1
<1>3. ~(m > n)
  <2> SUFFICES ASSUME m > n PROVE FALSE
    OBVIOUS
  <2>1. m \in 1 .. m /\ m \notin 1 .. n
    BY <1>1, <1>2
  <2> QED BY <1>1, <1>2, <2>1
<1> QED BY <1>1, <1>2, <1>3 DEF AsksOnceARound

LEMMA SameRows ==
  ASSUME Rows, offers' = offers
  PROVE  AsksOnceARound
BY NoMoreRows DEF Rows, RowIds

LEMMA AnsweredRows ==
  ASSUME Rows, NEW S, NEW From, NEW to \in AnyState, Answer(S, From, to)
  PROVE  AsksOnceARound
BY NoMoreRows, AnswerKeepsRows

LEMMA AdminAsksNobody ==
  ASSUME Rows, NEW t \in Tasks, AdminOwn(t)
  PROVE  AsksOnceARound
<1>1. CASE offers' = offers
  BY <1>1, SameRows
<1>2. ASSUME NEW k, Answer({k}, AnyState, "ACCEPTED") PROVE AsksOnceARound
  BY <1>2, AnsweredRows DEF AnyState
<1>3. CASE offers' = Append(offers, [who |-> job[t].who, st |-> "ACCEPTED",
                                     round |-> 0, live |-> FALSE])
  <2>1. offers \in Seq(Offers) /\ Len(offers) \in Nat
    BY RowsAre DEF Rows
  <2>2. Len(offers') = Len(offers) + 1
        /\ offers'[Len(offers) + 1] = [who |-> job[t].who, st |-> "ACCEPTED",
                                       round |-> 0, live |-> FALSE]
    BY <1>3, <2>1
  <2> QED BY <2>2 DEF AsksOnceARound, NewRow
<1> QED BY <1>1, <1>2, <1>3 DEF AdminOwn

LEMMA StepsAskNobody ==
  ASSUME AskInv, PoolInv', NEW t \in Tasks,
         \/ Called(t) \/ Continue(t) \/ ExpireStaleOffers(t) \/ Redispatch(t)
         \/ ExpireUnfilledSearches(t)
  PROVE  AsksOnceARound
<1>0. Rows /\ Rows'
  BY DEF AskInv, PoolInv
<1>1. CASE UNCHANGED offers
  BY <1>0, <1>1, SameRows
<1>2. CASE DispatchWrite(t)
  BY <1>2, DispatchWriteAsks
<1>3. CASE AdminOwn(t)
  BY <1>0, <1>3, AdminAsksNobody
<1>4. CASE UndoOffer(t)
  <2>1. PICK live \in BOOLEAN :
          offers' = [k \in RowIds |->
            IF k = job[t].row /\ offers[k].st = "ACCEPTED"
            THEN [offers[k] EXCEPT !.st = "PENDING", !.live = live] ELSE offers[k]]
    BY <1>4 DEF UndoOffer
  <2>2. \A k \in RowIds :
          offers[k] \in Offers /\ [offers[k] EXCEPT !.st = "PENDING", !.live = live] \in Offers
    BY <1>0, RowsAre DEF Offers
  <2>3. offers' \in [RowIds -> Offers]
    BY <2>1, <2>2
  <2> QED BY <1>0, <2>3, RowsInPlace, NoMoreRows
<1>5. CASE \/ DeclineWrite(t) \/ StaleWrite(t) \/ AcceptMark(t) \/ KillOffers(t)
           \/ ExpireOthers(t) \/ AdminExpire(t) \/ ExpireWrite(t)
  <2>1. PICK S \in {{job[t].row}, {Least(job[t].todo)}, RowIds, job[t].todo},
             From \in {AnyState, {"PENDING"}, {"PENDING", "ACCEPTED"}},
             to \in AnyState : Answer(S, From, to)
    BY <1>5 DEF DeclineWrite, StaleWrite, AcceptMark, KillOffers, ExpireOthers, AdminExpire,
       ExpireWrite, AnyState
  <2> QED BY <1>0, <2>1, AnsweredRows
<1> QED BY <1>1, <1>2, <1>3, <1>4, <1>5 DEF Called, Authorize, Decline, AcceptOffer, AdminAssign,
           Cancel, Abandon, Continue, DispatchSteps, DispatchRead, DispatchLock, DispatchChoose,
           TransitionRead, TransitionWrite, StaleNext, RedispatchClaim, AcceptClaim,
           AcceptCapture, AdminClaim, AdminCapture, AdminFind, ExpireClaim, ExpireFind,
           ExpireStaleOffers, Redispatch, ExpireUnfilledSearches

LEMMA WorldAsksNobody ==
  ASSUME AskInv, PoolInv', World \/ UNCHANGED vars
  PROVE  AsksOnceARound
<1>0. Rows /\ Rows'
  BY DEF AskInv, PoolInv
<1>1. CASE offers' = offers
  BY <1>0, <1>1, SameRows
<1>2. CASE OfferLapses
  <2>1. PICK k \in Pending : offers' = [offers EXCEPT ![k].live = FALSE]
    BY <1>2 DEF OfferLapses
  <2>2. k \in RowIds /\ offers \in [RowIds -> Offers] /\ offers[k] \in Offers
    BY <1>0, RowsAre DEF Pending
  <2>3. [offers[k] EXCEPT !.live = FALSE] \in Offers
    BY <2>2 DEF Offers
  <2>4. offers' \in [RowIds -> Offers]
    BY <2>1, <2>2, <2>3
  <2> QED BY <1>0, <2>4, RowsInPlace, NoMoreRows
<1> QED BY <1>1, <1>2 DEF World, FreeChanges, SearchEnds, CounterOfferPaid, vars

LEMMA NextAsks ==
  ASSUME AskInv, Turns, [Next]_vars
  PROVE  AskInv' /\ AsksOnceARound
<1>1. PoolInv'
  BY TurnsAnswer, NextKeeps DEF AskInv
<1>2. CASE World \/ UNCHANGED vars
  BY <1>1, <1>2, WorldAsks, WorldAsksNobody
<1>3. ASSUME NEW t \in Tasks, Called(t) PROVE AskInv'
  BY <1>1, <1>3, AuthorizeAsks, DeclineAsks, AcceptOfferAsks, AdminAssignAsks, CancelAsks,
     OthersBeginAsk DEF Called
<1>4. ASSUME NEW t \in Tasks, Continue(t) PROVE AskInv'
  BY <1>1, <1>4, DispatchReadAsks, DispatchLockAsks, DispatchChooseAsks, DispatchWriteAsks,
     TransitionReadAsks, TransitionWriteAsks, DeclineWriteAsks, StaleWriteAsks, StaleNextAsks,
     RedispatchClaimAsks, AcceptClaimAsks, AcceptMarkAsks, UndoOfferAsks, EndOfOffersAsks,
     AdminClaimAsks, AdminFindAsks, AdminExpireAsks, AdminOwnAsks, ExpireClaimAsks,
     ExpireFindAsks, ExpireWriteAsks DEF Continue, DispatchSteps
<1>5. ASSUME NEW t \in Tasks, ExpireStaleOffers(t) \/ Redispatch(t) \/ ExpireUnfilledSearches(t)
      PROVE  AskInv'
  BY <1>1, <1>5, ExpireStaleOffersAsks, OthersBeginAsk
<1>6. ASSUME NEW t \in Tasks, \/ Called(t) \/ Continue(t) \/ ExpireStaleOffers(t)
                              \/ Redispatch(t) \/ ExpireUnfilledSearches(t)
      PROVE  AskInv' /\ AsksOnceARound
  BY <1>1, <1>3, <1>4, <1>5, <1>6, StepsAskNobody
<1> QED BY <1>2, <1>6 DEF Next

-----------------------------------------------------------------------------
(***************************************************************************)
(* One acceptance, whatever overlaps.  The claim of the order is a lock that   *)
(* its inspector's name stands for: from the conditional update on until the    *)
(* function has moved on or given the order back, nobody else can take it, and   *)
(* no offer stands as accepted but the one it answers.                          *)
(***************************************************************************)
Claims(t) == pc[t] \in {"c_accept", "c_capture", "c_others", "m_capture", "m_find", "m_expire",
                        "m_own"}

\* The row that may say ACCEPTED meanwhile.
Marked(t) == IF pc[t] \in {"c_capture", "c_others"} THEN {job[t].row} ELSE {}

\* The locals name a row and its inspector.
Naming == {"d_write", "x_write"} \cup Accepting \cup Assigning
Named(t) ==
  /\ pc[t] \in Accepting => job[t].row \in RowIds /\ offers[job[t].row].who = job[t].who
  /\ pc[t] \in Naming => job[t].who \in Inspectors

PoolTyped == LocalsOK /\ Typed /\ Rows

OneInv ==
  /\ PoolTyped
  /\ \A t \in Tasks : Named(t)
  /\ \A t \in Tasks : Claims(t) => order.by = job[t].who /\ Standing \subseteq Marked(t)
  /\ \A t, u \in Tasks : Claims(t) /\ Claims(u) => t = u
  /\ OneAcceptance

-----------------------------------------------------------------------------
\* The rows are those that were, perhaps with more after them, of the same inspectors.
SamePeople ==
  /\ RowIds \subseteq RowIds'
  /\ \A k \in RowIds : offers'[k].who = offers[k].who

\* Nobody new has been accepted.
NoneNew ==
  \A k \in RowIds' : offers'[k].st = "ACCEPTED" => k \in RowIds /\ offers[k].st = "ACCEPTED"

LEMMA OneMoreRow ==
  ASSUME Rows, NEW r \in Offers, Len(offers) < MaxRows, offers' = Append(offers, r)
  PROVE  /\ Rows' /\ SamePeople /\ (r.st # "ACCEPTED" => NoneNew)
         /\ RowIds' = RowIds \cup {Len(offers) + 1} /\ offers'[Len(offers) + 1] = r
         /\ \A k \in RowIds : offers'[k] = offers[k]
<1>1. /\ Rows' /\ RowIds \subseteq RowIds' /\ offers'[Len(offers) + 1] = r
      /\ \A k \in RowIds : offers'[k] = offers[k]
  BY AppendKeepsRows
<1>2. RowIds' = RowIds \cup {Len(offers) + 1}
  <2>1. Len(offers) \in Nat /\ Len(offers') = Len(offers) + 1
    BY RowsAre, AppendProperties DEF Rows
  <2> QED BY <2>1 DEF RowIds
<1> QED BY <1>1, <1>2 DEF SamePeople, NoneNew

NoOtherClaims(t) == \A u \in Tasks : u # t => ~Claims(u)

\* A step of a task that counts on its own claim, or writes nothing that others count on.
LEMMA ClaimantStep ==
  ASSUME OneInv, NEW t \in Tasks, PoolTyped', Others(t), SamePeople, Named(t)', OneAcceptance',
         Claims(t)' => /\ order'.by = job'[t].who /\ Standing' \subseteq Marked(t)'
                       /\ NoOtherClaims(t),
         NoOtherClaims(t) \/ (order'.by = order.by /\ Standing' \subseteq Standing)
  PROVE  OneInv'
<1>1. \A u \in Tasks : u # t => (Claims(u)' <=> Claims(u)) /\ Marked(u)' = Marked(u)
  BY DEF Others, Claims, Marked
<1>2. \A u \in Tasks : Named(u)'
  <2> SUFFICES ASSUME NEW u \in Tasks, u # t PROVE Named(u)'
    OBVIOUS
  <2>1. pc'[u] = pc[u] /\ job'[u] = job[u] /\ Named(u)
    BY DEF Others, OneInv
  <2> QED BY <2>1 DEF Named, SamePeople
<1>3. ASSUME NEW u \in Tasks, Claims(u)'
      PROVE  order'.by = job'[u].who /\ Standing' \subseteq Marked(u)'
  <2>1. CASE u = t
    BY <1>3, <2>1
  <2>2. CASE u # t
    <3>1. /\ Claims(u) /\ Marked(u)' = Marked(u) /\ job'[u] = job[u]
          /\ order.by = job[u].who /\ Standing \subseteq Marked(u)
      BY <1>1, <1>3, <2>2 DEF Others, OneInv
    <3>2. order'.by = order.by /\ Standing' \subseteq Standing
      BY <2>2, <3>1 DEF NoOtherClaims
    <3> QED BY <3>1, <3>2
  <2> QED BY <2>1, <2>2
<1>4. ASSUME NEW u \in Tasks, NEW v \in Tasks, Claims(u)', Claims(v)' PROVE u = v
  BY <1>1, <1>4 DEF OneInv, NoOtherClaims
<1> QED BY <1>2, <1>3, <1>4 DEF OneInv

\* A step of a task that neither has nor gets the claim.
TakingBack == {"c_undo_offer", "c_kill"}

LEMMA FewerStand ==
  ASSUME NEW t \in Tasks, Others(t), NoneNew,
         \/ pc[t] \notin TakingBack
         \/ job[t].row \in RowIds' => offers'[job[t].row].st # "ACCEPTED"
  PROVE  Standing' \subseteq Standing
<1> SUFFICES ASSUME NEW k \in Standing' PROVE k \in Standing
  OBVIOUS
<1>1. k \in RowIds /\ offers[k].st = "ACCEPTED" /\ k \in RowIds' /\ offers'[k].st = "ACCEPTED"
      /\ ~TakenBack(k)'
  BY DEF Standing, NoneNew
<1>2. ASSUME NEW u \in Tasks, pc[u] \in TakingBack, job[u].row = k PROVE FALSE
  <2>1. u # t
    BY <1>1, <1>2
  <2>2. TakenBack(k)'
    BY <1>2, <2>1 DEF TakenBack, Others, TakingBack
  <2> QED BY <1>1, <2>2
<1>3. ~TakenBack(k)
  BY <1>2 DEF TakenBack, TakingBack
<1> QED BY <1>1, <1>3 DEF Standing

LEMMA StillOne ==
  ASSUME OneInv, SamePeople, Standing' \subseteq Standing, order'.by = order.by
  PROVE  OneAcceptance'
<1> SUFFICES ASSUME NEW k \in Standing', NEW r \in Standing'
             PROVE  k = r /\ order'.by = offers'[k].who
  BY DEF OneAcceptance
<1>1. k \in Standing /\ r \in Standing /\ k \in RowIds
  BY DEF Standing
<1> QED BY <1>1 DEF OneInv, OneAcceptance, SamePeople

LEMMA BystanderStep ==
  ASSUME OneInv, NEW t \in Tasks, PoolTyped', Others(t), SamePeople, NoneNew, Named(t)',
         pc[t] \notin TakingBack, order'.by = order.by, ~Claims(t)'
  PROVE  OneInv'
<1>1. Standing' \subseteq Standing
  BY FewerStand
<1> QED BY <1>1, StillOne, ClaimantStep

\* A step that only moves such a task.
LEMMA RowsStay ==
  ASSUME UNCHANGED offers
  PROVE  SamePeople /\ NoneNew
BY DEF SamePeople, NoneNew, RowIds

LEMMA StandsStill ==
  ASSUME OneInv, NEW t \in Tasks, UNCHANGED <<order, env, offers, refused>>, LocalsOK', Others(t),
         Named(t)', pc[t] \notin TakingBack, ~Claims(t)'
  PROVE  OneInv'
<1>1. PoolTyped'
  BY DEF OneInv, PoolTyped, Typed, Rows, env
<1> QED BY <1>1, RowsStay, BystanderStep

\* What the moves of a task make of what it names.
Idling == {"idle", "d_read", "d_lock", "d_choose", "t_read", "t_write", "s_write", "s_next",
           "r_claim", "e_claim", "e_find", "e_write"}

LEMMA IdlesNamed ==
  ASSUME NEW t \in Tasks, pc'[t] \in Idling
  PROVE  Named(t)' /\ ~Claims(t)'
BY DEF Named, Naming, Idling, Accepting, Assigning, Claims

LEMMA LeavesWork ==
  ASSUME OneInv, NEW t \in Tasks, Return(t) \/ End(t)
  PROVE  LocalsOK' /\ Others(t) /\ pc'[t] \in Idling /\ Named(t)' /\ ~Claims(t)'
<1>1. LocalsOK
  BY DEF OneInv, PoolTyped
<1>2. LocalsOK' /\ Others(t) /\ pc'[t] \in Idling
  BY <1>1, ReturnMoves, EndMoves DEF Moves, Idling
<1> QED BY <1>2, IdlesNamed

LEMMA GoesOn ==
  ASSUME OneInv, NEW t \in Tasks, NEW l \in Idling \cap Labels, Go(t, l)
  PROVE  LocalsOK' /\ Others(t) /\ pc'[t] \in Idling /\ Named(t)' /\ ~Claims(t)'
<1>1. LocalsOK' /\ Others(t) /\ pc'[t] \in Idling
  BY GoMoves DEF OneInv, PoolTyped, Moves
<1> QED BY <1>1, IdlesNamed

LEMMA KeepsOn ==
  ASSUME OneInv, NEW t \in Tasks, NEW l \in Idling \cap Labels, NEW j \in Jobs, Keep(t, l, j)
  PROVE  LocalsOK' /\ Others(t) /\ pc'[t] \in Idling /\ Named(t)' /\ ~Claims(t)'
<1>1. LocalsOK' /\ Others(t) /\ pc'[t] \in Idling
  BY KeepMoves DEF OneInv, PoolTyped, Moves
<1> QED BY <1>1, IdlesNamed

LEMMA MovesOn ==
  ASSUME OneInv, NEW t \in Tasks, NEW to \in Statuses, Move(t, to)
  PROVE  LocalsOK' /\ Others(t) /\ pc'[t] \in Idling /\ Named(t)' /\ ~Claims(t)'
<1>1. LocalsOK' /\ Others(t) /\ pc'[t] \in Idling
  BY MoveMoves DEF OneInv, PoolTyped, Moves, Idling
<1> QED BY <1>1, IdlesNamed

-----------------------------------------------------------------------------
\* dispatch and transition.
LEMMA DispatchOne ==
  ASSUME OneInv, NEW t \in Tasks, DispatchRead(t) \/ DispatchLock(t) \/ TransitionRead(t)
  PROVE  OneInv'
<1>0. /\ UNCHANGED <<order, env, offers, refused>> /\ pc[t] \notin TakingBack
      /\ job[t] \in Jobs /\ order.st \in Statuses /\ order.round \in 0 .. MaxRound
  BY DEF DispatchRead, DispatchLock, TransitionRead, TakingBack, OneInv, PoolTyped, LocalsOK, Typed
<1>1. [job[t] EXCEPT !.st = order.st, !.round = order.round] \in Jobs
  BY <1>0 DEF Jobs
<1>2. {"d_lock", "d_choose", "t_write"} \subseteq Labels
  BY DEF Labels
<1>3. CASE Return(t) \/ End(t)
  BY <1>0, <1>3, LeavesWork, StandsStill
<1>4. CASE Keep(t, "d_lock", [job[t] EXCEPT !.st = order.st, !.round = order.round])
  <2>1. LocalsOK' /\ Others(t) /\ pc'[t] = "d_lock"
    BY <1>1, <1>2, <1>4, KeepMoves DEF OneInv, PoolTyped, Moves
  <2>2. Named(t)' /\ ~Claims(t)'
    BY <2>1, IdlesNamed DEF Idling
  <2> QED BY <1>0, <2>1, <2>2, StandsStill
<1>5. CASE Go(t, "d_choose") \/ Go(t, "t_write")
  <2>1. LocalsOK' /\ Others(t) /\ Named(t)' /\ ~Claims(t)'
    BY <1>2, <1>5, GoesOn DEF Idling
  <2> QED BY <1>0, <2>1, StandsStill
<1> QED BY <1>3, <1>4, <1>5 DEF DispatchRead, DispatchLock, TransitionRead

LEMMA DispatchChooseOne ==
  ASSUME OneInv, NEW t \in Tasks, DispatchChoose(t)
  PROVE  OneInv'
<1>0. /\ UNCHANGED <<order, env, offers, refused>> /\ pc[t] \notin TakingBack
      /\ job[t] \in Jobs /\ free \subseteq Inspectors
  BY DEF DispatchChoose, TakingBack, OneInv, PoolTyped, LocalsOK, Typed
<1>1. CASE Return(t)
  BY <1>0, <1>1, LeavesWork, StandsStill
<1>2. CASE Keep(t, "t_read", [job[t] EXCEPT !.to = "UNASSIGNED"])
  <2>1. Move(t, "UNASSIGNED") /\ "UNASSIGNED" \in Statuses
    BY <1>2 DEF Move, Statuses
  <2> QED BY <1>0, <2>1, MovesOn, StandsStill
<1>3. ASSUME NEW i \in free, Keep(t, "d_write", [job[t] EXCEPT !.who = i]) PROVE OneInv'
  <2> DEFINE j == [job[t] EXCEPT !.who = i]
  <2>1. i \in Inspectors /\ j \in Jobs /\ j.who = i /\ "d_write" \in Labels
    BY <1>0 DEF Jobs, Labels
  <2> HIDE DEF j
  <2>2. Moves(t, "d_write", j)
    BY <1>3, <2>1, KeepMoves DEF OneInv, PoolTyped, j
  <2>3. Named(t)' /\ ~Claims(t)'
    BY <2>1, <2>2 DEF Moves, Named, Claims, Accepting
  <2> QED BY <1>0, <2>2, <2>3, StandsStill DEF Moves
<1> QED BY <1>1, <1>2, <1>3 DEF DispatchChoose

LEMMA DispatchWriteOne ==
  ASSUME OneInv, NEW t \in Tasks, DispatchWrite(t)
  PROVE  OneInv'
<1>0. /\ LocalsOK /\ Typed /\ Rows /\ Return(t) /\ UNCHANGED <<order, env, refused>>
      /\ pc[t] \notin TakingBack
  BY DEF DispatchWrite, OneInv, PoolTyped, TakingBack
<1>1. LocalsOK' /\ Others(t) /\ Named(t)' /\ ~Claims(t)'
  BY <1>0, LeavesWork
<1>2. CASE Len(offers) = MaxRows
  BY <1>0, <1>1, <1>2, StandsStill DEF DispatchWrite
<1>3. CASE Len(offers) # MaxRows
  <2> DEFINE r == [who |-> job[t].who, st |-> "PENDING", round |-> job[t].round, live |-> TRUE]
  <2>1. job[t].who \in Inspectors /\ job[t].round \in 0 .. MaxRound
    BY <1>0 DEF DispatchWrite, OneInv, Named, Naming, LocalsOK, Jobs
  <2>2. r \in Offers /\ r.st = "PENDING"
    BY <2>1 DEF Offers
  <2>3. offers' = Append(offers, r) /\ Len(offers) < MaxRows
    <3>1. Len(offers) \in Nat /\ Len(offers) <= MaxRows
      BY <1>0, RowsAre DEF Rows
    <3> QED BY <1>3, <3>1, BoundsAssumption DEF DispatchWrite
  <2> HIDE DEF r
  <2>4. Rows' /\ SamePeople /\ NoneNew
    BY <1>0, <2>2, <2>3, OneMoreRow
  <2>5. PoolTyped'
    BY <1>0, <1>1, <2>4 DEF PoolTyped, Typed, env
  <2> QED BY <1>0, <1>1, <2>4, <2>5, BystanderStep
<1> QED BY <1>2, <1>3

LEMMA TransitionWriteOne ==
  ASSUME OneInv, NEW t \in Tasks, TransitionWrite(t)
  PROVE  OneInv'
<1>0. /\ Typed /\ Rows /\ job[t] \in Jobs /\ Return(t) /\ pc[t] \notin TakingBack
      /\ order' = [order EXCEPT !.st = job[t].to] /\ UNCHANGED <<env, offers, refused>>
  BY DEF TransitionWrite, OneInv, PoolTyped, LocalsOK, TakingBack
<1>1. order'.by = order.by /\ Typed'
  <2>1. job[t].to \in Statuses
    BY <1>0 DEF Jobs
  <2> QED BY <1>0, <2>1 DEF Typed, env
<1>2. LocalsOK' /\ Others(t) /\ Named(t)' /\ ~Claims(t)'
  BY <1>0, LeavesWork
<1>3. PoolTyped'
  BY <1>0, <1>1, <1>2 DEF PoolTyped, Rows
<1> QED BY <1>0, <1>1, <1>2, <1>3, RowsStay, BystanderStep
-----------------------------------------------------------------------------
\* Functions that start: of those that name somebody, the claim is still ahead.
LEMMA BeginOne ==
  ASSUME OneInv, NEW t \in Tasks, NEW l \in Labels, NEW j \in Jobs, Begin(t, l, j),
         PoolTyped' \/ UNCHANGED <<order, env>>, UNCHANGED <<offers, refused>>, order'.by = order.by,
         \/ l \in Idling
         \/ l \in {"x_write", "m_claim"} /\ j.who \in Inspectors
         \/ /\ l = "c_claim" /\ j.row \in RowIds /\ j.who = offers[j.row].who
  PROVE  OneInv'
<1>1. Moves(t, l, j) /\ pc[t] = "idle"
  BY BeginMoves DEF OneInv, PoolTyped, Begin
<1>2. PoolTyped'
  BY <1>1 DEF OneInv, PoolTyped, Moves, Typed, Rows, env
<1>3. RowIds' = RowIds /\ \A k \in RowIds : offers[k].who \in Inspectors
  BY RowsAre DEF OneInv, PoolTyped, RowIds, Offers
<1>4. Named(t)' /\ ~Claims(t)'
  <2>1. CASE l \in Idling
    BY <1>1, <2>1, IdlesNamed DEF Moves
  <2>2. CASE l \notin Idling
    BY <1>1, <1>3, <2>2 DEF Moves, Named, Naming, Accepting, Assigning, Claims
  <2> QED BY <2>1, <2>2
<1> QED BY <1>1, <1>2, <1>4, RowsStay, BystanderStep DEF Moves, TakingBack

LEMMA CalledOne ==
  ASSUME OneInv, NEW t \in Tasks,
         Authorize(t) \/ Cancel(t) \/ Abandon(t) \/ Redispatch(t) \/ ExpireUnfilledSearches(t)
  PROVE  OneInv'
<1>0. Typed /\ UNCHANGED <<offers, refused>> /\ {"d_read", "t_read", "r_claim", "e_claim"} \subseteq Labels \cap Idling
  BY DEF OneInv, PoolTyped, Authorize, Cancel, Abandon, Redispatch, ExpireUnfilledSearches, Labels, Idling
<1>1. PICK l \in {"d_read", "t_read", "r_claim", "e_claim"},
           op \in {"authorize", "cancel", "abandon", "redispatch", "expireUnfilledSearches"} :
        Begin(t, l, Job(op, NoOne, 0))
  BY DEF Authorize, Cancel, Abandon, Redispatch, ExpireUnfilledSearches
<1>2. Job(op, NoOne, 0) \in Jobs
  BY JobsAreTyped, NoOneTyped DEF HandlerNames
<1>3. order'.by = order.by /\ Typed'
  BY <1>0 DEF Typed, env, Authorize, Cancel, Abandon, Redispatch, ExpireUnfilledSearches, Statuses
<1> DEFINE j == Job(op, NoOne, 0)
<1> HIDE DEF j
<1>4. Moves(t, l, j)
  BY <1>0, <1>1, <1>2, BeginMoves DEF OneInv, PoolTyped, j
<1>5. PoolTyped'
  BY <1>0, <1>3, <1>4 DEF OneInv, PoolTyped, Moves, Rows
<1> QED BY <1>0, <1>1, <1>2, <1>3, <1>5, BeginOne

LEMMA DeclineOne ==
  ASSUME OneInv, NEW t \in Tasks, Decline(t)
  PROVE  OneInv'
<1>1. PICK k \in RowIds :
        Begin(t, IF offers[k].st = "PENDING" THEN "x_write" ELSE "d_read",
              Job("decline", offers[k].who, k))
  BY DEF Decline
<1>2. k \in 0 .. MaxRows /\ offers[k].who \in Inspectors
  BY RowsAre DEF OneInv, PoolTyped, Offers
<1> DEFINE j == Job("decline", offers[k].who, k)
<1>3. j \in Jobs /\ j.who \in Inspectors
  BY <1>2, JobsAreTyped DEF HandlerNames
<1> HIDE DEF j
<1> DEFINE l == IF offers[k].st = "PENDING" THEN "x_write" ELSE "d_read"
<1>4. l \in Labels /\ (l \in Idling \/ l = "x_write") /\ Begin(t, l, j)
  BY <1>1 DEF Labels, Idling, j
<1> HIDE DEF l
<1> QED BY <1>3, <1>4, BeginOne DEF Decline

LEMMA ExpireStaleOffersOne ==
  ASSUME OneInv, NEW t \in Tasks, ExpireStaleOffers(t)
  PROVE  OneInv'
<1> DEFINE stale == {k \in Pending : ~offers[k].live}
           j == [Job("expireStaleOffers", NoOne, 0) EXCEPT !.todo = stale]
<1>1. Begin(t, "s_write", j)
  BY DEF ExpireStaleOffers
<1>2. stale \in SUBSET (1 .. MaxRows)
  BY RowsAre DEF Pending, OneInv, PoolTyped
<1> HIDE DEF stale
<1>3. j \in Jobs
  <2>1. Job("expireStaleOffers", NoOne, 0) \in Jobs
    BY JobsAreTyped, NoOneTyped DEF HandlerNames
  <2> HIDE DEF Job
  <2> QED BY <1>2, <2>1 DEF Jobs
<1> HIDE DEF j
<1>4. "s_write" \in Labels \cap Idling
  BY DEF Labels, Idling
<1> QED BY <1>1, <1>3, <1>4, BeginOne DEF ExpireStaleOffers

LEMMA AcceptOfferOne ==
  ASSUME OneInv, NEW t \in Tasks, AcceptOffer(t)
  PROVE  OneInv'
<1>1. PICK k \in Pending : Begin(t, "c_claim", Job("acceptOffer", offers[k].who, k))
  BY DEF AcceptOffer
<1>2. k \in RowIds /\ k \in 0 .. MaxRows /\ offers[k].who \in Inspectors
  BY RowsAre DEF Offers, Pending, OneInv, PoolTyped
<1> DEFINE j == Job("acceptOffer", offers[k].who, k)
<1>3. j \in Jobs /\ j.who = offers[k].who /\ j.row = k /\ "c_claim" \in Labels
  BY <1>2, JobsAreTyped DEF HandlerNames, Labels
<1>4. Begin(t, "c_claim", j)
  BY <1>1
<1> HIDE DEF j
<1> QED BY <1>2, <1>3, <1>4, BeginOne DEF AcceptOffer

LEMMA AdminAssignOne ==
  ASSUME OneInv, NEW t \in Tasks, AdminAssign(t)
  PROVE  OneInv'
<1>0. order.st \in Statuses
  BY DEF OneInv, PoolTyped, Typed
<1>1. PICK i \in Inspectors :
        Begin(t, "m_claim", [Job("adminAssign", i, 0) EXCEPT !.st = order.st])
  BY DEF AdminAssign
<1> DEFINE j == [Job("adminAssign", i, 0) EXCEPT !.st = order.st]
<1>2. j \in Jobs /\ j.who = i /\ "m_claim" \in Labels
  <2>1. Job("adminAssign", i, 0) \in Jobs /\ Job("adminAssign", i, 0).who = i
    BY JobsAreTyped, NoOneTyped DEF HandlerNames
  <2> HIDE DEF Job
  <2> QED BY <1>0, <2>1 DEF Jobs, Labels
<1>3. Begin(t, "m_claim", j)
  BY <1>1
<1> HIDE DEF j
<1> QED BY <1>2, <1>3, BeginOne DEF AdminAssign

-----------------------------------------------------------------------------
\* Answers that accept nobody: refusals, sweeps, and the end of the search.
LEMMA AnswersRows ==
  ASSUME Rows, NEW S, NEW From, NEW to \in AnyState, Answer(S, From, to)
  PROVE  Rows' /\ SamePeople /\ (to # "ACCEPTED" => NoneNew)
<1>1. /\ Rows' /\ RowIds' = RowIds
      /\ \A k \in RowIds : /\ offers'[k].who = offers[k].who
                           /\ offers'[k].st = IF k \in S /\ offers[k].st \in From
                                              THEN to ELSE offers[k].st
  BY AnswerKeepsRows
<1> QED BY <1>1 DEF SamePeople, NoneNew

LEMMA AnswerOne ==
  ASSUME OneInv, NEW t \in Tasks, NEW S, NEW From, NEW to \in AnyState \ {"ACCEPTED"},
         Answer(S, From, to), UNCHANGED <<order, env>>, refused' \subseteq Inspectors, LocalsOK', Others(t),
         Named(t)', pc[t] \notin TakingBack, ~Claims(t)'
  PROVE  OneInv'
<1>1. Rows' /\ SamePeople /\ NoneNew
  BY AnswersRows DEF OneInv, PoolTyped
<1>2. PoolTyped'
  BY <1>1 DEF OneInv, PoolTyped, Typed, env
<1> QED BY <1>1, <1>2, BystanderStep

LEMMA DeclineWriteOne ==
  ASSUME OneInv, NEW t \in Tasks, DeclineWrite(t)
  PROVE  OneInv'
<1>0. /\ pc[t] = "x_write" /\ UNCHANGED <<order, env>> /\ Go(t, "d_read")
      /\ Answer({job[t].row}, AnyState, "DECLINED") /\ refused' = refused \cup {job[t].who}
  BY DEF DeclineWrite
<1>1. refused' \subseteq Inspectors
  BY <1>0 DEF OneInv, PoolTyped, Typed, Named, Naming
<1>2. LocalsOK' /\ Others(t) /\ Named(t)' /\ ~Claims(t)'
  BY <1>0, GoesOn DEF Labels, Idling
<1> QED BY <1>0, <1>1, <1>2, AnswerOne DEF AnyState, TakingBack

LEMMA StaleWriteOne ==
  ASSUME OneInv, NEW t \in Tasks, StaleWrite(t)
  PROVE  OneInv'
<1> DEFINE k == Least(job[t].todo)
           j == [job[t] EXCEPT !.todo = @ \ {k}]
<1>0. /\ pc[t] = "s_write" /\ UNCHANGED <<order, env, refused>> /\ refused \subseteq Inspectors
      /\ Answer({k}, AnyState, "EXPIRED") /\ Keep(t, "d_read", j) /\ job[t] \in Jobs
  BY DEF StaleWrite, OneInv, PoolTyped, LocalsOK, Typed
<1>1. j \in Jobs
  <2> HIDE DEF k
  <2> QED BY <1>0 DEF Jobs
<1> HIDE DEF j, k
<1>2. LocalsOK' /\ Others(t) /\ Named(t)' /\ ~Claims(t)'
  BY <1>0, <1>1, KeepsOn DEF Labels, Idling
<1> QED BY <1>0, <1>2, AnswerOne DEF AnyState, TakingBack

LEMMA StaleNextOne ==
  ASSUME OneInv, NEW t \in Tasks, StaleNext(t)
  PROVE  OneInv'
<1>0. UNCHANGED <<order, env, offers, refused>> /\ pc[t] \notin TakingBack
  BY DEF StaleNext, TakingBack
<1>1. LocalsOK' /\ Others(t) /\ Named(t)' /\ ~Claims(t)'
  BY LeavesWork, GoesOn DEF StaleNext, Labels, Idling
<1> QED BY <1>0, <1>1, StandsStill

LEMMA RedispatchClaimOne ==
  ASSUME OneInv, NEW t \in Tasks, RedispatchClaim(t)
  PROVE  OneInv'
<1>0. UNCHANGED <<env, offers, refused>> /\ Typed /\ Rows /\ pc[t] \notin TakingBack
  BY DEF RedispatchClaim, OneInv, PoolTyped, TakingBack
<1>1. LocalsOK' /\ Others(t) /\ Named(t)' /\ ~Claims(t)'
  BY LeavesWork, GoesOn DEF RedispatchClaim, Labels, Idling
<1>2. Typed' /\ order'.by = order.by
  <2>1. CASE order' = order
    BY <1>0, <2>1 DEF Typed, env
  <2>2. CASE order.round < MaxRound /\ order' = [order EXCEPT !.round = @ + 1]
    <3>1. order.round + 1 \in 0 .. MaxRound
      BY <1>0, <2>2, BoundsAssumption DEF Typed
    <3> QED BY <1>0, <2>2, <3>1 DEF Typed, env
  <2> QED BY <2>1, <2>2 DEF RedispatchClaim
<1>3. PoolTyped'
  BY <1>0, <1>1, <1>2 DEF PoolTyped, Rows
<1> QED BY <1>0, <1>1, <1>2, <1>3, RowsStay, BystanderStep

LEMMA ExpireClaimOne ==
  ASSUME OneInv, NEW t \in Tasks, ExpireClaim(t)
  PROVE  OneInv'
<1>0. UNCHANGED <<env, offers, refused>> /\ Typed /\ Rows /\ pc[t] \notin TakingBack
  BY DEF ExpireClaim, OneInv, PoolTyped, TakingBack
<1>1. LocalsOK' /\ Others(t) /\ Named(t)' /\ ~Claims(t)'
  BY LeavesWork, GoesOn DEF ExpireClaim, Labels, Idling
<1>2. Typed' /\ order'.by = order.by
  BY <1>0 DEF ExpireClaim, Typed, env, Statuses
<1>3. PoolTyped'
  BY <1>0, <1>1, <1>2 DEF PoolTyped, Rows
<1> QED BY <1>0, <1>1, <1>2, <1>3, RowsStay, BystanderStep

LEMMA ExpireFindOne ==
  ASSUME OneInv, NEW t \in Tasks, ExpireFind(t)
  PROVE  OneInv'
<1>0. UNCHANGED <<order, env, offers, refused>> /\ pc[t] \notin TakingBack /\ job[t] \in Jobs
  BY DEF ExpireFind, TakingBack, OneInv, PoolTyped, LocalsOK
<1>1. Pending \in SUBSET (1 .. MaxRows)
  BY RowsAre DEF Pending, OneInv, PoolTyped
<1>2. [job[t] EXCEPT !.todo = Pending] \in Jobs
  <2> HIDE DEF Pending
  <2> QED BY <1>0, <1>1 DEF Jobs
<1>3. LocalsOK' /\ Others(t) /\ Named(t)' /\ ~Claims(t)'
  BY <1>2, LeavesWork, KeepsOn DEF ExpireFind, Labels, Idling
<1> QED BY <1>0, <1>3, StandsStill

LEMMA ExpireWriteOne ==
  ASSUME OneInv, NEW t \in Tasks, ExpireWrite(t)
  PROVE  OneInv'
<1>0. /\ pc[t] = "e_write" /\ UNCHANGED <<order, env, refused>> /\ refused \subseteq Inspectors
      /\ Answer(job[t].todo, AnyState, "EXPIRED") /\ End(t)
  BY DEF ExpireWrite, OneInv, PoolTyped, Typed
<1>1. LocalsOK' /\ Others(t) /\ Named(t)' /\ ~Claims(t)'
  BY <1>0, LeavesWork
<1> QED BY <1>0, <1>1, AnswerOne DEF AnyState, TakingBack

-----------------------------------------------------------------------------
\* Nobody has the order: then nobody claims it, and no acceptance stands.
LEMMA NobodyClaims ==
  ASSUME OneInv, order.by = NoOne
  PROVE  (\A u \in Tasks : ~Claims(u)) /\ Standing = {}
<1>1. ASSUME NEW u \in Tasks, Claims(u) PROVE FALSE
  <2>1. job[u].who = NoOne /\ job[u].who \in Inspectors
    BY <1>1 DEF OneInv, Named, Naming, Claims, Accepting, Assigning
  <2> QED BY <2>1, NoOneIsNobody
<1>2. ASSUME NEW k \in Standing PROVE FALSE
  <2>1. offers[k].who = NoOne
    BY <1>2 DEF OneInv, OneAcceptance
  <2>2. offers[k].who \in Inspectors
    BY <1>2, RowsAre DEF OneInv, PoolTyped, Standing, Offers
  <2> QED BY <2>1, <2>2, NoOneIsNobody
<1> QED BY <1>1, <1>2

\* The one who claims is alone with it.
LEMMA ClaimantIsAlone ==
  ASSUME OneInv, NEW t \in Tasks, Claims(t)
  PROVE  NoOtherClaims(t) /\ order.by = job[t].who /\ Standing \subseteq Marked(t)
BY DEF OneInv, NoOtherClaims

LEMMA ClaimOne ==
  ASSUME OneInv, NEW t \in Tasks, AcceptClaim(t) \/ AdminClaim(t)
  PROVE  OneInv'
<1>0. /\ UNCHANGED <<env, offers, refused>> /\ Typed /\ Rows /\ pc[t] \in {"c_claim", "m_claim"}
      /\ pc[t] \notin TakingBack
  BY DEF AcceptClaim, AdminClaim, OneInv, PoolTyped, TakingBack
<1>1. CASE End(t) /\ UNCHANGED order
  BY <1>0, <1>1, LeavesWork, StandsStill
<1>2. ASSUME order.by = NoOne, order' = [order EXCEPT !.by = job[t].who],
             NEW l \in {"c_accept", "m_capture"}, Go(t, l), pc[t] = "c_claim" \/ l = "m_capture"
      PROVE  OneInv'
  <2>1. Moves(t, l, job[t])
    BY <1>2, GoMoves DEF OneInv, PoolTyped, Labels
  <2>2. job[t].who \in Inspectors /\ Named(t)
    BY <1>0 DEF OneInv, Named, Naming, Accepting, Assigning
  <2>3. Typed' /\ order'.by = job[t].who
    BY <1>0, <1>2, <2>2 DEF Typed, env
  <2>4. PoolTyped' /\ SamePeople /\ NoneNew
    BY <1>0, <2>1, <2>3, RowsStay DEF PoolTyped, Moves, Rows
  <2>5. Named(t)'
    BY <1>0, <1>2, <2>1, <2>2, <2>4 DEF Moves, Named, Naming, Accepting, Assigning, SamePeople
  <2>6. (\A u \in Tasks : ~Claims(u)) /\ Standing' = {}
    BY <1>0, <1>2, <2>1, <2>4, NobodyClaims, FewerStand DEF Moves
  <2>7. OneAcceptance'
    BY <2>6 DEF OneAcceptance
  <2> QED BY <2>1, <2>3, <2>4, <2>5, <2>6, <2>7, ClaimantStep DEF Moves, NoOtherClaims
<1> QED BY <1>1, <1>2 DEF AcceptClaim, AdminClaim, Searching

\* The claimant goes on, and nothing more stands than the row it may mark.
LEMMA ClaimantGoesOn ==
  ASSUME OneInv, NEW t \in Tasks, Claims(t), PoolTyped', Others(t), SamePeople, Named(t)',
         order'.by = order.by, job'[t].who = job[t].who, Standing' \subseteq {job[t].row},
         Claims(t)' => Standing' \subseteq Marked(t)',
         Standing' = {} \/ (job[t].row \in RowIds /\ offers[job[t].row].who = job[t].who)
  PROVE  OneInv'
<1>1. NoOtherClaims(t) /\ order'.by = job[t].who
  BY ClaimantIsAlone
<1>2. OneAcceptance'
  BY <1>1 DEF OneAcceptance, SamePeople
<1> QED BY <1>1, <1>2, ClaimantStep

LEMMA AcceptMarkOne ==
  ASSUME OneInv, NEW t \in Tasks, AcceptMark(t)
  PROVE  OneInv'
<1>0. /\ UNCHANGED <<order, env, refused>> /\ Typed /\ Rows /\ pc[t] = "c_accept"
      /\ Answer({job[t].row}, {"PENDING"}, "ACCEPTED") /\ Named(t) /\ Claims(t)
  BY DEF AcceptMark, OneInv, PoolTyped, Claims
<1>1. Moves(t, "c_capture", job[t])
  BY GoMoves DEF AcceptMark, Labels, OneInv, PoolTyped
<1>2. Rows' /\ SamePeople
  BY <1>0, AnswersRows DEF AnyState
<1>3. PoolTyped'
  BY <1>0, <1>1, <1>2 DEF PoolTyped, Moves, Typed, env
<1>4. Standing = {}
  BY <1>0, ClaimantIsAlone DEF Marked
<1>5. Standing' \subseteq {job[t].row}
  <2> SUFFICES ASSUME NEW k \in Standing', k # job[t].row PROVE FALSE
    OBVIOUS
  <2>1. k \in RowIds /\ offers[k].st = "ACCEPTED" /\ ~TakenBack(k)'
    BY <1>0, AnswerKeepsRows DEF Standing, AnyState
  <2>2. ~TakenBack(k)
    <3> SUFFICES ASSUME NEW u \in Tasks, pc[u] \in TakingBack, job[u].row = k PROVE FALSE
      BY DEF TakenBack, TakingBack
    <3>1. u # t
      BY <1>0 DEF TakingBack
    <3> QED BY <1>1, <2>1, <3>1 DEF TakenBack, TakingBack, Moves, Others
  <2> QED BY <1>4, <2>1, <2>2 DEF Standing
<1>6. Named(t)' /\ Marked(t)' = {job[t].row}
  BY <1>0, <1>1, <1>2 DEF Moves, Named, Naming, Accepting, Marked, SamePeople
<1> QED BY <1>0, <1>1, <1>2, <1>3, <1>5, <1>6, ClaimantGoesOn DEF Moves, Named, Accepting

LEMMA UnclaimedKeeps ==
  ASSUME Typed, NEW t \in Tasks, order' = Unclaimed(t), UNCHANGED <<env, refused>>
  PROVE  Typed'
BY DEF Typed, Unclaimed, env

\* The money has been asked for.
LEMMA AcceptCaptureOne ==
  ASSUME OneInv, NEW t \in Tasks, AcceptCapture(t)
  PROVE  OneInv'
<1>0. /\ UNCHANGED <<env, offers, refused>> /\ Typed /\ Rows /\ pc[t] = "c_capture"
      /\ Named(t) /\ Claims(t) /\ pc[t] \notin TakingBack
  BY DEF AcceptCapture, OneInv, PoolTyped, Claims, TakingBack
<1>1. NoOtherClaims(t) /\ Standing \subseteq {job[t].row}
  BY <1>0, ClaimantIsAlone DEF Marked
<1>2. SamePeople /\ NoneNew
  BY <1>0, RowsStay
<1>3. ASSUME NEW l \in {"c_others", "c_undo_offer", "c_kill"}, Go(t, l)
      PROVE  /\ Moves(t, l, job[t]) /\ Named(t)' /\ Standing' \subseteq Standing
  <2>1. Moves(t, l, job[t])
    BY <1>3, GoMoves DEF Labels, OneInv, PoolTyped
  <2>2. Named(t)'
    BY <1>0, <1>2, <2>1 DEF Moves, Named, Naming, Accepting, SamePeople
  <2> QED BY <1>0, <1>2, <2>1, <2>2, FewerStand DEF Moves
<1>4. CASE Go(t, "c_others") /\ UNCHANGED order
  <2>1. PoolTyped'
    BY <1>0, <1>3, <1>4 DEF PoolTyped, Moves, Typed, Rows, env
  <2>2. Marked(t)' = {job[t].row}
    BY <1>3, <1>4 DEF Moves, Marked
  <2> QED BY <1>0, <1>1, <1>2, <1>3, <1>4, <2>1, <2>2, ClaimantGoesOn DEF Moves, Named, Accepting
<1>5. ASSUME NEW l \in TakingBack, Go(t, l), order' = Unclaimed(t) PROVE OneInv'
  <2>1. Moves(t, l, job[t]) /\ Named(t)' /\ Standing' \subseteq Standing
    BY <1>3, <1>5 DEF TakingBack
  <2>2. PoolTyped'
    BY <1>0, <1>5, <2>1, UnclaimedKeeps DEF PoolTyped, Moves, Rows
  <2>3. ~Claims(t)'
    BY <1>5, <2>1 DEF TakingBack, Moves, Claims
  <2>4. ASSUME NEW k \in Standing' PROVE FALSE
    <3>1. k = job[t].row /\ ~TakenBack(k)'
      BY <1>1, <2>1, <2>4 DEF Standing
    <3>2. TakenBack(k)'
      BY <1>5, <2>1, <3>1 DEF TakenBack, TakingBack, Moves
    <3> QED BY <3>1, <3>2
  <2> QED BY <1>1, <1>2, <2>1, <2>2, <2>3, <2>4, ClaimantStep DEF OneAcceptance, Moves
<1> QED BY <1>4, <1>5 DEF AcceptCapture, TakingBack

LEMMA AdminCaptureOne ==
  ASSUME OneInv, NEW t \in Tasks, AdminCapture(t)
  PROVE  OneInv'
<1>0. /\ UNCHANGED <<env, offers, refused>> /\ Typed /\ Rows /\ pc[t] = "m_capture"
      /\ Named(t) /\ Claims(t) /\ pc[t] \notin TakingBack
  BY DEF AdminCapture, OneInv, PoolTyped, Claims, TakingBack
<1>1. NoOtherClaims(t) /\ Standing = {}
  BY <1>0, ClaimantIsAlone DEF Marked
<1>2. SamePeople /\ NoneNew
  BY <1>0, RowsStay
<1>3. CASE Go(t, "m_find") /\ UNCHANGED order
  <2>1. Moves(t, "m_find", job[t])
    BY <1>3, GoMoves DEF Labels, OneInv, PoolTyped
  <2>2. Standing' = {}
    BY <1>0, <1>1, <1>2, <2>1, FewerStand DEF Moves
  <2>3. PoolTyped' /\ Named(t)'
    BY <1>0, <1>3, <2>1 DEF PoolTyped, Moves, Typed, Rows, env, Named, Naming, Accepting, Assigning
  <2> QED BY <1>0, <1>2, <1>3, <2>1, <2>2, <2>3, ClaimantGoesOn DEF Moves
<1>4. CASE (End(t) \/ Move(t, "CANCELLED")) /\ order' = Unclaimed(t)
  <2>1. LocalsOK' /\ Others(t) /\ Named(t)' /\ ~Claims(t)'
    BY <1>4, LeavesWork, MovesOn DEF Statuses
  <2>2. PoolTyped'
    BY <1>0, <1>4, <2>1, UnclaimedKeeps DEF PoolTyped, Rows
  <2>3. Standing' = {}
    BY <1>0, <1>1, <1>2, <2>1, FewerStand
  <2> QED BY <1>1, <1>2, <2>1, <2>2, <2>3, ClaimantStep DEF OneAcceptance
<1> QED BY <1>3, <1>4 DEF AdminCapture

LEMMA UndoOfferOne ==
  ASSUME OneInv, NEW t \in Tasks, UndoOffer(t)
  PROVE  OneInv'
<1>0. /\ UNCHANGED <<order, env, refused>> /\ Typed /\ Rows /\ End(t) /\ pc[t] = "c_undo_offer"
  BY DEF UndoOffer, OneInv, PoolTyped
<1>1. PICK live \in BOOLEAN :
        offers' = [k \in RowIds |->
          IF k = job[t].row /\ offers[k].st = "ACCEPTED"
          THEN [offers[k] EXCEPT !.st = "PENDING", !.live = live] ELSE offers[k]]
  BY DEF UndoOffer
<1>2. \A k \in RowIds :
        offers[k] \in Offers /\ [offers[k] EXCEPT !.st = "PENDING", !.live = live] \in Offers
  BY <1>0, RowsAre DEF Offers
<1>3. Rows' /\ RowIds' = RowIds
  <2>1. offers' \in [RowIds -> Offers]
    BY <1>1, <1>2
  <2> QED BY <1>0, <2>1, RowsInPlace
<1>4. \A k \in RowIds : /\ offers'[k].who = offers[k].who
                        /\ offers'[k].st = "ACCEPTED" => k # job[t].row /\ offers[k].st = "ACCEPTED"
  <2> TAKE k \in RowIds
  <2>1. offers'[k] = IF k = job[t].row /\ offers[k].st = "ACCEPTED"
                     THEN [offers[k] EXCEPT !.st = "PENDING", !.live = live] ELSE offers[k]
    BY <1>1
  <2> QED BY <1>2, <2>1 DEF Offers
<1>5. LocalsOK' /\ Others(t) /\ Named(t)' /\ ~Claims(t)'
  BY <1>0, LeavesWork
<1>6. SamePeople /\ NoneNew /\ PoolTyped'
  BY <1>0, <1>3, <1>4, <1>5 DEF SamePeople, NoneNew, PoolTyped, Typed, env
<1>7. Standing' \subseteq Standing
  BY <1>3, <1>4, <1>5, <1>6, FewerStand
<1>8. OneAcceptance'
  BY <1>0, <1>6, <1>7, StillOne
<1> QED BY <1>0, <1>5, <1>6, <1>7, <1>8, ClaimantStep

LEMMA KillOffersOne ==
  ASSUME OneInv, NEW t \in Tasks, KillOffers(t)
  PROVE  OneInv'
<1>0. /\ UNCHANGED <<order, env, refused>> /\ Typed /\ Rows
      /\ Answer(RowIds, {"PENDING", "ACCEPTED"}, "EXPIRED")
  BY DEF KillOffers, OneInv, PoolTyped
<1>1. LocalsOK' /\ Others(t) /\ Named(t)' /\ ~Claims(t)'
  BY MovesOn DEF KillOffers, Statuses
<1>2. Rows' /\ SamePeople
  BY <1>0, AnswersRows DEF AnyState
<1>3. Standing' = {}
  <2>1. RowIds' = RowIds /\ \A k \in RowIds : offers'[k].st # "ACCEPTED"
    BY <1>0, AnswerKeepsRows DEF AnyState
  <2> QED BY <2>1 DEF Standing
<1>4. PoolTyped'
  BY <1>0, <1>1, <1>2 DEF PoolTyped, Typed, env
<1> QED BY <1>0, <1>1, <1>2, <1>3, <1>4, ClaimantStep DEF OneAcceptance

LEMMA ExpireOthersOne ==
  ASSUME OneInv, NEW t \in Tasks, ExpireOthers(t)
  PROVE  OneInv'
<1>0. /\ UNCHANGED <<order, env, refused>> /\ refused \subseteq Inspectors
      /\ Answer(RowIds, {"PENDING"}, "EXPIRED") /\ pc[t] \notin TakingBack
  BY DEF ExpireOthers, OneInv, PoolTyped, Typed, TakingBack
<1>1. LocalsOK' /\ Others(t) /\ Named(t)' /\ ~Claims(t)'
  BY MovesOn DEF ExpireOthers, Statuses
<1> QED BY <1>0, <1>1, AnswerOne DEF AnyState

-----------------------------------------------------------------------------
\* The operator's rows.
LEMMA AdminFindOne ==
  ASSUME OneInv, NEW t \in Tasks, AdminFind(t)
  PROVE  OneInv'
<1> DEFINE S == Pending \ Of(job[t].who)
           j == [job[t] EXCEPT !.todo = S]
<1>0. /\ UNCHANGED <<order, env, offers, refused>> /\ Typed /\ Rows /\ pc[t] = "m_find"
      /\ Keep(t, "m_expire", j) /\ job[t] \in Jobs /\ Named(t) /\ Claims(t) /\ pc[t] \notin TakingBack
  BY DEF AdminFind, OneInv, PoolTyped, LocalsOK, Claims, TakingBack
<1>1. S \in SUBSET (1 .. MaxRows)
  BY <1>0, RowsAre DEF Pending
<1> HIDE DEF S
<1>2. j \in Jobs /\ j.who = job[t].who
  BY <1>0, <1>1 DEF Jobs
<1> HIDE DEF j
<1>3. Moves(t, "m_expire", j)
  BY <1>0, <1>2, KeepMoves DEF Labels, OneInv, PoolTyped
<1>4. SamePeople /\ NoneNew
  BY <1>0, RowsStay
<1>5. Standing' = {}
  BY <1>0, <1>3, <1>4, ClaimantIsAlone, FewerStand DEF Moves, Marked
<1>6. PoolTyped' /\ Named(t)'
  BY <1>0, <1>2, <1>3 DEF PoolTyped, Moves, Typed, Rows, env, Named, Naming, Accepting, Assigning
<1> QED BY <1>0, <1>2, <1>3, <1>4, <1>5, <1>6, ClaimantGoesOn DEF Moves

LEMMA AdminExpireOne ==
  ASSUME OneInv, NEW t \in Tasks, AdminExpire(t)
  PROVE  OneInv'
<1>0. /\ UNCHANGED <<order, env, refused>> /\ Typed /\ Rows /\ pc[t] = "m_expire"
      /\ Answer(job[t].todo, AnyState, "EXPIRED") /\ Named(t) /\ Claims(t) /\ pc[t] \notin TakingBack
  BY DEF AdminExpire, OneInv, PoolTyped, Claims, TakingBack
<1>1. Moves(t, "m_own", job[t])
  BY GoMoves DEF AdminExpire, Labels, OneInv, PoolTyped
<1>2. Rows' /\ SamePeople /\ NoneNew
  BY <1>0, AnswersRows DEF AnyState
<1>3. Standing' = {}
  BY <1>0, <1>1, <1>2, ClaimantIsAlone, FewerStand DEF Moves, Marked
<1>4. PoolTyped' /\ Named(t)'
  BY <1>0, <1>1, <1>2 DEF PoolTyped, Moves, Typed, env, Named, Naming, Accepting, Assigning
<1> QED BY <1>0, <1>1, <1>2, <1>3, <1>4, ClaimantGoesOn DEF Moves

LEMMA AdminOwnOne ==
  ASSUME OneInv, NEW t \in Tasks, AdminOwn(t)
  PROVE  OneInv'
<1>0. /\ UNCHANGED <<order, env, refused>> /\ Typed /\ Rows /\ pc[t] = "m_own"
      /\ Named(t) /\ Claims(t) /\ pc[t] \notin TakingBack /\ job[t].who \in Inspectors
  BY DEF AdminOwn, OneInv, PoolTyped, Claims, TakingBack, Named, Naming, Assigning
<1>1. NoOtherClaims(t) /\ Standing = {} /\ order'.by = job[t].who
  BY <1>0, ClaimantIsAlone DEF Marked
\* One row more may stand, and it is the inspector's.
<1>2. ASSUME NEW n, Rows', SamePeople, Move(t, "ASSIGNED"), n \in RowIds' => offers'[n].who = job[t].who,
             \A k \in RowIds' : offers'[k].st = "ACCEPTED" => k = n \/ (k \in RowIds /\ offers[k].st = "ACCEPTED")
      PROVE  OneInv'
  <2>1. LocalsOK' /\ Others(t) /\ Named(t)' /\ ~Claims(t)'
    BY <1>2, MovesOn DEF Statuses
  <2>2. PoolTyped'
    BY <1>0, <1>2, <2>1 DEF PoolTyped, Typed, env
  <2>3. Standing' \subseteq {n}
    <3> SUFFICES ASSUME NEW k \in Standing', k # n PROVE FALSE
      OBVIOUS
    <3>1. k \in RowIds /\ offers[k].st = "ACCEPTED" /\ ~TakenBack(k)'
      BY <1>2 DEF Standing
    <3>2. ~TakenBack(k)
      <4> SUFFICES ASSUME NEW u \in Tasks, pc[u] \in TakingBack, job[u].row = k PROVE FALSE
        BY DEF TakenBack, TakingBack
      <4>1. u # t
        BY <1>0
      <4> QED BY <2>1, <3>1, <4>1 DEF TakenBack, TakingBack, Others
    <3> QED BY <1>1, <3>1, <3>2 DEF Standing
  <2>4. OneAcceptance'
    BY <1>1, <1>2, <2>3 DEF OneAcceptance, Standing
  <2> QED BY <1>1, <1>2, <2>1, <2>2, <2>4, ClaimantStep
<1>3. ASSUME NEW k \in Of(job[t].who), Answer({k}, AnyState, "ACCEPTED"), Move(t, "ASSIGNED")
      PROVE  OneInv'
  <2>1. Rows' /\ SamePeople
    BY <1>0, <1>3, AnswersRows DEF AnyState
  <2>2. /\ RowIds' = RowIds /\ k \in RowIds /\ offers'[k].who = job[t].who
        /\ \A r \in RowIds : r # k => offers'[r].st = offers[r].st
    BY <1>0, <1>3, AnswerKeepsRows DEF Of, AnyState
  <2> QED BY <1>2, <1>3, <2>1, <2>2
<1>4. ASSUME Len(offers) < MaxRows, Move(t, "ASSIGNED"),
             offers' = Append(offers, [who |-> job[t].who, st |-> "ACCEPTED",
                                       round |-> 0, live |-> FALSE])
      PROVE  OneInv'
  <2> DEFINE r == [who |-> job[t].who, st |-> "ACCEPTED", round |-> 0, live |-> FALSE]
  <2>1. r \in Offers /\ r.who = job[t].who
    BY <1>0, BoundsAssumption DEF Offers
  <2>2. offers' = Append(offers, r)
    BY <1>4
  <2> HIDE DEF r
  <2>3. /\ Rows' /\ SamePeople /\ offers'[Len(offers) + 1] = r
        /\ RowIds' = RowIds \cup {Len(offers) + 1}
        /\ \A k \in RowIds : offers'[k] = offers[k]
    BY <1>0, <1>4, <2>1, <2>2, OneMoreRow
  <2> QED BY <1>2, <1>4, <2>1, <2>3
<1>5. CASE End(t) /\ UNCHANGED offers
  BY <1>0, <1>5, LeavesWork, StandsStill
<1> QED BY <1>3, <1>4, <1>5 DEF AdminOwn

-----------------------------------------------------------------------------
LEMMA WorldOne ==
  ASSUME OneInv, World \/ UNCHANGED vars
  PROVE  OneInv'
<1>0. LocalsOK /\ Typed /\ Rows /\ order' = order /\ pc' = pc /\ job' = job /\ refused' = refused
  BY DEF OneInv, PoolTyped, World, FreeChanges, OfferLapses, SearchEnds, CounterOfferPaid, vars
<1>1. Typed' /\ LocalsOK'
  BY <1>0 DEF Typed, LocalsOK, World, FreeChanges, OfferLapses, SearchEnds, CounterOfferPaid, env, vars
<1>2. Rows' /\ RowIds' = RowIds
      /\ \A k \in RowIds : offers'[k].who = offers[k].who /\ offers'[k].st = offers[k].st
  <2>1. CASE offers' = offers
    BY <1>0, <2>1 DEF Rows, RowIds
  <2>2. CASE OfferLapses
    BY <1>0, <2>2, LapsingKeepsRows
  <2> QED BY <2>1, <2>2 DEF World, FreeChanges, SearchEnds, CounterOfferPaid, vars
<1>3. Standing' = Standing
  BY <1>0, <1>2 DEF Standing, TakenBack
<1> QED BY <1>0, <1>1, <1>2, <1>3 DEF OneInv, PoolTyped, Named, Claims, Marked, OneAcceptance, Standing

LEMMA OneInit == Init => OneInv
<1> SUFFICES ASSUME Init PROVE OneInv
  OBVIOUS
<1>1. PoolTyped
  BY InitHolds, LocalsTyped DEF PoolTyped
<1>2. RowIds = {} /\ \A t \in Tasks : pc[t] = "idle"
  BY EmptySeq DEF Init, RowIds
<1> QED BY <1>1, <1>2 DEF OneInv, Named, Naming, Accepting, Assigning, Claims, OneAcceptance, Standing

LEMMA NextOne ==
  ASSUME OneInv, [Next]_vars
  PROVE  OneInv'
<1>1. CASE World \/ UNCHANGED vars
  BY <1>1, WorldOne
<1>2. ASSUME NEW t \in Tasks, Called(t) PROVE OneInv'
  BY <1>2, CalledOne, DeclineOne, AcceptOfferOne, AdminAssignOne DEF Called
<1>3. ASSUME NEW t \in Tasks, DispatchSteps(t) PROVE OneInv'
  BY <1>3, DispatchOne, DispatchChooseOne, DispatchWriteOne, TransitionWriteOne DEF DispatchSteps
<1>4. ASSUME NEW t \in Tasks, Continue(t) PROVE OneInv'
  BY <1>3, <1>4, DeclineWriteOne, StaleWriteOne, StaleNextOne, RedispatchClaimOne, ClaimOne,
     AcceptMarkOne, AcceptCaptureOne, UndoOfferOne, KillOffersOne, ExpireOthersOne,
     AdminCaptureOne, AdminFindOne, AdminExpireOne, AdminOwnOne, ExpireClaimOne, ExpireFindOne,
     ExpireWriteOne DEF Continue
<1>5. ASSUME NEW t \in Tasks, ExpireStaleOffers(t) \/ Redispatch(t) \/ ExpireUnfilledSearches(t)
      PROVE  OneInv'
  BY <1>5, ExpireStaleOffersOne, CalledOne
<1> QED BY <1>1, <1>2, <1>4, <1>5 DEF Next

\* Of an order, one offer at most says ACCEPTED and is not about to be taken back, and it is
\* of the inspector the order names: acceptOffer and adminAssign, for any number of them at
\* once and beside every refusal, sweep, round and cancellation.
THEOREM OneAcceptanceHolds == Spec => []OneAcceptance
<1>1. Init => OneInv
  BY OneInit
<1>2. OneInv /\ [Next]_vars => OneInv'
  BY NextOne
<1>3. OneInv => OneAcceptance
  BY DEF OneInv
<1> QED BY <1>1, <1>2, <1>3, PTL DEF Spec


-----------------------------------------------------------------------------
(***************************************************************************)
(* The identity documents: of an undecided application the document is there, *)
(* and nobody works whose last application an admin refused.                *)
(***************************************************************************)
\* One request or admin at a time; the purge at any.
KycSingles == Kyc!HandlerNames \ {"purgeOldDocuments"}
KycCalm == KycSingles \subseteq KycAlone /\ MaxApps \in Nat /\ MaxKeys \in Nat

AppsOne ==
  /\ app \in Seq(Kyc!AppRows) /\ Kyc!TypeOK
  /\ \A i, j \in Kyc!Apps : app[i].key = app[j].key /\ app[i].key # Kyc!NoKey => i = j
  /\ \A i \in Kyc!Apps : app[i].key <= keys
KycDoing ==
  \A t \in Tasks :
    /\ at[t] = "create" => my[t].op = "createApplication" /\ my[t].user \in Users
       /\ my[t].file \in Documents
    /\ at[t] \in {"u_prev", "u_put", "u_row", "u_del"} => my[t].op = "uploadDocument"
    /\ at[t] \in {"s_prior", "s_reused", "s_write"} => my[t].op = "submitApplication"
    /\ at[t] = "look" => my[t].op = "getApplicationForAdmin"
    /\ at[t] = "approve" => my[t].op = "approve"
    /\ at[t] = "reject" => my[t].op = "reject"
KycOneBy == \A t, u \in Tasks : t # u /\ my[t].op \in KycSingles => my[u].op \notin KycSingles
KycTheirs(t) == my[t].id \in Kyc!Apps /\ app[my[t].id].user = my[t].user
KycUploading ==
  \A t \in Tasks :
    /\ at[t] \in {"u_prev", "u_put", "u_row"} => KycTheirs(t) /\ app[my[t].id].st = "DRAFT"
       /\ my[t].file \in Documents
    /\ at[t] \in {"u_put", "u_row"} => my[t].old = app[my[t].id].key
    /\ at[t] = "u_row" => /\ my[t].key \in objects /\ my[t].key # Kyc!NoKey /\ my[t].key <= keys
                          /\ \A i \in Kyc!Apps : app[i].key # my[t].key
    /\ at[t] = "u_del" => \A i \in Kyc!Apps : app[i].key # my[t].old
KycSubmitting ==
  \A t \in Tasks :
    /\ at[t] \in {"s_prior", "s_reused", "s_write"} =>
         KycTheirs(t) /\ app[my[t].id].st = "DRAFT" /\ app[my[t].id].file = my[t].file
    /\ at[t] \in {"s_reused", "s_write"} /\ ~my[t].held
       => \A i \in Kyc!Rejected : app[i].user # my[t].user
    /\ at[t] = "s_write" /\ ~my[t].held => \A i \in Kyc!Rejected : app[i].file # my[t].file
KycJudging ==
  \A t \in Tasks :
    /\ at[t] \in {"look", "approve", "reject"} => KycTheirs(t)
    /\ at[t] = "look" => app[my[t].id].st = "SUBMITTED"
KycPurging ==
  \A t \in Tasks :
    /\ at[t] = "p_del" => \A i \in my[t].todo : i \in Kyc!Apps /\ app[i].st \in Kyc!Decided
    /\ at[t] = "p_stamp" => /\ \A i \in my[t].todo : i \in Kyc!Apps /\ app[i].st \in Kyc!Decided
                            /\ my[t].id \in Kyc!Apps /\ app[my[t].id].st \in Kyc!Decided
KycInv ==
  /\ AppsOne /\ KycDoing /\ KycOneBy /\ KycUploading /\ KycSubmitting /\ KycJudging /\ KycPurging
  /\ Kyc!UndecidedHasDocument /\ Kyc!VerifiedIsApproved

-----------------------------------------------------------------------------
LEMMA KycInit == KycCalm /\ Kyc!Init => KycInv
<1> SUFFICES ASSUME KycCalm, Kyc!Init PROVE KycInv
  OBVIOUS
<1>1. Kyc!NoJob \in Kyc!Jobs /\ Kyc!NoJob.op = "none"
  BY DEF Kyc!NoJob, Kyc!Job, Kyc!Jobs, KycCalm, Kyc!NoKey
<1>2. app = <<>> /\ Len(app) = 0 /\ Kyc!Apps = {} /\ app \in Seq(Kyc!AppRows)
  BY DEF Kyc!Init, Kyc!Apps
<1>3. AppsOne
  BY <1>1, <1>2 DEF Kyc!Init, AppsOne, Kyc!TypeOK, Kyc!Labels, KycCalm
<1>4. \A t \in Tasks : at[t] = "idle"
  BY DEF Kyc!Init
<1>5. KycDoing /\ KycUploading /\ KycSubmitting /\ KycJudging /\ KycPurging
  BY <1>4 DEF KycDoing, KycUploading, KycSubmitting, KycJudging, KycPurging
<1>6. KycOneBy
  BY <1>1 DEF Kyc!Init, KycOneBy, KycSingles, Kyc!HandlerNames
<1>7. Kyc!UndecidedHasDocument /\ Kyc!VerifiedIsApproved
  BY <1>2 DEF Kyc!Init, Kyc!UndecidedHasDocument, Kyc!VerifiedIsApproved
<1> QED BY <1>3, <1>5, <1>6, <1>7 DEF KycInv

KycSteps(t, label, j) ==
  /\ at' \in [Tasks -> Kyc!Labels] /\ my' \in [Tasks -> Kyc!Jobs]
  /\ \A u \in Tasks : at'[u] = (IF u = t THEN label ELSE at[u]) /\ my'[u] = (IF u = t THEN j ELSE my[u])

LEMMA KycKeeping ==
  ASSUME KycInv, NEW t \in Tasks, NEW label \in Kyc!Labels, NEW j \in Kyc!Jobs, Kyc!Keep(t, label, j)
  PROVE  KycSteps(t, label, j)
BY DEF KycInv, AppsOne, Kyc!TypeOK, Kyc!Keep, KycSteps

LEMMA KycIdle == KycCalm => Kyc!NoJob \in Kyc!Jobs /\ Kyc!NoJob.op = "none" /\ "idle" \in Kyc!Labels
BY DEF Kyc!NoJob, Kyc!Job, Kyc!Jobs, KycCalm, Kyc!NoKey, Kyc!Labels

LEMMA KycEnding ==
  ASSUME KycCalm, KycInv, NEW t \in Tasks, Kyc!End(t)
  PROVE  KycSteps(t, "idle", Kyc!NoJob)
BY KycIdle, KycKeeping DEF Kyc!End

LEMMA KycBeginning ==
  ASSUME KycCalm, KycInv, NEW t \in Tasks, NEW label \in Kyc!Labels, NEW j \in Kyc!Jobs,
         Kyc!Begin(t, label, j)
  PROVE  KycSteps(t, label, j) /\ at[t] = "idle" /\ KycOneBy'
<1>1. KycSteps(t, label, j) /\ at[t] = "idle"
  BY KycKeeping DEF Kyc!Begin, Kyc!Keep
<1>2. j.op \in KycSingles => \A u \in Tasks : my[u].op \notin KycSingles
  BY DEF Kyc!Begin, KycCalm
<1> QED BY <1>1, <1>2 DEF KycSteps, KycInv, KycOneBy

\* A task that ends leaves the rest as it was.
LEMMA KycEnds ==
  ASSUME KycCalm, KycInv, NEW t \in Tasks, Kyc!End(t), UNCHANGED <<app, verified, objects, keys>>
  PROVE  KycInv'
<1>1. KycSteps(t, "idle", Kyc!NoJob) /\ Kyc!NoJob.op = "none"
  BY KycEnding, KycIdle
<1>2. UNCHANGED <<app, verified, objects, keys>>
  OBVIOUS
<1>3. AppsOne'
  BY <1>1, <1>2 DEF KycSteps, KycInv, AppsOne, Kyc!TypeOK, Kyc!Apps, Kyc!Labels, Kyc!AppRows
<1>4. KycDoing'
  BY <1>1, <1>2 DEF KycSteps, KycInv, KycDoing
<1>5. KycOneBy'
  BY <1>1, <1>2 DEF KycSteps, KycInv, KycOneBy, KycSingles, Kyc!HandlerNames
<1>6. KycUploading'
  BY <1>1, <1>2 DEF KycSteps, KycInv, AppsOne, KycDoing, KycUploading, KycTheirs, Kyc!Apps
<1>7. KycSubmitting'
  BY <1>1, <1>2 DEF KycSteps, KycInv, KycDoing, KycSubmitting, KycTheirs, Kyc!Apps, Kyc!Rejected
<1>8. KycJudging'
  BY <1>1, <1>2 DEF KycSteps, KycInv, KycDoing, KycJudging, KycTheirs, Kyc!Apps
<1>9. KycPurging'
  BY <1>1, <1>2 DEF KycSteps, KycInv, KycDoing, KycPurging, Kyc!Apps
<1>10. Kyc!UndecidedHasDocument'
  BY <1>1, <1>2 DEF KycInv, AppsOne, Kyc!UndecidedHasDocument, Kyc!Apps, Kyc!Active
<1>11. Kyc!VerifiedIsApproved'
  BY <1>1, <1>2 DEF KycInv, AppsOne, Kyc!VerifiedIsApproved, Kyc!Apps
<1> QED BY <1>3, <1>4, <1>5, <1>6, <1>7, <1>8, <1>9, <1>10, <1>11 DEF KycInv

\* One row of an application is written again.
KycOneRow(id, row) ==
  /\ app' \in Seq(Kyc!AppRows) /\ Len(app') = Len(app) /\ Kyc!Apps' = Kyc!Apps /\ row \in Kyc!AppRows
  /\ \A i \in Kyc!Apps : app'[i] = IF i = id THEN row ELSE app[i]

LEMMA RowWritten ==
  ASSUME KycInv, NEW id \in Kyc!Apps, NEW row \in Kyc!AppRows, app' = [app EXCEPT ![id] = row]
  PROVE  KycOneRow(id, row)
BY DEF KycInv, AppsOne, KycOneRow, Kyc!Apps

LEMMA StatusWritten ==
  ASSUME KycInv, NEW id \in Kyc!Apps, NEW st \in Kyc!Status, Kyc!SetStatus(id, st)
  PROVE  LET row == [app[id] EXCEPT !.st = st, !.aged = FALSE] IN
         /\ KycOneRow(id, row) /\ row.st = st /\ row.user = app[id].user /\ row.key = app[id].key
            /\ row.file = app[id].file
         /\ row.purged = app[id].purged
<1> DEFINE row == [app[id] EXCEPT !.st = st, !.aged = FALSE]
<1>1. app[id] \in Kyc!AppRows
  BY DEF KycInv, AppsOne, Kyc!TypeOK
<1>2. row \in Kyc!AppRows /\ row.st = st /\ row.user = app[id].user /\ row.key = app[id].key
      /\ row.file = app[id].file
      /\ row.purged = app[id].purged
  BY <1>1 DEF Kyc!AppRows
<1>3. app' = [app EXCEPT ![id] = row]
  BY <1>1 DEF Kyc!SetStatus, KycInv, AppsOne, Kyc!Apps, Kyc!AppRows
<1> HIDE DEF row
<1> QED BY <1>2, <1>3, RowWritten DEF row

LEMMA KycCalled ==
  ASSUME KycCalm, KycInv, NEW t \in Tasks,
         Kyc!CreateApplication(t) \/ Kyc!UploadDocument(t) \/ Kyc!SubmitApplication(t)
           \/ Kyc!GetApplicationForAdmin(t) \/ Kyc!Approve(t) \/ Kyc!Reject(t)
  PROVE  KycInv'
<1>1. UNCHANGED <<app, verified, objects, keys>>
  BY DEF Kyc!CreateApplication, Kyc!UploadDocument, Kyc!SubmitApplication,
     Kyc!GetApplicationForAdmin, Kyc!Approve, Kyc!Reject, Kyc!Admin
<1>2. PICK op \in Kyc!HandlerNames, label \in {"create", "u_prev", "s_prior", "look", "approve",
           "reject"}, user \in Users, id \in 0 .. MaxApps,
           file \in Documents :
        /\ Kyc!Begin(t, label, Kyc!Job(op, user, id, file))
        /\ label = "create" => op = "createApplication"
        /\ label # "create" => id \in Kyc!Apps /\ app[id].user = user
        /\ label = "u_prev" => op = "uploadDocument" /\ app[id].st = "DRAFT"
        /\ label = "s_prior" => op = "submitApplication" /\ app[id].st = "DRAFT" /\ app[id].file = file
        /\ label = "look" => op = "getApplicationForAdmin" /\ app[id].st = "SUBMITTED"
        /\ label = "approve" => op = "approve"
        /\ label = "reject" => op = "reject"
  <2>0. 0 \in 0 .. MaxApps /\ \A i \in Kyc!Apps : i \in 0 .. MaxApps /\ app[i].user \in Users
        /\ app[i].file \in Documents /\ app[i].st \in Kyc!Status
    BY DEF KycInv, AppsOne, Kyc!TypeOK, Kyc!Apps, Kyc!AppRows, KycCalm
  <2>1. CASE Kyc!CreateApplication(t)
    BY <2>0, <2>1 DEF Kyc!CreateApplication, Kyc!HandlerNames
  <2>2. CASE Kyc!UploadDocument(t)
    BY <2>0, <2>2 DEF Kyc!UploadDocument, Kyc!HandlerNames
  <2>3. CASE Kyc!SubmitApplication(t)
    <3>1. \A s \in Kyc!Status : "SUBMITTED" \in Kyc!Transitions[s] => s = "DRAFT"
      BY DEF Kyc!Transitions, Kyc!Status
    <3> QED BY <2>0, <2>3, <3>1 DEF Kyc!SubmitApplication, Kyc!HandlerNames
  <2>4. CASE Kyc!GetApplicationForAdmin(t)
    BY <2>0, <2>4 DEF Kyc!GetApplicationForAdmin, Kyc!Admin, Kyc!HandlerNames
  <2>5. CASE Kyc!Approve(t)
    BY <2>0, <2>5 DEF Kyc!Approve, Kyc!Admin, Kyc!HandlerNames
  <2>6. CASE Kyc!Reject(t)
    BY <2>0, <2>6 DEF Kyc!Reject, Kyc!Admin, Kyc!HandlerNames
  <2> QED BY <2>1, <2>2, <2>3, <2>4, <2>5, <2>6
<1> DEFINE j == Kyc!Job(op, user, id, file)
<1>3. j \in Kyc!Jobs /\ j.op = op /\ j.user = user /\ j.id = id /\ j.file = file /\ j.held = FALSE
  BY DEF Kyc!Job, Kyc!Jobs, KycCalm, Kyc!NoKey
<1>4. label \in Kyc!Labels
  BY DEF Kyc!Labels
<1>5. KycSteps(t, label, j) /\ at[t] = "idle" /\ KycOneBy'
  BY <1>2, <1>3, <1>4, KycBeginning
<1> HIDE DEF j
<1>6. AppsOne'
  BY <1>1, <1>2, <1>3, <1>5 DEF KycSteps, KycInv, AppsOne, Kyc!TypeOK, Kyc!Apps, Kyc!Labels,
     Kyc!AppRows
<1>7. KycDoing'
  BY <1>1, <1>2, <1>3, <1>5 DEF KycSteps, KycInv, KycDoing
<1>8. KycOneBy'
  BY <1>1, <1>2, <1>3, <1>5 DEF KycSteps, KycInv, KycOneBy, KycSingles, Kyc!HandlerNames
<1>9. KycUploading'
  BY <1>1, <1>2, <1>3, <1>5 DEF KycSteps, KycInv, AppsOne, KycDoing, KycUploading, KycTheirs,
     Kyc!Apps
<1>10. KycSubmitting'
  BY <1>1, <1>2, <1>3, <1>5 DEF KycSteps, KycInv, KycDoing, KycSubmitting, KycTheirs, Kyc!Apps,
     Kyc!Rejected
<1>11. KycJudging'
  BY <1>1, <1>2, <1>3, <1>5 DEF KycSteps, KycInv, KycDoing, KycJudging, KycTheirs, Kyc!Apps
<1>12. KycPurging'
  BY <1>1, <1>2, <1>3, <1>5 DEF KycSteps, KycInv, KycDoing, KycPurging, Kyc!Apps
<1>13. Kyc!UndecidedHasDocument'
  BY <1>1, <1>2, <1>3, <1>5 DEF KycInv, AppsOne, Kyc!UndecidedHasDocument, Kyc!Apps, Kyc!Active
<1>14. Kyc!VerifiedIsApproved'
  BY <1>1, <1>2, <1>3, <1>5 DEF KycInv, AppsOne, Kyc!VerifiedIsApproved, Kyc!Apps
<1> QED BY <1>6, <1>7, <1>8, <1>9, <1>10, <1>11, <1>12, <1>13, <1>14 DEF KycInv

LEMMA PurgeCalled ==
  ASSUME KycCalm, KycInv, NEW t \in Tasks, Kyc!PurgeOldDocuments(t)
  PROVE  KycInv'
<1> DEFINE j == [Kyc!NoJob EXCEPT !.op = "purgeOldDocuments", !.todo = Kyc!Old]
<1>1. UNCHANGED <<app, verified, objects, keys>> /\ Kyc!Begin(t, "p_del", j)
  BY DEF Kyc!PurgeOldDocuments
<1>2. \A i \in Kyc!Old : i \in Kyc!Apps /\ app[i].st \in Kyc!Decided /\ i \in 1 .. MaxApps
  BY DEF Kyc!Old, Kyc!Apps, KycInv, AppsOne, Kyc!TypeOK, KycCalm
<1>3. j \in Kyc!Jobs /\ j.op = "purgeOldDocuments" /\ j.todo = Kyc!Old
  BY <1>2, KycIdle DEF Kyc!Jobs, Kyc!HandlerNames
<1>4. KycSteps(t, "p_del", j) /\ at[t] = "idle" /\ KycOneBy'
  BY <1>1, <1>3, KycBeginning DEF Kyc!Labels
<1> HIDE DEF j
<1>5. AppsOne'
  BY <1>1, <1>2, <1>3, <1>4 DEF KycSteps, KycInv, AppsOne, Kyc!TypeOK, Kyc!Apps, Kyc!Labels,
     Kyc!AppRows
<1>6. KycDoing'
  BY <1>1, <1>2, <1>3, <1>4 DEF KycSteps, KycInv, KycDoing
<1>7. KycOneBy'
  BY <1>1, <1>2, <1>3, <1>4 DEF KycSteps, KycInv, KycOneBy, KycSingles, Kyc!HandlerNames
<1>8. KycUploading'
  BY <1>1, <1>2, <1>3, <1>4 DEF KycSteps, KycInv, AppsOne, KycDoing, KycUploading, KycTheirs,
     Kyc!Apps
<1>9. KycSubmitting'
  BY <1>1, <1>2, <1>3, <1>4 DEF KycSteps, KycInv, KycDoing, KycSubmitting, KycTheirs, Kyc!Apps,
     Kyc!Rejected
<1>10. KycJudging'
  BY <1>1, <1>2, <1>3, <1>4 DEF KycSteps, KycInv, KycDoing, KycJudging, KycTheirs, Kyc!Apps
<1>11. KycPurging'
  BY <1>1, <1>2, <1>3, <1>4 DEF KycSteps, KycInv, KycDoing, KycPurging, Kyc!Apps
<1>12. Kyc!UndecidedHasDocument'
  BY <1>1, <1>2, <1>3, <1>4 DEF KycInv, AppsOne, Kyc!UndecidedHasDocument, Kyc!Apps, Kyc!Active
<1>13. Kyc!VerifiedIsApproved'
  BY <1>1, <1>2, <1>3, <1>4 DEF KycInv, AppsOne, Kyc!VerifiedIsApproved, Kyc!Apps
<1> QED BY <1>5, <1>6, <1>7, <1>8, <1>9, <1>10, <1>11, <1>12, <1>13 DEF KycInv

LEMMA KycCreating ==
  ASSUME KycCalm, KycInv, NEW t \in Tasks, Kyc!Create(t)
  PROVE  KycInv'
<1>1. /\ at[t] = "create" /\ UNCHANGED <<verified, objects, keys>> /\ my[t].user \in Users
         /\ my[t].file \in Documents
      /\ my[t].op \in KycSingles
  BY DEF Kyc!Create, KycInv, KycDoing, KycSingles, Kyc!HandlerNames
<1>2. KycSteps(t, "idle", Kyc!NoJob) /\ Kyc!NoJob.op = "none"
  BY KycEnding, KycIdle DEF Kyc!Create
<1>3. CASE app' = app
  BY <1>1, <1>3, KycEnds DEF Kyc!Create
<1> DEFINE row == [user |-> my[t].user, st |-> "DRAFT", key |-> Kyc!NoKey, file |-> my[t].file,
           purged |-> FALSE, aged |-> FALSE]
<1>4. CASE Len(app) # MaxApps /\ app' = Append(app, row)
  <2>1. row \in Kyc!AppRows /\ row.key = 0 /\ row.st = "DRAFT" /\ Len(app) < MaxApps
        /\ app \in Seq(Kyc!AppRows) /\ Len(app) \in Nat
    BY <1>1, <1>4 DEF Kyc!AppRows, Kyc!NoKey, Kyc!Status, KycCalm, KycInv, AppsOne, Kyc!TypeOK
  <2> HIDE DEF row
  <2>2. /\ app' \in Seq(Kyc!AppRows) /\ Len(app') = Len(app) + 1 /\ app'[Len(app) + 1] = row
           /\ \A i \in Kyc!Apps : app'[i] = app[i]
        /\ Kyc!Apps' = Kyc!Apps \cup {Len(app) + 1} /\ Len(app) + 1 \notin Kyc!Apps
    BY <1>4, <2>1 DEF Kyc!Apps
  <2>3. \A i \in Kyc!Apps' : app'[i] \in Kyc!AppRows
    BY <2>1, <2>2 DEF KycInv, AppsOne, Kyc!TypeOK
  <2>0. \A u \in Tasks : u # t => at[u] \notin {"u_prev", "u_put", "u_row", "u_del", "s_prior",
        "s_reused", "s_write"}
    BY <1>1 DEF KycInv, KycOneBy, KycDoing, KycSingles, Kyc!HandlerNames
  <2>4. AppsOne'
    <3>1. Kyc!TypeOK'
      BY <1>1, <1>2, <2>1, <2>2, <2>3 DEF KycSteps, KycInv, AppsOne, Kyc!TypeOK, KycCalm
    <3>2. \A i, k \in Kyc!Apps' : app'[i].key = app'[k].key /\ app'[i].key # Kyc!NoKey => i = k
      BY <2>1, <2>2 DEF KycInv, AppsOne, Kyc!NoKey
    <3>3. \A i \in Kyc!Apps' : app'[i].key <= keys'
      BY <1>1, <2>1, <2>2 DEF KycInv, AppsOne, Kyc!TypeOK, KycCalm
    <3> QED BY <2>2, <3>1, <3>2, <3>3 DEF AppsOne
  <2>5. KycDoing'
    BY <1>1, <1>2, <2>1, <2>2, <2>3 DEF KycSteps, KycInv, KycDoing
  <2>6. KycOneBy'
    BY <1>1, <1>2, <2>1, <2>2, <2>3 DEF KycSteps, KycInv, KycOneBy, KycSingles, Kyc!HandlerNames
  <2>7. KycUploading'
    BY <1>1, <1>2, <2>0 DEF KycSteps, KycUploading
  <2>8. KycSubmitting'
    BY <1>1, <1>2, <2>0 DEF KycSteps, KycSubmitting
  <2>9. KycJudging'
    BY <1>1, <1>2, <2>1, <2>2, <2>3 DEF KycSteps, KycInv, KycDoing, KycJudging, KycTheirs, Kyc!Apps
  <2>10. KycPurging'
    BY <1>1, <1>2, <2>1, <2>2, <2>3 DEF KycSteps, KycInv, KycDoing, KycPurging, Kyc!Apps
  <2>11. Kyc!UndecidedHasDocument'
    BY <1>1, <2>1, <2>2 DEF KycInv, Kyc!UndecidedHasDocument, Kyc!NoKey
  <2>12. Kyc!VerifiedIsApproved'
    BY <1>1, <1>2, <2>1, <2>2, <2>3 DEF KycInv, AppsOne, Kyc!VerifiedIsApproved, Kyc!Apps
  <2> QED BY <2>4, <2>5, <2>6, <2>7, <2>8, <2>9, <2>10, <2>11, <2>12 DEF KycInv
<1> QED BY <1>3, <1>4 DEF Kyc!Create

LEMMA UploadMoves ==
  ASSUME KycCalm, KycInv, NEW t \in Tasks, Kyc!UploadPrevious(t) \/ Kyc!UploadPut(t)
  PROVE  KycInv'
<1>1. UNCHANGED <<app, verified>> /\ my[t] \in Kyc!Jobs /\ my[t].op = "uploadDocument"
      /\ at[t] \in {"u_prev", "u_put"}
      /\ KycTheirs(t) /\ app[my[t].id].st = "DRAFT" /\ my[t].file \in Documents
  BY DEF Kyc!UploadPrevious, Kyc!UploadPut, KycInv, AppsOne, Kyc!TypeOK, KycDoing, KycUploading
<1>2. CASE Kyc!UploadPrevious(t)
  <2> DEFINE j == [my[t] EXCEPT !.old = app[my[t].id].key]
  <2>1. app[my[t].id].key \in 0 .. MaxKeys
    BY <1>1 DEF KycTheirs, KycInv, AppsOne, Kyc!TypeOK, Kyc!AppRows
  <2>2. j \in Kyc!Jobs /\ j.op = my[t].op /\ j.id = my[t].id /\ j.user = my[t].user
        /\ j.file = my[t].file
        /\ j.old = app[my[t].id].key
    BY <1>1, <2>1 DEF Kyc!Jobs
  <2>3. KycSteps(t, "u_put", j) /\ UNCHANGED <<objects, keys>>
    BY <1>2, <2>2, KycKeeping DEF Kyc!UploadPrevious, Kyc!Mine, Kyc!Labels
  <2> HIDE DEF j
  <2>4. AppsOne'
    BY <1>1, <2>2, <2>3 DEF KycSteps, KycInv, AppsOne, Kyc!TypeOK, Kyc!Apps, Kyc!Labels, Kyc!AppRows
  <2>5. KycDoing'
    BY <1>1, <2>2, <2>3 DEF KycSteps, KycInv, KycDoing
  <2>6. KycOneBy'
    BY <1>1, <2>2, <2>3 DEF KycSteps, KycInv, KycOneBy, KycSingles, Kyc!HandlerNames
  <2>7. KycUploading'
    BY <1>1, <2>2, <2>3 DEF KycSteps, KycInv, AppsOne, KycDoing, KycUploading, KycTheirs, Kyc!Apps
  <2>8. KycSubmitting'
    BY <1>1, <2>2, <2>3 DEF KycSteps, KycInv, KycDoing, KycSubmitting, KycTheirs, Kyc!Apps,
       Kyc!Rejected
  <2>9. KycJudging'
    BY <1>1, <2>2, <2>3 DEF KycSteps, KycInv, KycDoing, KycJudging, KycTheirs, Kyc!Apps
  <2>10. KycPurging'
    BY <1>1, <2>2, <2>3 DEF KycSteps, KycInv, KycDoing, KycPurging, Kyc!Apps
  <2>11. Kyc!UndecidedHasDocument'
    BY <1>1, <2>2, <2>3 DEF KycInv, AppsOne, Kyc!UndecidedHasDocument, Kyc!Apps, Kyc!Active
  <2>12. Kyc!VerifiedIsApproved'
    BY <1>1, <2>2, <2>3 DEF KycInv, AppsOne, Kyc!VerifiedIsApproved, Kyc!Apps
  <2> QED BY <2>4, <2>5, <2>6, <2>7, <2>8, <2>9, <2>10, <2>11, <2>12 DEF KycInv
<1>3. CASE Kyc!End(t) /\ UNCHANGED <<objects, keys>>
  BY <1>1, <1>3, KycEnds
<1>4. CASE at[t] = "u_put" /\ keys < MaxKeys /\ keys' = keys + 1 /\ objects' = objects \cup {keys'}
           /\ Kyc!Keep(t, "u_row", [my[t] EXCEPT !.key = keys'])
  <2> DEFINE j == [my[t] EXCEPT !.key = keys']
  <2>1. keys \in 0 .. MaxKeys /\ keys' \in 1 .. MaxKeys /\ objects \subseteq 1 .. keys
    BY <1>4 DEF KycInv, AppsOne, Kyc!TypeOK, KycCalm
  <2>2. j \in Kyc!Jobs /\ j.op = my[t].op /\ j.id = my[t].id /\ j.user = my[t].user
        /\ j.file = my[t].file
        /\ j.old = my[t].old /\ j.key = keys'
    BY <1>1, <2>1 DEF Kyc!Jobs
  <2>3. KycSteps(t, "u_row", j)
    BY <1>4, <2>2, KycKeeping DEF Kyc!Labels
  <2> HIDE DEF j
  <2>4. \A i \in Kyc!Apps : app[i].key # keys'
    BY <1>4, <2>1 DEF KycInv, AppsOne, Kyc!TypeOK, Kyc!AppRows
  <2>5. objects' \subseteq 1 .. keys' /\ keys' # Kyc!NoKey /\ keys' \in objects'
        /\ objects \subseteq objects' /\ keys <= keys'
    BY <1>4, <2>1 DEF Kyc!NoKey
  <2>6. AppsOne'
    BY <1>1, <1>4, <2>1, <2>2, <2>3, <2>4, <2>5 DEF KycSteps, KycInv, AppsOne, Kyc!TypeOK,
       Kyc!Apps, Kyc!Labels, Kyc!AppRows
  <2>7. KycDoing'
    BY <1>1, <1>4, <2>1, <2>2, <2>3, <2>4, <2>5 DEF KycSteps, KycInv, KycDoing
  <2>8. KycOneBy'
    BY <1>1, <1>4, <2>1, <2>2, <2>3, <2>4, <2>5 DEF KycSteps, KycInv, KycOneBy, KycSingles,
       Kyc!HandlerNames
  <2>9. KycUploading'
    BY <1>1, <1>4, <2>1, <2>2, <2>3, <2>4, <2>5 DEF KycSteps, KycInv, AppsOne, KycDoing,
       KycUploading, KycTheirs, Kyc!Apps
  <2>10. KycSubmitting'
    BY <1>1, <1>4, <2>1, <2>2, <2>3, <2>4, <2>5 DEF KycSteps, KycInv, KycDoing, KycSubmitting,
       KycTheirs, Kyc!Apps, Kyc!Rejected
  <2>11. KycJudging'
    BY <1>1, <1>4, <2>1, <2>2, <2>3, <2>4, <2>5 DEF KycSteps, KycInv, KycDoing, KycJudging,
       KycTheirs, Kyc!Apps
  <2>12. KycPurging'
    BY <1>1, <1>4, <2>1, <2>2, <2>3, <2>4, <2>5 DEF KycSteps, KycInv, KycDoing, KycPurging, Kyc!Apps
  <2>13. Kyc!UndecidedHasDocument'
    BY <1>1, <1>4, <2>1, <2>2, <2>3, <2>4, <2>5 DEF KycInv, AppsOne, Kyc!UndecidedHasDocument,
       Kyc!Apps, Kyc!Active
  <2>14. Kyc!VerifiedIsApproved'
    BY <1>1, <1>4, <2>1, <2>2, <2>3, <2>4, <2>5 DEF KycInv, AppsOne, Kyc!VerifiedIsApproved,
       Kyc!Apps
  <2> QED BY <2>6, <2>7, <2>8, <2>9, <2>10, <2>11, <2>12, <2>13, <2>14 DEF KycInv
<1> QED BY <1>2, <1>3, <1>4 DEF Kyc!UploadPut

LEMMA AppsStay ==
  ASSUME KycInv, NEW id \in Kyc!Apps, NEW row, KycOneRow(id, row), NEW t, NEW label, NEW j,
         KycSteps(t, label, j),
         row.key = app[id].key \/ (row.key <= keys /\ \A i \in Kyc!Apps : app[i].key # row.key),
         verified' \in [Users -> BOOLEAN], UNCHANGED <<objects, keys>>
  PROVE  AppsOne'
<1>1. Kyc!TypeOK'
  <2>1. \A i \in Kyc!Apps' : app'[i] \in Kyc!AppRows
    BY DEF KycOneRow, KycInv, AppsOne, Kyc!TypeOK
  <2> QED BY <2>1 DEF KycOneRow, KycSteps, KycInv, AppsOne, Kyc!TypeOK
<1>2. \A i, k \in Kyc!Apps' : app'[i].key = app'[k].key /\ app'[i].key # Kyc!NoKey => i = k
  BY DEF KycOneRow, KycInv, AppsOne
<1>3. \A i \in Kyc!Apps' : app'[i].key <= keys'
  BY DEF KycOneRow, KycInv, AppsOne
<1> QED BY <1>1, <1>2, <1>3 DEF KycOneRow, AppsOne

LEMMA UploadWrites ==
  ASSUME KycCalm, KycInv, NEW t \in Tasks, Kyc!UploadRow(t)
  PROVE  KycInv'
<1> DEFINE id == my[t].id
           row == [app[id] EXCEPT !.key = my[t].key, !.file = my[t].file, !.purged = FALSE]
<1>1. /\ at[t] = "u_row" /\ UNCHANGED <<verified, objects, keys>> /\ my[t] \in Kyc!Jobs
         /\ my[t].op = "uploadDocument"
      /\ id \in Kyc!Apps /\ app[id] \in Kyc!AppRows /\ app[id].user = my[t].user /\ app[id].st = "DRAFT"
         /\ my[t].file \in Documents
      /\ my[t].old = app[id].key /\ my[t].key \in objects /\ my[t].key # Kyc!NoKey /\ my[t].key <= keys
      /\ \A i \in Kyc!Apps : app[i].key # my[t].key
  BY DEF Kyc!UploadRow, KycInv, AppsOne, Kyc!TypeOK, KycDoing, KycUploading, KycTheirs
<1>2. row \in Kyc!AppRows /\ row.user = app[id].user /\ row.st = "DRAFT" /\ row.key = my[t].key
      /\ row.file = my[t].file
      /\ row.purged = FALSE
  BY <1>1 DEF Kyc!AppRows, Kyc!Jobs
<1>3. app' = [app EXCEPT ![id] = row]
  BY <1>1 DEF Kyc!UploadRow, KycInv, AppsOne, Kyc!Apps, Kyc!AppRows
<1> HIDE DEF row
<1>4. KycOneRow(id, row)
  BY <1>1, <1>2, <1>3, RowWritten
<1>5. \A u \in Tasks : u # t => my[u].op \notin KycSingles
  BY <1>1 DEF KycInv, KycOneBy, KycSingles, Kyc!HandlerNames
<1>6. \A u \in Tasks : u # t => at[u] \notin {"create", "u_prev", "u_put", "u_row", "u_del", "s_prior",
      "s_reused", "s_write",
                                              "look", "approve", "reject"}
  BY <1>5 DEF KycInv, KycDoing, KycSingles, Kyc!HandlerNames
<1>7. CASE Kyc!End(t) /\ my[t].old = Kyc!NoKey
  <2>1. KycSteps(t, "idle", Kyc!NoJob) /\ Kyc!NoJob.op = "none"
    BY <1>7, KycEnding, KycIdle
  <2>2. AppsOne'
    BY <1>1, <1>2, <1>4, <2>1, AppsStay DEF KycInv, AppsOne, Kyc!TypeOK
  <2>3. KycDoing'
    BY <1>1, <1>2, <1>4, <1>6, <2>1 DEF KycSteps, KycInv, KycDoing
  <2>4. KycOneBy'
    BY <1>1, <1>2, <1>4, <1>6, <2>1 DEF KycSteps, KycInv, KycOneBy, KycSingles, Kyc!HandlerNames
  <2>5. KycUploading'
    BY <1>1, <1>2, <1>4, <1>6, <2>1 DEF KycSteps, KycOneRow, KycInv, KycUploading, KycTheirs
  <2>6. KycSubmitting'
    BY <1>1, <1>2, <1>4, <1>6, <2>1 DEF KycSteps, KycOneRow, KycInv, KycSubmitting, KycTheirs,
       Kyc!Rejected
  <2>7. KycJudging'
    BY <1>1, <1>2, <1>4, <1>6, <2>1 DEF KycSteps, KycOneRow, KycInv, KycJudging, KycTheirs
  <2>8. KycPurging'
    BY <1>1, <1>2, <1>4, <1>6, <2>1 DEF KycSteps, KycOneRow, KycInv, KycDoing, KycPurging,
       Kyc!Decided
  <2>9. Kyc!UndecidedHasDocument'
    BY <1>1, <1>2, <1>4, <1>6, <2>1 DEF KycOneRow, KycInv, Kyc!UndecidedHasDocument, Kyc!Active,
       Kyc!Decided
  <2>10. Kyc!VerifiedIsApproved'
    BY <1>1, <1>2, <1>4, <1>6, <2>1 DEF KycOneRow, KycInv, Kyc!VerifiedIsApproved
  <2> QED BY <2>2, <2>3, <2>4, <2>5, <2>6, <2>7, <2>8, <2>9, <2>10 DEF KycInv
<1>8. CASE Kyc!Go(t, "u_del") /\ my[t].old # Kyc!NoKey
  <2>1. KycSteps(t, "u_del", my[t])
    BY <1>1, <1>8, KycKeeping DEF Kyc!Go, Kyc!Labels
  <2>2. AppsOne'
    BY <1>1, <1>2, <1>4, <2>1, AppsStay DEF KycInv, AppsOne, Kyc!TypeOK
  <2>3. KycDoing'
    BY <1>1, <1>2, <1>4, <1>6, <1>8, <2>1 DEF KycSteps, KycInv, KycDoing
  <2>4. KycOneBy'
    BY <1>1, <1>2, <1>4, <1>6, <1>8, <2>1 DEF KycSteps, KycInv, KycOneBy, KycSingles,
       Kyc!HandlerNames
  <2>5. KycUploading'
    BY <1>1, <1>2, <1>4, <1>6, <1>8, <2>1 DEF KycSteps, KycOneRow, KycInv, AppsOne, KycUploading
  <2>6. KycSubmitting'
    BY <1>1, <1>2, <1>4, <1>6, <1>8, <2>1 DEF KycSteps, KycOneRow, KycInv, KycSubmitting,
       KycTheirs, Kyc!Rejected
  <2>7. KycJudging'
    BY <1>1, <1>2, <1>4, <1>6, <1>8, <2>1 DEF KycSteps, KycOneRow, KycInv, KycJudging, KycTheirs
  <2>8. KycPurging'
    BY <1>1, <1>2, <1>4, <1>6, <1>8, <2>1 DEF KycSteps, KycOneRow, KycInv, KycDoing, KycPurging,
       Kyc!Decided
  <2>9. Kyc!UndecidedHasDocument'
    BY <1>1, <1>2, <1>4, <1>6, <1>8, <2>1 DEF KycOneRow, KycInv, Kyc!UndecidedHasDocument,
       Kyc!Active, Kyc!Decided
  <2>10. Kyc!VerifiedIsApproved'
    BY <1>1, <1>2, <1>4, <1>6, <1>8, <2>1 DEF KycOneRow, KycInv, Kyc!VerifiedIsApproved
  <2> QED BY <2>2, <2>3, <2>4, <2>5, <2>6, <2>7, <2>8, <2>9, <2>10 DEF KycInv
<1> QED BY <1>7, <1>8 DEF Kyc!UploadRow

LEMMA UploadDeletes ==
  ASSUME KycCalm, KycInv, NEW t \in Tasks, Kyc!UploadDelete(t)
  PROVE  KycInv'
<1>1. /\ at[t] = "u_del" /\ UNCHANGED <<app, verified, keys>> /\ my[t].op = "uploadDocument"
      /\ objects' \subseteq objects /\ (\A k \in objects : k # my[t].old => k \in objects')
         /\ \A i \in Kyc!Apps : app[i].key # my[t].old
  BY DEF Kyc!UploadDelete, KycInv, KycDoing, KycUploading
<1>2. KycSteps(t, "idle", Kyc!NoJob) /\ Kyc!NoJob.op = "none"
  BY KycEnding, KycIdle DEF Kyc!UploadDelete
<1>3. \A u \in Tasks : u # t => at[u] # "u_row"
  BY <1>1 DEF KycInv, KycOneBy, KycDoing, KycSingles, Kyc!HandlerNames
<1>4. AppsOne'
  BY <1>1, <1>2, <1>3 DEF KycSteps, KycInv, AppsOne, Kyc!TypeOK, Kyc!Apps, Kyc!Labels, Kyc!AppRows
<1>5. KycDoing'
  BY <1>1, <1>2, <1>3 DEF KycSteps, KycInv, KycDoing
<1>6. KycOneBy'
  BY <1>1, <1>2, <1>3 DEF KycSteps, KycInv, KycOneBy, KycSingles, Kyc!HandlerNames
<1>7. KycUploading'
  BY <1>1, <1>2, <1>3 DEF KycSteps, KycInv, AppsOne, KycDoing, KycUploading, KycTheirs, Kyc!Apps
<1>8. KycSubmitting'
  BY <1>1, <1>2, <1>3 DEF KycSteps, KycInv, KycDoing, KycSubmitting, KycTheirs, Kyc!Apps,
     Kyc!Rejected
<1>9. KycJudging'
  BY <1>1, <1>2, <1>3 DEF KycSteps, KycInv, KycDoing, KycJudging, KycTheirs, Kyc!Apps
<1>10. KycPurging'
  BY <1>1, <1>2, <1>3 DEF KycSteps, KycInv, KycDoing, KycPurging, Kyc!Apps
<1>11. Kyc!UndecidedHasDocument'
  BY <1>1, <1>2, <1>3 DEF KycInv, AppsOne, Kyc!UndecidedHasDocument, Kyc!Apps, Kyc!Active
<1>12. Kyc!VerifiedIsApproved'
  BY <1>1, <1>2, <1>3 DEF KycInv, AppsOne, Kyc!VerifiedIsApproved, Kyc!Apps
<1> QED BY <1>4, <1>5, <1>6, <1>7, <1>8, <1>9, <1>10, <1>11, <1>12 DEF KycInv

LEMMA SubmitMoves ==
  ASSUME KycCalm, KycInv, NEW t \in Tasks, Kyc!SubmitPrior(t) \/ Kyc!SubmitReused(t)
  PROVE  KycInv'
<1>1. UNCHANGED <<app, verified, objects, keys>> /\ my[t] \in Kyc!Jobs /\ my[t].op = "submitApplication"
      /\ KycTheirs(t) /\ app[my[t].id].st = "DRAFT" /\ app[my[t].id].file = my[t].file
  BY DEF Kyc!SubmitPrior, Kyc!SubmitReused, KycInv, AppsOne, Kyc!TypeOK, KycDoing, KycSubmitting
<1>2. PICK label \in {"s_reused", "s_write"}, held \in BOOLEAN :
        /\ Kyc!Keep(t, label, [my[t] EXCEPT !.held = held])
        /\ ~held => \A i \in Kyc!Rejected : app[i].user # my[t].user
        /\ label = "s_write" /\ ~held => \A i \in Kyc!Rejected : app[i].file # my[t].file
  <2>1. CASE Kyc!SubmitPrior(t)
    <3> DEFINE prior == {i \in Kyc!Rejected \ {my[t].id} : app[i].user = my[t].user}
    <3>1. my[t].id \notin Kyc!Rejected
      BY <1>1 DEF Kyc!Rejected
    <3>2. Kyc!Keep(t, "s_reused", [my[t] EXCEPT !.held = prior # {}])
          /\ (prior = {} => \A i \in Kyc!Rejected : app[i].user # my[t].user)
      BY <2>1, <3>1 DEF Kyc!SubmitPrior
    <3> HIDE DEF prior
    <3> QED BY <3>2
  <2>2. CASE Kyc!SubmitReused(t)
    <3> DEFINE held == my[t].held \/ Kyc!Reused(t) # {}
    <3>1. held \in BOOLEAN /\ Kyc!Keep(t, "s_write", [my[t] EXCEPT !.held = held])
      BY <2>2, <1>1 DEF Kyc!SubmitReused, Kyc!Jobs
    <3>2. ~my[t].held => \A i \in Kyc!Rejected : app[i].user # my[t].user
      BY <2>2 DEF Kyc!SubmitReused, KycInv, KycSubmitting
    <3>3. ~held => (\A i \in Kyc!Rejected : app[i].user # my[t].user)
          /\ \A i \in Kyc!Rejected : app[i].file # my[t].file
      BY <3>2 DEF Kyc!Reused
    <3> HIDE DEF held
    <3> QED BY <3>1, <3>3
  <2> QED BY <2>1, <2>2
<1> DEFINE j == [my[t] EXCEPT !.held = held]
<1>3. j \in Kyc!Jobs /\ j.op = my[t].op /\ j.id = my[t].id /\ j.user = my[t].user /\ j.file = my[t].file
      /\ j.held = held
  BY <1>1 DEF Kyc!Jobs
<1>4. KycSteps(t, label, j)
  BY <1>2, <1>3, KycKeeping DEF Kyc!Labels
<1> HIDE DEF j
<1>5. AppsOne'
  BY <1>1, <1>2, <1>3, <1>4 DEF KycSteps, KycInv, AppsOne, Kyc!TypeOK, Kyc!Apps, Kyc!Labels,
     Kyc!AppRows
<1>6. KycDoing'
  BY <1>1, <1>2, <1>3, <1>4 DEF KycSteps, KycInv, KycDoing
<1>7. KycOneBy'
  BY <1>1, <1>2, <1>3, <1>4 DEF KycSteps, KycInv, KycOneBy, KycSingles, Kyc!HandlerNames
<1>8. KycUploading'
  BY <1>1, <1>2, <1>3, <1>4 DEF KycSteps, KycInv, AppsOne, KycDoing, KycUploading, KycTheirs,
     Kyc!Apps
<1>9. KycSubmitting'
  BY <1>1, <1>2, <1>3, <1>4 DEF KycSteps, KycInv, KycDoing, KycSubmitting, KycTheirs, Kyc!Apps,
     Kyc!Rejected
<1>10. KycJudging'
  BY <1>1, <1>2, <1>3, <1>4 DEF KycSteps, KycInv, KycDoing, KycJudging, KycTheirs, Kyc!Apps
<1>11. KycPurging'
  BY <1>1, <1>2, <1>3, <1>4 DEF KycSteps, KycInv, KycDoing, KycPurging, Kyc!Apps
<1>12. Kyc!UndecidedHasDocument'
  BY <1>1, <1>2, <1>3, <1>4 DEF KycInv, AppsOne, Kyc!UndecidedHasDocument, Kyc!Apps, Kyc!Active
<1>13. Kyc!VerifiedIsApproved'
  BY <1>1, <1>2, <1>3, <1>4 DEF KycInv, AppsOne, Kyc!VerifiedIsApproved, Kyc!Apps
<1> QED BY <1>5, <1>6, <1>7, <1>8, <1>9, <1>10, <1>11, <1>12, <1>13 DEF KycInv

\* What a single task writes of one application, when it is the only one of those that do.
LEMMA StatusSet ==
  ASSUME KycCalm, KycInv, NEW t \in Tasks, my[t].op \in KycSingles, KycTheirs(t), NEW st \in Kyc!Status,
         Kyc!SetStatus(my[t].id, st), Kyc!End(t),
         st \in Kyc!Active => app[my[t].id].st \in Kyc!Active, UNCHANGED <<objects, keys>>,
         \/ st = "APPROVED" /\ verified' = [verified EXCEPT ![my[t].user] = TRUE]
         \/ st = "REJECTED" /\ verified' = [verified EXCEPT ![my[t].user] = FALSE]
         \/ st \in Kyc!Active /\ verified' = verified
  PROVE  KycInv'
<1> DEFINE id == my[t].id
           row == [app[id] EXCEPT !.st = st, !.aged = FALSE]
<1>1. KycSteps(t, "idle", Kyc!NoJob) /\ Kyc!NoJob.op = "none" /\ id \in Kyc!Apps
      /\ app[id].user = my[t].user
  BY KycEnding, KycIdle DEF KycTheirs
<1>2. KycOneRow(id, row) /\ row.st = st /\ row.user = app[id].user /\ row.key = app[id].key
      /\ row.file = app[id].file
      /\ row.purged = app[id].purged
  BY <1>1, StatusWritten
<1> HIDE DEF row
<1>3. \A u \in Tasks : u # t => at[u] \notin {"create", "u_prev", "u_put", "u_row", "u_del", "s_prior",
      "s_reused", "s_write",
                                              "look", "approve", "reject"}
  BY DEF KycInv, KycOneBy, KycDoing, KycSingles, Kyc!HandlerNames
<1>4. my[t].user \in Users /\ verified' \in [Users -> BOOLEAN] /\ \A x \in Users : x # my[t].user
      => verified'[x] = verified[x]
  BY <1>1 DEF KycInv, AppsOne, Kyc!TypeOK, Kyc!AppRows
<1>5. AppsOne'
  BY <1>1, <1>2, <1>4, AppsStay
<1>6. KycUploading' /\ KycSubmitting' /\ KycJudging' /\ KycDoing' /\ KycOneBy'
  BY <1>1, <1>2, <1>3 DEF KycSteps, KycOneRow, KycInv, KycDoing, KycOneBy, KycUploading,
     KycSubmitting, KycJudging, KycSingles, Kyc!HandlerNames
<1>7. KycPurging'
  BY <1>1, <1>2 DEF KycSteps, KycOneRow, KycInv, KycPurging, Kyc!Decided, Kyc!Active, Kyc!Status
<1>8. Kyc!UndecidedHasDocument'
  BY <1>1, <1>2 DEF KycOneRow, KycInv, Kyc!UndecidedHasDocument, Kyc!Active
<1>9. Kyc!VerifiedIsApproved'
  <2> SUFFICES ASSUME NEW u \in Users, verified'[u]
               PROVE  \E i \in Kyc!Apps' : app'[i].user = u /\ app'[i].st = "APPROVED"
    BY DEF Kyc!VerifiedIsApproved
  <2>1. CASE u # my[t].user
    <3>1. PICK i \in Kyc!Apps : app[i].user = u /\ app[i].st = "APPROVED"
      BY <1>4, <2>1 DEF KycInv, Kyc!VerifiedIsApproved
    <3>2. i # id
      BY <1>1, <2>1, <3>1
    <3> QED BY <1>2, <3>1, <3>2 DEF KycOneRow
  <2>2. CASE u = my[t].user /\ st = "APPROVED"
    BY <1>1, <1>2, <2>2 DEF KycOneRow
  <2>3. CASE u = my[t].user /\ st \in Kyc!Active /\ verified' = verified
    <3>1. PICK i \in Kyc!Apps : app[i].user = u /\ app[i].st = "APPROVED"
      BY <2>3 DEF KycInv, Kyc!VerifiedIsApproved
    <3>2. i # id
      BY <2>3, <3>1 DEF Kyc!Active
    <3> QED BY <1>2, <3>1, <3>2 DEF KycOneRow
  <2>4. ~(u = my[t].user /\ st = "REJECTED" /\ verified' = [verified EXCEPT ![my[t].user] = FALSE])
    BY DEF KycInv, AppsOne, Kyc!TypeOK
  <2> QED BY <2>1, <2>2, <2>3, <2>4
<1> QED BY <1>5, <1>6, <1>7, <1>8, <1>9 DEF KycInv

LEMMA KycDeciding ==
  ASSUME KycCalm, KycInv, NEW t \in Tasks, Kyc!SubmitWrite(t) \/ Kyc!LookWrite(t) \/ Kyc!ApproveWrite(t)
         \/ Kyc!RejectWrite(t)
  PROVE  KycInv'
<1>1. KycTheirs(t) /\ my[t].op \in KycSingles /\ UNCHANGED <<objects, keys>> /\ Kyc!End(t)
  BY DEF Kyc!SubmitWrite, Kyc!LookWrite, Kyc!ApproveWrite, Kyc!RejectWrite, KycInv, KycDoing,
     KycSubmitting, KycJudging, KycSingles, Kyc!HandlerNames
<1>2. PICK st \in {"SUBMITTED", "IN_REVIEW", "APPROVED", "REJECTED"} :
        /\ Kyc!SetStatus(my[t].id, st) /\ (st \in Kyc!Active => app[my[t].id].st \in Kyc!Active)
        /\ \/ st = "APPROVED" /\ verified' = [verified EXCEPT ![my[t].user] = TRUE]
           \/ st = "REJECTED" /\ verified' = [verified EXCEPT ![my[t].user] = FALSE]
           \/ st \in Kyc!Active /\ verified' = verified
  BY DEF Kyc!SubmitWrite, Kyc!LookWrite, Kyc!ApproveWrite, Kyc!RejectWrite, KycInv, KycSubmitting,
     KycJudging, Kyc!Active
<1>3. st \in Kyc!Status
  BY DEF Kyc!Status
<1> QED BY <1>1, <1>2, <1>3, StatusSet

LEMMA PurgeMoves ==
  ASSUME KycCalm, KycInv, NEW t \in Tasks, Kyc!PurgeDelete(t)
  PROVE  KycInv'
<1>1. PICK id \in my[t].todo : /\ Kyc!Keep(t, "p_stamp", [my[t] EXCEPT !.id = id, !.todo = @ \ {id}])
                               /\ objects' \in {objects, objects \ {app[id].key}}
  BY DEF Kyc!PurgeDelete
<1>2. /\ at[t] = "p_del" /\ UNCHANGED <<app, verified, keys>> /\ my[t] \in Kyc!Jobs
      /\ \A i \in my[t].todo : i \in Kyc!Apps /\ app[i].st \in Kyc!Decided
  BY DEF Kyc!PurgeDelete, KycInv, AppsOne, Kyc!TypeOK, KycPurging
<1> DEFINE j == [my[t] EXCEPT !.id = id, !.todo = @ \ {id}]
<1>3. j \in Kyc!Jobs /\ j.op = my[t].op /\ j.id = id /\ j.todo = my[t].todo \ {id}
  <2>1. id \in 0 .. MaxApps /\ my[t].todo \ {id} \in SUBSET (1 .. MaxApps)
    BY <1>2 DEF Kyc!Jobs, KycCalm
  <2> QED BY <1>2, <2>1 DEF Kyc!Jobs
<1>4. KycSteps(t, "p_stamp", j)
  BY <1>1, <1>3, KycKeeping DEF Kyc!Labels
<1> HIDE DEF j
<1>5. objects' \subseteq objects /\ \A k \in objects : k # app[id].key => k \in objects'
  BY <1>1
<1>6. AppsOne'
  BY <1>2, <1>4, <1>5 DEF KycSteps, KycInv, AppsOne, Kyc!TypeOK, Kyc!Apps
<1>7. KycDoing' /\ KycOneBy'
  BY <1>2, <1>3, <1>4 DEF KycSteps, KycInv, KycDoing, KycOneBy
<1>8. KycUploading'
  BY <1>2, <1>4, <1>5 DEF KycSteps, KycInv, KycUploading, KycTheirs, Kyc!Apps
<1>9. KycSubmitting' /\ KycJudging' /\ KycPurging'
  BY <1>2, <1>3, <1>4 DEF KycSteps, KycInv, KycSubmitting, KycJudging, KycPurging, KycTheirs,
     Kyc!Apps, Kyc!Rejected
<1>10. Kyc!UndecidedHasDocument' /\ Kyc!VerifiedIsApproved'
  BY <1>2, <1>5 DEF KycInv, AppsOne, Kyc!UndecidedHasDocument, Kyc!VerifiedIsApproved, Kyc!Apps,
     Kyc!Active, Kyc!Decided
<1> QED BY <1>6, <1>7, <1>8, <1>9, <1>10 DEF KycInv

LEMMA PurgeStamps ==
  ASSUME KycCalm, KycInv, NEW t \in Tasks, Kyc!PurgeStamp(t)
  PROVE  KycInv'
<1> DEFINE id == my[t].id
           row == [app[id] EXCEPT !.purged = TRUE]
<1>1. /\ at[t] = "p_stamp" /\ UNCHANGED <<verified, objects, keys>> /\ my[t] \in Kyc!Jobs
         /\ id \in Kyc!Apps /\ app[id] \in Kyc!AppRows
      /\ app[id].st \in Kyc!Decided /\ \A i \in my[t].todo : i \in Kyc!Apps /\ app[i].st \in Kyc!Decided
  BY DEF Kyc!PurgeStamp, KycInv, AppsOne, Kyc!TypeOK, KycPurging
<1>2. row \in Kyc!AppRows /\ row.user = app[id].user /\ row.st = app[id].st /\ row.key = app[id].key
      /\ row.file = app[id].file
  BY <1>1 DEF Kyc!AppRows
<1>3. app' = [app EXCEPT ![id] = row]
  BY <1>1 DEF Kyc!PurgeStamp, KycInv, AppsOne, Kyc!Apps, Kyc!AppRows
<1> HIDE DEF row
<1>4. KycOneRow(id, row)
  BY <1>1, <1>2, <1>3, RowWritten
<1>r. Kyc!Rejected' = Kyc!Rejected /\ Kyc!Apps' = Kyc!Apps
      /\ \A i \in Kyc!Apps : app'[i].user = app[i].user /\ app'[i].file = app[i].file
         /\ app'[i].st = app[i].st
  BY <1>2, <1>4 DEF KycOneRow, Kyc!Rejected
<1>5. CASE Kyc!End(t)
  <2>1. KycSteps(t, "idle", Kyc!NoJob) /\ Kyc!NoJob.op = "none"
    BY <1>5, KycEnding, KycIdle
  <2>2. AppsOne'
    BY <1>1, <1>2, <1>4, <2>1, AppsStay DEF KycInv, AppsOne, Kyc!TypeOK
  <2>3. KycDoing'
    BY <1>1, <1>2, <1>4, <2>1, AppsStay DEF KycSteps, KycInv, KycDoing
  <2>4. KycOneBy'
    BY <1>1, <1>2, <1>4, <2>1, AppsStay DEF KycSteps, KycInv, KycOneBy, KycSingles, Kyc!HandlerNames
  <2>5. KycUploading'
    BY <1>1, <1>2, <1>4, <2>1, AppsStay DEF KycSteps, KycOneRow, KycInv, KycUploading, KycTheirs
  <2>6. KycSubmitting'
    BY <1>1, <1>r, <2>1 DEF KycSteps, KycInv, KycSubmitting, KycTheirs, Kyc!Rejected
  <2>7. KycJudging'
    BY <1>1, <1>2, <1>4, <2>1, AppsStay DEF KycSteps, KycOneRow, KycInv, KycJudging, KycTheirs
  <2>8. KycPurging'
    BY <1>1, <1>2, <1>4, <2>1, AppsStay DEF KycSteps, KycOneRow, KycInv, KycDoing, KycPurging,
       Kyc!Decided
  <2>9. Kyc!UndecidedHasDocument'
    BY <1>1, <1>2, <1>4, <2>1, AppsStay DEF KycOneRow, KycInv, Kyc!UndecidedHasDocument,
       Kyc!Active, Kyc!Decided
  <2>10. Kyc!VerifiedIsApproved'
    BY <1>1, <1>2, <1>4, <2>1, AppsStay DEF KycOneRow, KycInv, Kyc!VerifiedIsApproved
  <2> QED BY <2>2, <2>3, <2>4, <2>5, <2>6, <2>7, <2>8, <2>9, <2>10 DEF KycInv
<1>6. CASE Kyc!Go(t, "p_del")
  <2>1. KycSteps(t, "p_del", my[t])
    BY <1>1, <1>6, KycKeeping DEF Kyc!Go, Kyc!Labels
  <2>2. AppsOne'
    BY <1>1, <1>2, <1>4, <2>1, AppsStay DEF KycInv, AppsOne, Kyc!TypeOK
  <2>3. KycDoing'
    BY <1>1, <1>2, <1>4, <2>1, AppsStay DEF KycSteps, KycInv, KycDoing
  <2>4. KycOneBy'
    BY <1>1, <1>2, <1>4, <2>1, AppsStay DEF KycSteps, KycInv, KycOneBy, KycSingles, Kyc!HandlerNames
  <2>5. KycUploading'
    BY <1>1, <1>2, <1>4, <2>1, AppsStay DEF KycSteps, KycOneRow, KycInv, KycUploading, KycTheirs
  <2>6. KycSubmitting'
    BY <1>1, <1>r, <2>1 DEF KycSteps, KycInv, KycSubmitting, KycTheirs, Kyc!Rejected
  <2>7. KycJudging'
    BY <1>1, <1>2, <1>4, <2>1, AppsStay DEF KycSteps, KycOneRow, KycInv, KycJudging, KycTheirs
  <2>8. KycPurging'
    BY <1>1, <1>2, <1>4, <2>1, AppsStay DEF KycSteps, KycOneRow, KycInv, KycDoing, KycPurging,
       Kyc!Decided
  <2>9. Kyc!UndecidedHasDocument'
    BY <1>1, <1>2, <1>4, <2>1, AppsStay DEF KycOneRow, KycInv, Kyc!UndecidedHasDocument,
       Kyc!Active, Kyc!Decided
  <2>10. Kyc!VerifiedIsApproved'
    BY <1>1, <1>2, <1>4, <2>1, AppsStay DEF KycOneRow, KycInv, Kyc!VerifiedIsApproved
  <2> QED BY <2>2, <2>3, <2>4, <2>5, <2>6, <2>7, <2>8, <2>9, <2>10 DEF KycInv
<1> QED BY <1>5, <1>6 DEF Kyc!PurgeStamp

LEMMA KycAgeing ==
  ASSUME KycCalm, KycInv, Kyc!Ages
  PROVE  KycInv'
<1>1. PICK id \in Kyc!Apps : app[id].st \in Kyc!Decided /\ app' = [app EXCEPT ![id].aged = TRUE]
  BY DEF Kyc!Ages
<1> DEFINE row == [app[id] EXCEPT !.aged = TRUE]
<1>2. /\ UNCHANGED <<verified, objects, keys, at, my>> /\ \A t \in Tasks : at[t] = "idle"
      /\ app[id] \in Kyc!AppRows
  BY DEF Kyc!Ages, KycInv, AppsOne, Kyc!TypeOK
<1>3. row \in Kyc!AppRows /\ row.user = app[id].user /\ row.st = app[id].st /\ row.key = app[id].key
      /\ row.file = app[id].file
      /\ row.purged = app[id].purged
  BY <1>2 DEF Kyc!AppRows
<1>4. app' = [app EXCEPT ![id] = row]
  BY <1>1, <1>2 DEF KycInv, AppsOne, Kyc!Apps, Kyc!AppRows
<1> HIDE DEF row
<1>5. KycOneRow(id, row)
  BY <1>3, <1>4, RowWritten
<1>6. AppsOne'
  <2>1. \A i \in Kyc!Apps' : app'[i] \in Kyc!AppRows
    BY <1>3, <1>5 DEF KycOneRow, KycInv, AppsOne, Kyc!TypeOK
  <2>2. Kyc!TypeOK'
    BY <1>2, <1>5, <2>1 DEF KycOneRow, KycInv, AppsOne, Kyc!TypeOK
  <2> QED BY <1>2, <1>3, <1>5, <2>2 DEF KycOneRow, KycInv, AppsOne
<1>7. KycDoing' /\ KycOneBy' /\ KycUploading' /\ KycSubmitting' /\ KycJudging' /\ KycPurging'
  BY <1>2 DEF KycInv, KycDoing, KycOneBy, KycUploading, KycSubmitting, KycJudging, KycPurging
<1>8. Kyc!UndecidedHasDocument' /\ Kyc!VerifiedIsApproved'
  BY <1>2, <1>3, <1>5 DEF KycOneRow, KycInv, Kyc!UndecidedHasDocument, Kyc!VerifiedIsApproved
<1> QED BY <1>6, <1>7, <1>8 DEF KycInv

LEMMA KycStays ==
  ASSUME KycInv, UNCHANGED Kyc!vars
  PROVE  KycInv'
<1>1. UNCHANGED <<app, verified, objects, keys, at, my>>
  BY DEF Kyc!vars
<1>2. AppsOne' /\ KycDoing' /\ KycOneBy' /\ Kyc!UndecidedHasDocument' /\ Kyc!VerifiedIsApproved'
  BY <1>1 DEF KycInv, AppsOne, Kyc!TypeOK, KycDoing, KycOneBy, Kyc!UndecidedHasDocument,
     Kyc!VerifiedIsApproved, Kyc!Apps
<1>3. KycUploading' /\ KycSubmitting' /\ KycJudging' /\ KycPurging'
  BY <1>1 DEF KycInv, KycUploading, KycSubmitting, KycJudging, KycPurging, KycTheirs, Kyc!Apps,
     Kyc!Rejected
<1> QED BY <1>2, <1>3 DEF KycInv

LEMMA KycStep == KycCalm /\ KycInv /\ (Kyc!Next \/ UNCHANGED Kyc!vars) => KycInv'
<1> SUFFICES ASSUME KycCalm, KycInv, Kyc!Next \/ UNCHANGED Kyc!vars PROVE KycInv'
  OBVIOUS
<1>1. CASE Kyc!Crash
  BY <1>1, KycEnds DEF Kyc!Crash
<1>2. ASSUME NEW t \in Tasks, Kyc!Called(t) PROVE KycInv'
  BY <1>2, KycCalled, PurgeCalled DEF Kyc!Called
<1>3. ASSUME NEW t \in Tasks, Kyc!Continue(t) PROVE KycInv'
  BY <1>3, KycCreating, UploadMoves, UploadWrites, UploadDeletes, SubmitMoves, KycDeciding,
     PurgeMoves, PurgeStamps DEF Kyc!Continue
<1> QED BY <1>1, <1>2, <1>3, KycAgeing, KycStays DEF Kyc!Next

\* The machine has looked among those refused, and nobody was refused since.
LEMMA NobodyIsBackIn == KycCalm /\ KycInv /\ Kyc!Next => Kyc!LetsNobodyBackIn
<1> SUFFICES ASSUME KycCalm, KycInv, Kyc!Next, NEW id \in Kyc!Apps, NEW t \in Tasks, at[t] = "s_write",
                    my[t].id = id, ~my[t].held,
                    NEW r \in Kyc!Rejected
             PROVE  app[r].user # app[id].user /\ app[r].file # app[id].file
  BY DEF Kyc!LetsNobodyBackIn, Kyc!MachineApproves
<1> QED BY DEF KycInv, KycSubmitting, KycTheirs


-----------------------------------------------------------------------------
(***************************************************************************)
(* The showroom: a photo the report lists has its object, the stamp of an   *)
(* advert stands for copies, and an admin's hide is not the seller's to undo. *)
(***************************************************************************)
\* What the seller may do at any time; whatever else is done is done by one at a time, and does
\* not die between the rows and what is read of them.
ShowroomSingles == Showroom!HandlerNames \ {"unpublish", "markSold"}
ShowroomCalm ==
  /\ ShowroomSingles \subseteq ShowroomAlone /\ NoShot \notin Shots
  /\ ShowroomDiesAt \cap {"d_row", "r_rows", "manifest", "stamp", "e_sweep", "e_stamp"} = {}

ShowroomOneBy == \A t, u \in Tasks : t # u /\ my[t].op \in ShowroomSingles
  => my[u].op \notin ShowroomSingles
OnAdvert == {"create", "publish", "unpublish", "sold", "hide", "unhide", "m_read", "m_copy", "m_stamp",
  "x_keys", "x_tx", "x_sweep"}
ShowroomDoing ==
  \A t \in Tasks :
    /\ at[t] \notin {"idle", "unpublish", "sold"} => my[t].op \in ShowroomSingles
    /\ at[t] = "unhide" => my[t].op = "adminUnhide"
    /\ at[t] \in OnAdvert => my[t].ad \in Ads
    /\ at[t] \in OnAdvert \ {"create"} => ad[my[t].ad].st # "none"
PhotoUploading ==
  \A t \in Tasks :
    /\ at[t] \in {"u_put", "u_row", "u_drop"} =>
         my[t].key \in Showroom!Keys /\ my[t].old[1] = my[t].key[1] /\ my[t].old[2] # my[t].key[2]
    /\ at[t] = "u_row" => my[t].key \in store
    /\ at[t] = "u_drop" => photo[my[t].key[1]] = my[t].key[2]
    /\ at[t] \in {"u_put", "u_row", "u_drop", "d_object", "d_row", "manifest"} => ~removed
    /\ at[t] \in {"d_object", "d_row"} => my[t].key \in Showroom!Keys
    /\ at[t] = "d_row" => \A s \in Slots : s # my[t].key[1] /\ photo[s] # NoShot
       => <<s, photo[s]>> \in store
\* The manifest lists what is stored, but while a photo is exchanged.
ListsStored == removed \/ manifest \subseteq store
  \/ \E t \in Tasks : at[t] \in {"d_row", "manifest", "r_rows"}
HasCopies(a) == \A k \in manifest : <<a, k>> \in public \/ k \notin store
\* A stamp stands for copies whatever the status, but while it is taken back.
StampKept ==
  \A a \in Ads : ad[a].claimed /\ ad[a].stamped =>
    HasCopies(a) \/ \E t \in Tasks : at[t] \in {"stamp", "e_sweep", "e_stamp"}
CopiesMade ==
  \A t \in Tasks :
    /\ at[t] \in {"m_copy", "m_stamp"} /\ ~my[t].failed /\ ad[my[t].ad].claimed =>
         \A k \in manifest : <<my[t].ad, k>> \in public \/ k \notin store
           \/ <<my[t].ad, k>> \in my[t].todo
    /\ at[t] = "m_stamp" => my[t].todo = {}
ShowroomSweeps ==
  \A t \in Tasks :
    /\ at[t] = "x_tx" => \A c \in my[t].todo : c[1] = my[t].ad
    /\ at[t] = "x_sweep" => \A c \in my[t].todo : ~ad[c[1]].claimed
    /\ at[t] \in {"e_keys", "e_sweep", "e_stamp"} => \A a \in Ads : ad[a].st # "ACTIVE"
PublishesOpen == \A t \in Tasks : at[t] = "publish" => ~ad[my[t].ad].hidden
ShowroomInv ==
  /\ Showroom!TypeOK /\ ShowroomOneBy /\ ShowroomDoing /\ PhotoUploading /\ ListsStored /\ StampKept
     /\ CopiesMade
  /\ ShowroomSweeps /\ PublishesOpen /\ Showroom!RowHasObject

-----------------------------------------------------------------------------
LEMMA ShowroomIdle == Showroom!NoJob \in Showroom!Jobs /\ Showroom!NoJob.op = "none"
  /\ Showroom!NoJob.op \notin ShowroomSingles
BY DEF Showroom!NoJob, Showroom!Jobs, ShowroomSingles, Showroom!HandlerNames

LEMMA ShowroomInit == ShowroomCalm /\ Showroom!Init => ShowroomInv
<1> SUFFICES ASSUME ShowroomCalm, Showroom!Init PROVE ShowroomInv
  OBVIOUS
<1>1. \A t \in Tasks : at[t] = "idle" /\ my[t].op \notin ShowroomSingles
  BY ShowroomIdle DEF Showroom!Init
<1>2. Showroom!TypeOK
  BY ShowroomIdle DEF Showroom!Init, Showroom!TypeOK, Showroom!Labels, Showroom!AdRows,
     Showroom!NoAd, Showroom!Status, Showroom!Keys
<1>3. ShowroomOneBy /\ ShowroomDoing /\ PhotoUploading /\ CopiesMade /\ ShowroomSweeps /\ PublishesOpen
  BY <1>1 DEF ShowroomOneBy, ShowroomDoing, PhotoUploading, CopiesMade, ShowroomSweeps,
     PublishesOpen, OnAdvert
<1>4. ListsStored /\ StampKept /\ Showroom!RowHasObject
  BY DEF Showroom!Init, ListsStored, StampKept, Showroom!RowHasObject, Showroom!NoAd
<1> QED BY <1>2, <1>3, <1>4 DEF ShowroomInv

LEMMA ShowroomPromises == ShowroomInv => Showroom!RowHasObject /\ Showroom!StampIsCopied
<1> SUFFICES ASSUME ShowroomInv, NEW a \in Ads, ad[a].st = "ACTIVE", ad[a].claimed, ad[a].stamped
             PROVE  HasCopies(a) \/ \E t \in Tasks : at[t] = "stamp"
  BY DEF Showroom!StampIsCopied, HasCopies, ShowroomInv
<1> QED BY DEF ShowroomInv, StampKept, ShowroomSweeps

ShowroomSteps(t, label, j) ==
  /\ at' \in [Tasks -> Showroom!Labels] /\ my' \in [Tasks -> Showroom!Jobs]
  /\ \A u \in Tasks : at'[u] = (IF u = t THEN label ELSE at[u]) /\ my'[u] = (IF u = t THEN j ELSE my[u])

LEMMA ShowroomKeeping ==
  ASSUME ShowroomInv, NEW t \in Tasks, NEW label \in Showroom!Labels, NEW j \in Showroom!Jobs,
         Showroom!Keep(t, label, j)
  PROVE  ShowroomSteps(t, label, j)
BY DEF ShowroomInv, Showroom!TypeOK, Showroom!Keep, ShowroomSteps

LEMMA ShowroomEnding ==
  ASSUME ShowroomInv, NEW t \in Tasks, Showroom!End(t)
  PROVE  ShowroomSteps(t, "idle", Showroom!NoJob)
BY ShowroomIdle, ShowroomKeeping DEF Showroom!End, Showroom!Labels

LEMMA ShowroomBeginning ==
  ASSUME ShowroomCalm, ShowroomInv, NEW t \in Tasks, NEW label \in Showroom!Labels,
         NEW j \in Showroom!Jobs, Showroom!Begin(t, label, j)
  PROVE  ShowroomSteps(t, label, j) /\ at[t] = "idle" /\ ShowroomOneBy'
<1>1. ShowroomSteps(t, label, j) /\ at[t] = "idle"
  BY ShowroomKeeping DEF Showroom!Begin, Showroom!Keep
<1>2. j.op \in ShowroomSingles => \A u \in Tasks : my[u].op \notin ShowroomSingles
  BY DEF Showroom!Begin, ShowroomCalm
<1> QED BY <1>1, <1>2 DEF ShowroomSteps, ShowroomInv, ShowroomOneBy

ShowroomQuiet == {"idle", "unpublish", "sold"}
LEMMA ShowroomElsewhere ==
  ASSUME ShowroomInv, NEW t \in Tasks, at[t] \notin ShowroomQuiet
  PROVE  \A u \in Tasks : u # t => at[u] \in ShowroomQuiet /\ my[u].op \notin ShowroomSingles
BY DEF ShowroomInv, ShowroomOneBy, ShowroomDoing, ShowroomQuiet

LEMMA ShowroomSettled ==
  ASSUME ShowroomInv, UNCHANGED Showroom!vars
  PROVE  ShowroomInv'
<1>1. Showroom!TypeOK' /\ ShowroomOneBy' /\ ShowroomDoing' /\ PhotoUploading'
  BY DEF Showroom!vars, Showroom!reportState, ShowroomInv, Showroom!TypeOK, ShowroomOneBy,
     ShowroomDoing, PhotoUploading
<1>2. ListsStored' /\ StampKept' /\ CopiesMade' /\ ShowroomSweeps' /\ PublishesOpen'
      /\ Showroom!RowHasObject'
  BY DEF Showroom!vars, Showroom!reportState, ShowroomInv, ListsStored, StampKept, HasCopies,
     CopiesMade, ShowroomSweeps, PublishesOpen, Showroom!RowHasObject
<1> QED BY <1>1, <1>2 DEF ShowroomInv

\* A handler that has begun, and has read what its guard asks.
LEMMA ShowroomBegun ==
  ASSUME ShowroomCalm, ShowroomInv, NEW t \in Tasks, NEW label \in Showroom!Labels,
         NEW j \in Showroom!Jobs,
         Showroom!Begin(t, label, j), UNCHANGED <<Showroom!reportState, ad, public>>,
         label \in {"u_put", "d_object", "r_objects",
           "e_tx"} \cup (OnAdvert \ {"m_copy", "m_stamp", "x_tx", "x_sweep"}),
         label \notin ShowroomQuiet => j.op \in ShowroomSingles,
         label = "unhide" => j.op = "adminUnhide",
         label \in OnAdvert => j.ad \in Ads,
         label \in OnAdvert \ {"create"} => ad[j.ad].st # "none",
         label \in {"u_put", "d_object"} => j.key \in Showroom!Keys /\ ~removed,
         label = "u_put" => j.old[1] = j.key[1] /\ j.old[2] # j.key[2],
         label = "publish" => ~ad[j.ad].hidden
  PROVE  ShowroomInv'
<1>1. ShowroomSteps(t, label, j) /\ at[t] = "idle" /\ ShowroomOneBy'
  BY ShowroomBeginning
<1>2. UNCHANGED <<photo, store, manifest, removed, ad, public>>
  BY DEF Showroom!reportState
<1>3. Showroom!TypeOK'
  BY <1>1, <1>2 DEF ShowroomSteps, ShowroomInv, Showroom!TypeOK
<1>4. ShowroomOneBy'
  BY <1>1, <1>2 DEF ShowroomSteps, ShowroomInv, ShowroomOneBy, ShowroomSingles,
     Showroom!HandlerNames
<1>5. ShowroomDoing'
  BY <1>1, <1>2 DEF ShowroomSteps, ShowroomInv, ShowroomDoing, OnAdvert, ShowroomQuiet
<1>6. PhotoUploading'
  BY <1>1, <1>2 DEF ShowroomSteps, ShowroomInv, PhotoUploading, OnAdvert
<1>7. ListsStored'
  BY <1>1, <1>2 DEF ShowroomSteps, ShowroomInv, ListsStored, ShowroomQuiet
<1>8. StampKept'
  BY <1>1, <1>2 DEF ShowroomSteps, ShowroomInv, StampKept, HasCopies, ShowroomQuiet
<1>9. CopiesMade'
  BY <1>1, <1>2 DEF ShowroomSteps, ShowroomInv, CopiesMade, ShowroomQuiet
<1>10. ShowroomSweeps'
  BY <1>1, <1>2 DEF ShowroomSteps, ShowroomInv, ShowroomSweeps, OnAdvert
<1>11. PublishesOpen'
  BY <1>1, <1>2 DEF ShowroomSteps, ShowroomInv, PublishesOpen, ShowroomQuiet
<1>12. Showroom!RowHasObject'
  BY <1>1, <1>2 DEF ShowroomSteps, ShowroomInv, Showroom!RowHasObject, ShowroomQuiet
<1> QED BY <1>3, <1>4, <1>5, <1>6, <1>7, <1>8, <1>9, <1>10, <1>11, <1>12 DEF ShowroomInv

\* A handler that ends without more, or dies.
LEMMA ShowroomEnded ==
  ASSUME ShowroomInv, NEW t \in Tasks, Showroom!End(t), UNCHANGED <<Showroom!reportState, ad, public>>,
         at[t] \notin {"d_row", "r_rows", "manifest", "stamp", "e_sweep", "e_stamp"}
  PROVE  ShowroomInv'
<1>1. ShowroomSteps(t, "idle", Showroom!NoJob)
  BY ShowroomEnding
<1>2. UNCHANGED <<photo, store, manifest, removed, ad, public>>
  BY DEF Showroom!reportState
<1>3. Showroom!TypeOK'
  BY <1>1, <1>2, ShowroomIdle DEF ShowroomSteps, ShowroomInv, Showroom!TypeOK
<1>4. ShowroomOneBy'
  BY <1>1, <1>2, ShowroomIdle DEF ShowroomSteps, ShowroomInv, ShowroomOneBy, ShowroomSingles,
     Showroom!HandlerNames
<1>5. ShowroomDoing'
  BY <1>1, <1>2, ShowroomIdle DEF ShowroomSteps, ShowroomInv, ShowroomDoing, OnAdvert, ShowroomQuiet
<1>6. PhotoUploading'
  BY <1>1, <1>2, ShowroomIdle DEF ShowroomSteps, ShowroomInv, PhotoUploading, ShowroomQuiet
<1>7. ListsStored'
  BY <1>1, <1>2, ShowroomIdle DEF ShowroomSteps, ShowroomInv, ListsStored, ShowroomQuiet
<1>8. StampKept'
  BY <1>1, <1>2, ShowroomIdle DEF ShowroomSteps, ShowroomInv, StampKept, HasCopies, ShowroomQuiet
<1>9. CopiesMade'
  BY <1>1, <1>2, ShowroomIdle DEF ShowroomSteps, ShowroomInv, CopiesMade, ShowroomQuiet
<1>10. ShowroomSweeps'
  BY <1>1, <1>2, ShowroomIdle DEF ShowroomSteps, ShowroomInv, ShowroomSweeps, ShowroomQuiet
<1>11. PublishesOpen'
  BY <1>1, <1>2, ShowroomIdle DEF ShowroomSteps, ShowroomInv, PublishesOpen, ShowroomQuiet
<1>12. Showroom!RowHasObject'
  BY <1>1, <1>2, ShowroomIdle DEF ShowroomSteps, ShowroomInv, Showroom!RowHasObject, ShowroomQuiet
<1> QED BY <1>3, <1>4, <1>5, <1>6, <1>7, <1>8, <1>9, <1>10, <1>11, <1>12 DEF ShowroomInv

\* One column of one advert, the claim and the stamp apart.
LEMMA ShowroomStatus ==
  ASSUME ShowroomInv, NEW t \in Tasks, NEW r \in Showroom!AdRows, NEW label \in {"idle", "m_read"},
         NEW j \in Showroom!Jobs,
         at[t] \in {"unpublish", "sold", "publish", "hide", "unhide"}, Showroom!SetAd(t, r),
           Showroom!Keep(t, label, j), UNCHANGED <<Showroom!reportState, public>>,
         r.st # "none", r.claimed = Showroom!Mine(t).claimed, r.stamped = Showroom!Mine(t).stamped,
         at[t] \in ShowroomQuiet => r.st # "ACTIVE" /\ r.hidden = Showroom!Mine(t).hidden
           /\ label = "idle",
         label = "idle" => j = Showroom!NoJob,
         label = "m_read" => j = my[t]
  PROVE  ShowroomInv'
<1>1. ShowroomSteps(t, label, j)
  BY ShowroomKeeping DEF Showroom!Labels
<1>2. UNCHANGED <<photo, store, manifest, removed, public>>
  BY DEF Showroom!reportState
<1> DEFINE b == my[t].ad
<1>3. b \in Ads /\ ad \in [Ads -> Showroom!AdRows]
  BY DEF ShowroomInv, ShowroomDoing, Showroom!TypeOK, OnAdvert
<1>4. ad' \in [Ads -> Showroom!AdRows] /\ \A a \in Ads : ad'[a] = IF a = b THEN r ELSE ad[a]
  BY <1>3 DEF Showroom!SetAd
<1>5. \A a \in Ads : ad'[a].claimed = ad[a].claimed /\ ad'[a].stamped = ad[a].stamped
  BY <1>3, <1>4 DEF Showroom!Mine
<1>6. at[t] \notin ShowroomQuiet => \A u \in Tasks : u # t => at[u] \in ShowroomQuiet
  BY ShowroomElsewhere
<1>7. at[t] \notin ShowroomQuiet => my[t].op \in ShowroomSingles
  BY DEF ShowroomInv, ShowroomDoing, ShowroomQuiet
<1>8. \A u \in Tasks : /\ at[u] \in OnAdvert => my[u].ad \in Ads
                     /\ \A c \in my[u].todo : c[1] \in Ads
  <2>1. \A u \in Tasks : at[u] \in OnAdvert => my[u].ad \in Ads
    BY DEF ShowroomInv, ShowroomDoing
  <2>2. \A u \in Tasks : my[u].todo \in SUBSET (Ads \X Showroom!Keys)
    BY DEF ShowroomInv, Showroom!TypeOK, Showroom!Jobs
  <2> QED BY <2>1, <2>2
<1>9. at[t] \in ShowroomQuiet => \A a \in Ads : ad'[a].hidden = ad[a].hidden
  BY <1>3, <1>4 DEF Showroom!Mine
<1> HIDE DEF b
<1>11. Showroom!TypeOK'
  BY <1>1, <1>2, <1>3, <1>4, <1>5, <1>6, <1>7, <1>8, ShowroomIdle
     DEF ShowroomSteps, ShowroomInv, Showroom!TypeOK
<1>12. ShowroomOneBy'
  BY <1>1, <1>2, <1>3, <1>4, <1>5, <1>6, <1>7, <1>8, ShowroomIdle
     DEF ShowroomSteps, ShowroomInv, ShowroomOneBy, ShowroomSingles, Showroom!HandlerNames
<1>13. ShowroomDoing'
  BY <1>1, <1>2, <1>3, <1>4, <1>5, <1>6, <1>7, <1>8, ShowroomIdle
     DEF ShowroomSteps, ShowroomInv, ShowroomDoing, OnAdvert, ShowroomQuiet
<1>14. PhotoUploading'
  BY <1>1, <1>2, <1>3, <1>4, <1>5, <1>6, <1>7, <1>8, ShowroomIdle
     DEF ShowroomSteps, ShowroomInv, PhotoUploading, ShowroomQuiet
<1>15. ListsStored'
  BY <1>1, <1>2, <1>3, <1>4, <1>5, <1>6, <1>7, <1>8, ShowroomIdle
     DEF ShowroomSteps, ShowroomInv, ListsStored, ShowroomQuiet
<1>16. StampKept'
  BY <1>1, <1>2, <1>3, <1>4, <1>5, <1>6, <1>7, <1>8, ShowroomIdle
     DEF ShowroomSteps, ShowroomInv, StampKept, HasCopies, ShowroomQuiet
<1>17. CopiesMade'
  BY <1>1, <1>2, <1>3, <1>4, <1>5, <1>6, <1>7, <1>8, ShowroomIdle
     DEF ShowroomSteps, ShowroomInv, CopiesMade, OnAdvert, ShowroomQuiet
<1>18. ShowroomSweeps'
  BY <1>1, <1>2, <1>3, <1>4, <1>5, <1>6, <1>7, <1>8, ShowroomIdle
     DEF ShowroomSteps, ShowroomInv, ShowroomSweeps, OnAdvert, ShowroomQuiet
<1>19. PublishesOpen'
  BY <1>1, <1>2, <1>3, <1>4, <1>5, <1>6, <1>7, <1>8, <1>9 DEF ShowroomSteps, ShowroomInv,
     PublishesOpen, OnAdvert, ShowroomQuiet
<1>20. Showroom!RowHasObject'
  BY <1>1, <1>2, <1>3, <1>4, <1>5, <1>6, <1>7, <1>8, ShowroomIdle
     DEF ShowroomSteps, ShowroomInv, Showroom!RowHasObject, ShowroomQuiet
<1> QED BY <1>11, <1>12, <1>13, <1>14, <1>15, <1>16, <1>17, <1>18, <1>19, <1>20 DEF ShowroomInv

-----------------------------------------------------------------------------
\* A photo is uploaded: the object, the row, the old object, the manifest, the stamp.
LEMMA ShowroomUploadPut ==
  ASSUME ShowroomCalm, ShowroomInv, NEW t \in Tasks, Showroom!UploadPut(t)
  PROVE  ShowroomInv'
<1>1. CASE Showroom!End(t) /\ UNCHANGED store
  BY <1>1, ShowroomEnded DEF Showroom!UploadPut, Showroom!reportState
<1>2. CASE store' = store \cup {Showroom!Key(t)} /\ Showroom!Go(t, "u_row")
  <2>1. ShowroomSteps(t, "u_row", my[t])
    BY <1>2, ShowroomKeeping DEF Showroom!Go, Showroom!Labels, ShowroomInv, Showroom!TypeOK
  <2>2. at[t] = "u_put" /\ UNCHANGED <<photo, manifest, removed, ad, public>>
        /\ store' = store \cup {my[t].key}
    BY <1>2 DEF Showroom!UploadPut, Showroom!Key
  <2>3. my[t].key \in Showroom!Keys /\ ~removed
    BY <2>2 DEF ShowroomInv, PhotoUploading
  <2>4. \A u \in Tasks : u # t => at[u] \in ShowroomQuiet
    BY <2>2, ShowroomElsewhere DEF ShowroomQuiet
  <2>5. manifest \subseteq store
    BY <2>2, <2>3, <2>4 DEF ShowroomQuiet, ShowroomInv, ListsStored
  <2>6. Showroom!TypeOK'
    BY <2>1, <2>2, <2>3, <2>4, <2>5 DEF ShowroomSteps, ShowroomInv, Showroom!TypeOK
  <2>7. ShowroomOneBy'
    BY <2>1, <2>2, <2>3, <2>4, <2>5 DEF ShowroomSteps, ShowroomInv, ShowroomOneBy,
       ShowroomSingles, Showroom!HandlerNames
  <2>8. ShowroomDoing'
    BY <2>1, <2>2, <2>3, <2>4, <2>5 DEF ShowroomSteps, ShowroomInv, ShowroomDoing, OnAdvert,
       ShowroomQuiet
  <2>9. PhotoUploading'
    BY <2>1, <2>2, <2>3, <2>4, <2>5 DEF ShowroomSteps, ShowroomInv, PhotoUploading, ShowroomQuiet
  <2>10. ListsStored'
    BY <2>1, <2>2, <2>3, <2>4, <2>5 DEF ShowroomSteps, ShowroomInv, ListsStored, ShowroomQuiet
  <2>11. StampKept'
    BY <2>1, <2>2, <2>3, <2>4, <2>5 DEF ShowroomSteps, ShowroomInv, StampKept, HasCopies,
       ShowroomQuiet
  <2>12. CopiesMade'
    BY <2>1, <2>2, <2>3, <2>4, <2>5 DEF ShowroomSteps, ShowroomInv, CopiesMade, ShowroomQuiet
  <2>13. ShowroomSweeps'
    BY <2>1, <2>2, <2>3, <2>4, <2>5 DEF ShowroomSteps, ShowroomInv, ShowroomSweeps, ShowroomQuiet
  <2>14. PublishesOpen'
    BY <2>1, <2>2, <2>3, <2>4, <2>5 DEF ShowroomSteps, ShowroomInv, PublishesOpen, ShowroomQuiet
  <2>15. Showroom!RowHasObject'
    BY <2>1, <2>2, <2>3, <2>4, <2>5 DEF ShowroomSteps, ShowroomInv, Showroom!RowHasObject,
       ShowroomQuiet
  <2> QED BY <2>6, <2>7, <2>8, <2>9, <2>10, <2>11, <2>12, <2>13, <2>14, <2>15 DEF ShowroomInv
<1> QED BY <1>1, <1>2 DEF Showroom!UploadPut

LEMMA ShowroomUploadRow ==
  ASSUME ShowroomCalm, ShowroomInv, NEW t \in Tasks, Showroom!UploadRow(t)
  PROVE  ShowroomInv'
<1> DEFINE next == IF my[t].old[2] = NoShot THEN "manifest" ELSE "u_drop"
<1> DEFINE k == my[t].key
<1>1. ShowroomSteps(t, next, my[t])
  BY ShowroomKeeping DEF Showroom!UploadRow, Showroom!Go, Showroom!Labels, ShowroomInv,
     Showroom!TypeOK
<1>2. at[t] = "u_row" /\ UNCHANGED <<store, manifest, removed, ad, public>>
      /\ photo' = [photo EXCEPT ![k[1]] = k[2]]
  BY DEF Showroom!UploadRow, Showroom!Key
<1>3. k \in Showroom!Keys /\ ~removed /\ k \in store /\ my[t].old[1] = k[1] /\ my[t].old[2] # k[2]
  BY <1>2 DEF ShowroomInv, PhotoUploading
<1>4. \A u \in Tasks : u # t => at[u] \in ShowroomQuiet
  BY <1>2, ShowroomElsewhere DEF ShowroomQuiet
<1>5. photo' \in [Slots -> Shots \cup {NoShot}] /\ \A s \in Slots : photo'[s] = IF s = k[1] THEN k[2]
      ELSE photo[s]
  BY <1>2, <1>3 DEF Showroom!Keys, ShowroomInv, Showroom!TypeOK
<1>6. k[1] \in Slots /\ k[2] \in Shots /\ k = <<k[1], k[2]>>
  BY <1>3 DEF Showroom!Keys
<1>7. next \in {"manifest", "u_drop"}
  OBVIOUS
<1> HIDE DEF next, k
<1>8. Showroom!TypeOK'
  BY <1>1, <1>2, <1>3, <1>4, <1>5, <1>6, <1>7 DEF ShowroomSteps, ShowroomInv, Showroom!TypeOK
<1>9. ShowroomOneBy'
  BY <1>1, <1>2, <1>3, <1>4, <1>5, <1>6, <1>7 DEF ShowroomSteps, ShowroomInv, ShowroomOneBy,
     ShowroomSingles, Showroom!HandlerNames
<1>10. ShowroomDoing'
  BY <1>1, <1>2, <1>3, <1>4, <1>5, <1>6, <1>7 DEF ShowroomSteps, ShowroomInv, ShowroomDoing,
     OnAdvert, ShowroomQuiet
<1>11. PhotoUploading'
  BY <1>1, <1>2, <1>3, <1>4, <1>5, <1>6, <1>7 DEF ShowroomSteps, ShowroomInv, PhotoUploading,
     ShowroomQuiet, k
<1>12. ListsStored'
  BY <1>1, <1>2, <1>3, <1>4, <1>5, <1>6, <1>7 DEF ShowroomSteps, ShowroomInv, ListsStored,
     ShowroomQuiet
<1>13. StampKept'
  BY <1>1, <1>2, <1>3, <1>4, <1>5, <1>6, <1>7 DEF ShowroomSteps, ShowroomInv, StampKept,
     HasCopies, ShowroomQuiet
<1>14. CopiesMade'
  BY <1>1, <1>2, <1>3, <1>4, <1>5, <1>6, <1>7 DEF ShowroomSteps, ShowroomInv, CopiesMade,
     ShowroomQuiet
<1>15. ShowroomSweeps'
  BY <1>1, <1>2, <1>3, <1>4, <1>5, <1>6, <1>7 DEF ShowroomSteps, ShowroomInv, ShowroomSweeps,
     ShowroomQuiet
<1>16. PublishesOpen'
  BY <1>1, <1>2, <1>3, <1>4, <1>5, <1>6, <1>7 DEF ShowroomSteps, ShowroomInv, PublishesOpen,
     ShowroomQuiet
<1>17. Showroom!RowHasObject'
  BY <1>1, <1>2, <1>3, <1>4, <1>5, <1>6, <1>7 DEF ShowroomSteps, ShowroomInv,
     Showroom!RowHasObject, ShowroomQuiet
<1> QED BY <1>8, <1>9, <1>10, <1>11, <1>12, <1>13, <1>14, <1>15, <1>16, <1>17 DEF ShowroomInv

LEMMA ShowroomUploadDrop ==
  ASSUME ShowroomCalm, ShowroomInv, NEW t \in Tasks, Showroom!UploadDrop(t)
  PROVE  ShowroomInv'
<1> DEFINE k == my[t].key
<1>1. ShowroomSteps(t, "manifest", my[t])
  BY ShowroomKeeping DEF Showroom!UploadDrop, Showroom!Go, Showroom!Labels, ShowroomInv,
     Showroom!TypeOK
<1>2. at[t] = "u_drop" /\ UNCHANGED <<photo, manifest, removed, ad, public>>
  BY DEF Showroom!UploadDrop
<1>3. k \in Showroom!Keys /\ ~removed /\ photo[k[1]] = k[2] /\ my[t].old[1] = k[1]
      /\ my[t].old[2] # k[2]
  BY <1>2 DEF ShowroomInv, PhotoUploading
<1>4. \A u \in Tasks : u # t => at[u] \in ShowroomQuiet
  BY <1>2, ShowroomElsewhere DEF ShowroomQuiet
<1>5. store' \subseteq store /\ \A c \in store : c = my[t].old \/ c \in store'
  BY DEF Showroom!UploadDrop, Showroom!Without
<1>6. \A s \in Slots : <<s, photo[s]>> # my[t].old
  BY <1>3
<1> HIDE DEF k
<1>7. Showroom!TypeOK'
  BY <1>1, <1>2, <1>3, <1>4, <1>5, <1>6 DEF ShowroomSteps, ShowroomInv, Showroom!TypeOK
<1>8. ShowroomOneBy'
  BY <1>1, <1>2, <1>3, <1>4, <1>5, <1>6 DEF ShowroomSteps, ShowroomInv, ShowroomOneBy,
     ShowroomSingles, Showroom!HandlerNames
<1>9. ShowroomDoing'
  BY <1>1, <1>2, <1>3, <1>4, <1>5, <1>6 DEF ShowroomSteps, ShowroomInv, ShowroomDoing, OnAdvert,
     ShowroomQuiet
<1>10. PhotoUploading'
  BY <1>1, <1>2, <1>3, <1>4, <1>5, <1>6 DEF ShowroomSteps, ShowroomInv, PhotoUploading,
     ShowroomQuiet
<1>11. ListsStored'
  BY <1>1, <1>2, <1>3, <1>4, <1>5, <1>6 DEF ShowroomSteps, ShowroomInv, ListsStored, ShowroomQuiet
<1>12. StampKept'
  BY <1>1, <1>2, <1>3, <1>4, <1>5, <1>6 DEF ShowroomSteps, ShowroomInv, StampKept, HasCopies,
     ShowroomQuiet
<1>13. CopiesMade'
  BY <1>1, <1>2, <1>3, <1>4, <1>5, <1>6 DEF ShowroomSteps, ShowroomInv, CopiesMade, ShowroomQuiet
<1>14. ShowroomSweeps'
  BY <1>1, <1>2, <1>3, <1>4, <1>5, <1>6 DEF ShowroomSteps, ShowroomInv, ShowroomSweeps,
     ShowroomQuiet
<1>15. PublishesOpen'
  BY <1>1, <1>2, <1>3, <1>4, <1>5, <1>6 DEF ShowroomSteps, ShowroomInv, PublishesOpen, ShowroomQuiet
<1>16. Showroom!RowHasObject'
  BY <1>1, <1>2, <1>3, <1>4, <1>5, <1>6 DEF ShowroomSteps, ShowroomInv, Showroom!RowHasObject,
     ShowroomQuiet
<1> QED BY <1>7, <1>8, <1>9, <1>10, <1>11, <1>12, <1>13, <1>14, <1>15, <1>16 DEF ShowroomInv

LEMMA ShowroomWriteManifest ==
  ASSUME ShowroomCalm, ShowroomInv, NEW t \in Tasks, Showroom!WriteManifest(t)
  PROVE  ShowroomInv'
<1>1. ShowroomSteps(t, "stamp", my[t])
  BY ShowroomKeeping DEF Showroom!WriteManifest, Showroom!Go, Showroom!Labels, ShowroomInv,
     Showroom!TypeOK
<1>2. at[t] = "manifest" /\ UNCHANGED <<photo, store, removed, ad, public>>
  BY DEF Showroom!WriteManifest
<1>3. ~removed
  BY <1>2 DEF ShowroomInv, PhotoUploading
<1>4. \A u \in Tasks : u # t => at[u] \in ShowroomQuiet
  BY <1>2, ShowroomElsewhere DEF ShowroomQuiet
<1>5. manifest' = {k \in Showroom!Keys : photo[k[1]] = k[2]}
  BY DEF Showroom!WriteManifest
<1>6. \A s \in Slots : photo[s] # NoShot => <<s, photo[s]>> \in store
  BY <1>2, <1>3, <1>4 DEF ShowroomInv, Showroom!RowHasObject, ShowroomQuiet
<1>7. manifest' \subseteq Showroom!Keys /\ manifest' \subseteq store
  <2>1. SUFFICES ASSUME NEW k \in Showroom!Keys, photo[k[1]] = k[2] PROVE k \in store
    BY <1>5
  <2>2. k[1] \in Slots /\ k[2] \in Shots /\ k = <<k[1], k[2]>>
    BY DEF Showroom!Keys
  <2> QED BY <1>6, <2>1, <2>2 DEF ShowroomCalm
<1>8. Showroom!TypeOK'
  BY <1>1, <1>2, <1>3, <1>4, <1>7 DEF ShowroomSteps, ShowroomInv, Showroom!TypeOK
<1>9. ShowroomOneBy'
  BY <1>1, <1>2, <1>3, <1>4, <1>7 DEF ShowroomSteps, ShowroomInv, ShowroomOneBy, ShowroomSingles,
     Showroom!HandlerNames
<1>10. ShowroomDoing'
  BY <1>1, <1>2, <1>3, <1>4, <1>7 DEF ShowroomSteps, ShowroomInv, ShowroomDoing, OnAdvert,
     ShowroomQuiet
<1>11. PhotoUploading'
  BY <1>1, <1>2, <1>3, <1>4, <1>7 DEF ShowroomSteps, ShowroomInv, PhotoUploading, ShowroomQuiet
<1>12. ListsStored'
  BY <1>1, <1>2, <1>3, <1>4, <1>7 DEF ShowroomSteps, ShowroomInv, ListsStored, ShowroomQuiet
<1>13. StampKept'
  BY <1>1, <1>2, <1>3, <1>4, <1>7 DEF ShowroomSteps, ShowroomInv, StampKept, HasCopies,
     ShowroomQuiet
<1>14. CopiesMade'
  BY <1>1, <1>2, <1>3, <1>4, <1>7 DEF ShowroomSteps, ShowroomInv, CopiesMade, ShowroomQuiet
<1>15. ShowroomSweeps'
  BY <1>1, <1>2, <1>3, <1>4, <1>7 DEF ShowroomSteps, ShowroomInv, ShowroomSweeps, ShowroomQuiet
<1>16. PublishesOpen'
  BY <1>1, <1>2, <1>3, <1>4, <1>7 DEF ShowroomSteps, ShowroomInv, PublishesOpen, ShowroomQuiet
<1>17. Showroom!RowHasObject'
  BY <1>1, <1>2, <1>3, <1>4, <1>7 DEF ShowroomSteps, ShowroomInv, Showroom!RowHasObject,
     ShowroomQuiet
<1> QED BY <1>8, <1>9, <1>10, <1>11, <1>12, <1>13, <1>14, <1>15, <1>16, <1>17 DEF ShowroomInv

LEMMA ShowroomClearStamp ==
  ASSUME ShowroomCalm, ShowroomInv, NEW t \in Tasks, Showroom!ClearStamp(t)
  PROVE  ShowroomInv'
<1>1. ShowroomSteps(t, "idle", Showroom!NoJob)
  BY ShowroomEnding DEF Showroom!ClearStamp
<1>2. at[t] = "stamp" /\ UNCHANGED <<photo, store, manifest, removed, public>>
  BY DEF Showroom!ClearStamp, Showroom!reportState
<1>3. /\ ad' \in [Ads -> Showroom!AdRows]
      /\ \A a \in Ads : /\ ad'[a].st = ad[a].st /\ ad'[a].claimed = ad[a].claimed
                           /\ ad'[a].hidden = ad[a].hidden
                        /\ ~(ad'[a].claimed /\ ad'[a].stamped)
  <2>1. ad \in [Ads -> Showroom!AdRows]
    BY DEF ShowroomInv, Showroom!TypeOK
  <2>2. ad' = [a \in Ads |-> IF ad[a].claimed THEN [ad[a] EXCEPT !.stamped = FALSE] ELSE ad[a]]
    BY DEF Showroom!ClearStamp
  <2>3. \A a \in Ads : [ad[a] EXCEPT !.stamped = FALSE] \in Showroom!AdRows
    BY <2>1 DEF Showroom!AdRows
  <2> QED BY <2>1, <2>2, <2>3 DEF Showroom!AdRows
<1>4. \A u \in Tasks : u # t => at[u] \in ShowroomQuiet
  BY <1>2, ShowroomElsewhere DEF ShowroomQuiet
<1>5. \A u \in Tasks : at[u] \in OnAdvert => my[u].ad \in Ads
  BY DEF ShowroomInv, ShowroomDoing
<1>6. "stamp" \notin OnAdvert /\ {"unpublish", "sold"} \subseteq OnAdvert
  BY DEF OnAdvert
<1>7. Showroom!TypeOK'
  BY <1>1, <1>2, <1>3, <1>4, <1>5, <1>6, ShowroomIdle DEF ShowroomSteps, ShowroomInv,
     Showroom!TypeOK
<1>8. ShowroomOneBy'
  BY <1>1, <1>2, <1>3, <1>4, <1>5, <1>6, ShowroomIdle DEF ShowroomSteps, ShowroomInv,
     ShowroomOneBy, ShowroomSingles, Showroom!HandlerNames
<1>9. ShowroomDoing'
  BY <1>1, <1>2, <1>3, <1>4, <1>5, <1>6, ShowroomIdle DEF ShowroomSteps, ShowroomInv,
     ShowroomDoing, OnAdvert, ShowroomQuiet
<1>10. PhotoUploading'
  BY <1>1, <1>2, <1>3, <1>4, <1>5, <1>6, ShowroomIdle DEF ShowroomSteps, ShowroomInv,
     PhotoUploading, ShowroomQuiet
<1>11. ListsStored'
  BY <1>1, <1>2, <1>3, <1>4, <1>5, <1>6, ShowroomIdle DEF ShowroomSteps, ShowroomInv, ListsStored,
     ShowroomQuiet
<1>12. StampKept'
  BY <1>1, <1>2, <1>3, <1>4, <1>5, <1>6, ShowroomIdle DEF ShowroomSteps, ShowroomInv, StampKept,
     HasCopies, ShowroomQuiet
<1>13. CopiesMade'
  BY <1>1, <1>2, <1>3, <1>4, <1>5, <1>6, ShowroomIdle DEF ShowroomSteps, ShowroomInv, CopiesMade,
     ShowroomQuiet
<1>14. ShowroomSweeps'
  BY <1>1, <1>2, <1>3, <1>4, <1>5, <1>6, ShowroomIdle DEF ShowroomSteps, ShowroomInv,
     ShowroomSweeps, ShowroomQuiet
<1>15. PublishesOpen'
  BY <1>1, <1>2, <1>3, <1>4, <1>5, <1>6, ShowroomIdle DEF ShowroomSteps, ShowroomInv,
     PublishesOpen, ShowroomQuiet
<1>16. Showroom!RowHasObject'
  BY <1>1, <1>2, <1>3, <1>4, <1>5, <1>6, ShowroomIdle DEF ShowroomSteps, ShowroomInv,
     Showroom!RowHasObject, ShowroomQuiet
<1> QED BY <1>7, <1>8, <1>9, <1>10, <1>11, <1>12, <1>13, <1>14, <1>15, <1>16 DEF ShowroomInv

LEMMA ShowroomDeleteObject ==
  ASSUME ShowroomCalm, ShowroomInv, NEW t \in Tasks, Showroom!DeleteObject(t)
  PROVE  ShowroomInv'
<1>1. CASE Showroom!End(t) /\ UNCHANGED store
  BY <1>1, ShowroomEnded DEF Showroom!DeleteObject, Showroom!reportState
<1>2. CASE store' = store \ {Showroom!Key(t)} /\ Showroom!Go(t, "d_row")
  <2>1. ShowroomSteps(t, "d_row", my[t])
    BY <1>2, ShowroomKeeping DEF Showroom!Go, Showroom!Labels, ShowroomInv, Showroom!TypeOK
  <2>2. at[t] = "d_object" /\ UNCHANGED <<photo, manifest, removed, ad, public>>
        /\ store' = store \ {my[t].key}
    BY <1>2 DEF Showroom!DeleteObject, Showroom!Key
  <2>3. my[t].key \in Showroom!Keys /\ ~removed
    BY <2>2 DEF ShowroomInv, PhotoUploading
  <2>4. \A u \in Tasks : u # t => at[u] \in ShowroomQuiet
    BY <2>2, ShowroomElsewhere DEF ShowroomQuiet
  <2>5. \A s \in Slots : s # my[t].key[1] /\ photo[s] # NoShot => <<s, photo[s]>> \in store'
    BY <2>2, <2>3, <2>4 DEF ShowroomQuiet, ShowroomInv, Showroom!RowHasObject
  <2>6. Showroom!TypeOK'
    BY <2>1, <2>2, <2>3, <2>4, <2>5 DEF ShowroomSteps, ShowroomInv, Showroom!TypeOK
  <2>7. ShowroomOneBy'
    BY <2>1, <2>2, <2>3, <2>4, <2>5 DEF ShowroomSteps, ShowroomInv, ShowroomOneBy,
       ShowroomSingles, Showroom!HandlerNames
  <2>8. ShowroomDoing'
    BY <2>1, <2>2, <2>3, <2>4, <2>5 DEF ShowroomSteps, ShowroomInv, ShowroomDoing, OnAdvert,
       ShowroomQuiet
  <2>9. PhotoUploading'
    BY <2>1, <2>2, <2>3, <2>4, <2>5 DEF ShowroomSteps, ShowroomInv, PhotoUploading, ShowroomQuiet
  <2>10. ListsStored'
    BY <2>1, <2>2, <2>3, <2>4, <2>5 DEF ShowroomSteps, ShowroomInv, ListsStored, ShowroomQuiet
  <2>11. StampKept'
    BY <2>1, <2>2, <2>3, <2>4, <2>5 DEF ShowroomSteps, ShowroomInv, StampKept, HasCopies,
       ShowroomQuiet
  <2>12. CopiesMade'
    BY <2>1, <2>2, <2>3, <2>4, <2>5 DEF ShowroomSteps, ShowroomInv, CopiesMade, ShowroomQuiet
  <2>13. ShowroomSweeps'
    BY <2>1, <2>2, <2>3, <2>4, <2>5 DEF ShowroomSteps, ShowroomInv, ShowroomSweeps, ShowroomQuiet
  <2>14. PublishesOpen'
    BY <2>1, <2>2, <2>3, <2>4, <2>5 DEF ShowroomSteps, ShowroomInv, PublishesOpen, ShowroomQuiet
  <2>15. Showroom!RowHasObject'
    BY <2>1, <2>2, <2>3, <2>4, <2>5 DEF ShowroomSteps, ShowroomInv, Showroom!RowHasObject,
       ShowroomQuiet
  <2> QED BY <2>6, <2>7, <2>8, <2>9, <2>10, <2>11, <2>12, <2>13, <2>14, <2>15 DEF ShowroomInv
<1> QED BY <1>1, <1>2 DEF Showroom!DeleteObject

LEMMA ShowroomDeleteRow ==
  ASSUME ShowroomCalm, ShowroomInv, NEW t \in Tasks, Showroom!DeleteRow(t)
  PROVE  ShowroomInv'
<1>1. ShowroomSteps(t, "manifest", my[t])
  BY ShowroomKeeping DEF Showroom!DeleteRow, Showroom!Go, Showroom!Labels, ShowroomInv,
     Showroom!TypeOK
<1>2. at[t] = "d_row" /\ UNCHANGED <<store, manifest, removed, ad, public>>
      /\ photo' = [photo EXCEPT ![my[t].key[1]] = NoShot]
  BY DEF Showroom!DeleteRow, Showroom!Key
<1>3. /\ my[t].key \in Showroom!Keys /\ ~removed
      /\ \A s \in Slots : s # my[t].key[1] /\ photo[s] # NoShot => <<s, photo[s]>> \in store
  BY <1>2 DEF ShowroomInv, PhotoUploading
<1>4. \A u \in Tasks : u # t => at[u] \in ShowroomQuiet
  BY <1>2, ShowroomElsewhere DEF ShowroomQuiet
<1>5. /\ photo' \in [Slots -> Shots \cup {NoShot}]
      /\ \A s \in Slots : photo'[s] = IF s = my[t].key[1] THEN NoShot ELSE photo[s]
  BY <1>2, <1>3 DEF Showroom!Keys, ShowroomInv, Showroom!TypeOK
<1>6. Showroom!TypeOK'
  BY <1>1, <1>2, <1>3, <1>4, <1>5 DEF ShowroomSteps, ShowroomInv, Showroom!TypeOK
<1>7. ShowroomOneBy'
  BY <1>1, <1>2, <1>3, <1>4, <1>5 DEF ShowroomSteps, ShowroomInv, ShowroomOneBy, ShowroomSingles,
     Showroom!HandlerNames
<1>8. ShowroomDoing'
  BY <1>1, <1>2, <1>3, <1>4, <1>5 DEF ShowroomSteps, ShowroomInv, ShowroomDoing, OnAdvert,
     ShowroomQuiet
<1>9. PhotoUploading'
  BY <1>1, <1>2, <1>3, <1>4, <1>5 DEF ShowroomSteps, ShowroomInv, PhotoUploading, ShowroomQuiet
<1>10. ListsStored'
  BY <1>1, <1>2, <1>3, <1>4, <1>5 DEF ShowroomSteps, ShowroomInv, ListsStored, ShowroomQuiet
<1>11. StampKept'
  BY <1>1, <1>2, <1>3, <1>4, <1>5 DEF ShowroomSteps, ShowroomInv, StampKept, HasCopies,
     ShowroomQuiet
<1>12. CopiesMade'
  BY <1>1, <1>2, <1>3, <1>4, <1>5 DEF ShowroomSteps, ShowroomInv, CopiesMade, ShowroomQuiet
<1>13. ShowroomSweeps'
  BY <1>1, <1>2, <1>3, <1>4, <1>5 DEF ShowroomSteps, ShowroomInv, ShowroomSweeps, ShowroomQuiet
<1>14. PublishesOpen'
  BY <1>1, <1>2, <1>3, <1>4, <1>5 DEF ShowroomSteps, ShowroomInv, PublishesOpen, ShowroomQuiet
<1>15. Showroom!RowHasObject'
  BY <1>1, <1>2, <1>3, <1>4, <1>5 DEF ShowroomSteps, ShowroomInv, Showroom!RowHasObject,
     ShowroomQuiet
<1> QED BY <1>6, <1>7, <1>8, <1>9, <1>10, <1>11, <1>12, <1>13, <1>14, <1>15 DEF ShowroomInv

LEMMA ShowroomRemoveObjects ==
  ASSUME ShowroomCalm, ShowroomInv, NEW t \in Tasks, Showroom!RemoveObjects(t)
  PROVE  ShowroomInv'
<1>1. CASE Showroom!End(t) /\ UNCHANGED store
  BY <1>1, ShowroomEnded DEF Showroom!RemoveObjects, Showroom!reportState
<1>2. CASE store' = {} /\ Showroom!Go(t, "r_rows")
  <2>1. ShowroomSteps(t, "r_rows", my[t])
    BY <1>2, ShowroomKeeping DEF Showroom!Go, Showroom!Labels, ShowroomInv, Showroom!TypeOK
  <2>2. at[t] = "r_objects" /\ UNCHANGED <<photo, manifest, removed, ad, public>> /\ store' = {}
    BY <1>2 DEF Showroom!RemoveObjects
  <2>3. \A u \in Tasks : u # t => at[u] \in ShowroomQuiet
    BY <2>2, ShowroomElsewhere DEF ShowroomQuiet
  <2>4. Showroom!TypeOK'
    BY <2>1, <2>2, <2>3 DEF ShowroomSteps, ShowroomInv, Showroom!TypeOK
  <2>5. ShowroomOneBy'
    BY <2>1, <2>2, <2>3 DEF ShowroomSteps, ShowroomInv, ShowroomOneBy, ShowroomSingles,
       Showroom!HandlerNames
  <2>6. ShowroomDoing'
    BY <2>1, <2>2, <2>3 DEF ShowroomSteps, ShowroomInv, ShowroomDoing, OnAdvert, ShowroomQuiet
  <2>7. PhotoUploading'
    BY <2>1, <2>2, <2>3 DEF ShowroomSteps, ShowroomInv, PhotoUploading, ShowroomQuiet
  <2>8. ListsStored'
    BY <2>1, <2>2, <2>3 DEF ShowroomSteps, ShowroomInv, ListsStored, ShowroomQuiet
  <2>9. StampKept'
    BY <2>1, <2>2, <2>3 DEF ShowroomSteps, ShowroomInv, StampKept, HasCopies, ShowroomQuiet
  <2>10. CopiesMade'
    BY <2>1, <2>2, <2>3 DEF ShowroomSteps, ShowroomInv, CopiesMade, ShowroomQuiet
  <2>11. ShowroomSweeps'
    BY <2>1, <2>2, <2>3 DEF ShowroomSteps, ShowroomInv, ShowroomSweeps, ShowroomQuiet
  <2>12. PublishesOpen'
    BY <2>1, <2>2, <2>3 DEF ShowroomSteps, ShowroomInv, PublishesOpen, ShowroomQuiet
  <2>13. Showroom!RowHasObject'
    BY <2>1, <2>2, <2>3 DEF ShowroomSteps, ShowroomInv, Showroom!RowHasObject, ShowroomQuiet
  <2> QED BY <2>4, <2>5, <2>6, <2>7, <2>8, <2>9, <2>10, <2>11, <2>12, <2>13 DEF ShowroomInv
<1> QED BY <1>1, <1>2 DEF Showroom!RemoveObjects

LEMMA ShowroomRemoveRows ==
  ASSUME ShowroomCalm, ShowroomInv, NEW t \in Tasks, Showroom!RemoveRows(t)
  PROVE  ShowroomInv'
<1>1. ShowroomSteps(t, "idle", Showroom!NoJob)
  BY ShowroomEnding DEF Showroom!RemoveRows
<1>2. at[t] = "r_rows" /\ UNCHANGED <<store, manifest, ad, public>> /\ removed' = TRUE
      /\ photo' = [s \in Slots |-> NoShot]
  BY DEF Showroom!RemoveRows
<1>3. \A u \in Tasks : u # t => at[u] \in ShowroomQuiet
  BY <1>2, ShowroomElsewhere DEF ShowroomQuiet
<1>4. Showroom!TypeOK'
  BY <1>1, <1>2, <1>3, ShowroomIdle DEF ShowroomSteps, ShowroomInv, Showroom!TypeOK
<1>5. ShowroomOneBy'
  BY <1>1, <1>2, <1>3, ShowroomIdle DEF ShowroomSteps, ShowroomInv, ShowroomOneBy,
     ShowroomSingles, Showroom!HandlerNames
<1>6. ShowroomDoing'
  BY <1>1, <1>2, <1>3, ShowroomIdle DEF ShowroomSteps, ShowroomInv, ShowroomDoing, OnAdvert,
     ShowroomQuiet
<1>7. PhotoUploading'
  BY <1>1, <1>2, <1>3, ShowroomIdle DEF ShowroomSteps, ShowroomInv, PhotoUploading, ShowroomQuiet
<1>8. ListsStored'
  BY <1>1, <1>2, <1>3, ShowroomIdle DEF ShowroomSteps, ShowroomInv, ListsStored, ShowroomQuiet
<1>9. StampKept'
  BY <1>1, <1>2, <1>3, ShowroomIdle DEF ShowroomSteps, ShowroomInv, StampKept, HasCopies,
     ShowroomQuiet
<1>10. CopiesMade'
  BY <1>1, <1>2, <1>3, ShowroomIdle DEF ShowroomSteps, ShowroomInv, CopiesMade, ShowroomQuiet
<1>11. ShowroomSweeps'
  BY <1>1, <1>2, <1>3, ShowroomIdle DEF ShowroomSteps, ShowroomInv, ShowroomSweeps, ShowroomQuiet
<1>12. PublishesOpen'
  BY <1>1, <1>2, <1>3, ShowroomIdle DEF ShowroomSteps, ShowroomInv, PublishesOpen, ShowroomQuiet
<1>13. Showroom!RowHasObject'
  BY <1>1, <1>2, <1>3, ShowroomIdle DEF ShowroomSteps, ShowroomInv, Showroom!RowHasObject,
     ShowroomQuiet
<1> QED BY <1>4, <1>5, <1>6, <1>7, <1>8, <1>9, <1>10, <1>11, <1>12, <1>13 DEF ShowroomInv

-----------------------------------------------------------------------------
\* The claim of an advert that is not there yet: nothing of it is copied.
LEMMA ShowroomCreateRow ==
  ASSUME ShowroomCalm, ShowroomInv, NEW t \in Tasks, Showroom!CreateRow(t)
  PROVE  ShowroomInv'
<1>1. CASE UNCHANGED ad
  BY <1>1, ShowroomEnded DEF Showroom!CreateRow
<1>2. CASE Showroom!SetAd(t, [Showroom!NoAd EXCEPT !.st = "DRAFT", !.claimed = TRUE])
  <2>1. ShowroomSteps(t, "idle", Showroom!NoJob)
    BY ShowroomEnding DEF Showroom!CreateRow
  <2>2. at[t] = "create" /\ UNCHANGED <<photo, store, manifest, removed, public>>
        /\ ad[my[t].ad].st = "none"
    BY DEF Showroom!CreateRow, Showroom!reportState, Showroom!Exists
  <2>3. \A u \in Tasks : u # t => at[u] \in ShowroomQuiet
    BY <2>2, ShowroomElsewhere DEF ShowroomQuiet
  <2>4. ad \in [Ads -> Showroom!AdRows] /\ my[t].ad \in Ads
    BY <2>2 DEF ShowroomInv, Showroom!TypeOK, ShowroomDoing, OnAdvert
  <2> DEFINE r == [Showroom!NoAd EXCEPT !.st = "DRAFT", !.claimed = TRUE]
  <2>5. r \in Showroom!AdRows /\ r.st = "DRAFT" /\ r.claimed /\ ~r.stamped /\ ~r.hidden
    BY DEF Showroom!NoAd, Showroom!AdRows, Showroom!Status
  <2>6. ad' \in [Ads -> Showroom!AdRows] /\ \A a \in Ads : ad'[a] = IF a = my[t].ad THEN r ELSE ad[a]
    BY <1>2, <2>4, <2>5 DEF Showroom!SetAd
  <2> HIDE DEF r
  <2>7. \A u \in Tasks : at[u] \in OnAdvert => my[u].ad \in Ads
    BY DEF ShowroomInv, ShowroomDoing
  <2>8. "create" \in OnAdvert /\ {"unpublish", "sold"} \subseteq OnAdvert
    BY DEF OnAdvert
  <2>9. Showroom!TypeOK'
    BY <2>1, <2>2, <2>3, <2>4, <2>5, <2>6, <2>7, <2>8, ShowroomIdle
       DEF ShowroomSteps, ShowroomInv, Showroom!TypeOK
  <2>10. ShowroomOneBy'
    BY <2>1, <2>2, <2>3, <2>4, <2>5, <2>6, <2>7, <2>8, ShowroomIdle
       DEF ShowroomSteps, ShowroomInv, ShowroomOneBy, ShowroomSingles, Showroom!HandlerNames
  <2>11. ShowroomDoing'
    BY <2>1, <2>2, <2>3, <2>4, <2>5, <2>6, <2>7, <2>8, ShowroomIdle
       DEF ShowroomSteps, ShowroomInv, ShowroomDoing, OnAdvert, ShowroomQuiet
  <2>12. PhotoUploading'
    BY <2>1, <2>2, <2>3, <2>4, <2>5, <2>6, <2>7, <2>8, ShowroomIdle
       DEF ShowroomSteps, ShowroomInv, PhotoUploading, ShowroomQuiet
  <2>13. ListsStored'
    BY <2>1, <2>2, <2>3, <2>4, <2>5, <2>6, <2>7, <2>8, ShowroomIdle
       DEF ShowroomSteps, ShowroomInv, ListsStored, ShowroomQuiet
  <2>14. StampKept'
    BY <2>1, <2>2, <2>3, <2>4, <2>5, <2>6, <2>7, <2>8, ShowroomIdle
       DEF ShowroomSteps, ShowroomInv, StampKept, HasCopies, ShowroomQuiet
  <2>15. CopiesMade'
    BY <2>1, <2>2, <2>3, <2>4, <2>5, <2>6, <2>7, <2>8, ShowroomIdle
       DEF ShowroomSteps, ShowroomInv, CopiesMade, ShowroomQuiet
  <2>16. ShowroomSweeps'
    BY <2>1, <2>2, <2>3, <2>4, <2>5, <2>6, <2>7, <2>8, ShowroomIdle
       DEF ShowroomSteps, ShowroomInv, ShowroomSweeps, ShowroomQuiet
  <2>17. PublishesOpen'
    BY <2>1, <2>2, <2>3, <2>4, <2>5, <2>6, <2>7, <2>8, ShowroomIdle
       DEF ShowroomSteps, ShowroomInv, PublishesOpen, ShowroomQuiet
  <2>18. Showroom!RowHasObject'
    BY <2>1, <2>2, <2>3, <2>4, <2>5, <2>6, <2>7, <2>8, ShowroomIdle
       DEF ShowroomSteps, ShowroomInv, Showroom!RowHasObject, ShowroomQuiet
  <2> QED BY <2>9, <2>10, <2>11, <2>12, <2>13, <2>14, <2>15, <2>16, <2>17, <2>18 DEF ShowroomInv
<1> QED BY <1>1, <1>2 DEF Showroom!CreateRow

-----------------------------------------------------------------------------
\* The mirror: what it means to copy, one copy, the stamp.
LEMMA ShowroomMirrorRead ==
  ASSUME ShowroomCalm, ShowroomInv, NEW t \in Tasks, Showroom!MirrorRead(t)
  PROVE  ShowroomInv'
<1> DEFINE b == my[t].ad
<1> DEFINE left == IF ad[b].claimed THEN Showroom!CopiesOf(b) ELSE {}
<1> DEFINE j == [my[t] EXCEPT !.todo = left]
<1>1. at[t] = "m_read" /\ UNCHANGED <<photo, store, manifest, removed, ad, public>>
      /\ Showroom!Keep(t, "m_copy", j)
  BY DEF Showroom!MirrorRead, Showroom!reportState, Showroom!Mine
<1>2. b \in Ads
  BY <1>1 DEF ShowroomInv, ShowroomDoing, OnAdvert
<1>3. my[t] \in Showroom!Jobs /\ left \subseteq Ads \X Showroom!Keys
  BY <1>2 DEF ShowroomInv, Showroom!TypeOK, Showroom!CopiesOf
<1>4. /\ j \in Showroom!Jobs /\ j.op = my[t].op /\ j.ad = b /\ j.todo = left /\ j.failed = my[t].failed
      /\ j.key = my[t].key /\ j.old = my[t].old
  BY <1>3 DEF Showroom!Jobs
<1>5. ad[b].claimed => \A k \in manifest : <<b, k>> \in left
  BY DEF Showroom!CopiesOf
<1> HIDE DEF left, j, b
<1>6. ShowroomSteps(t, "m_copy", j)
  BY <1>1, <1>4, ShowroomKeeping DEF Showroom!Labels
<1>7. \A u \in Tasks : u # t => at[u] \in ShowroomQuiet
  BY <1>1, ShowroomElsewhere DEF ShowroomQuiet
<1>8. Showroom!TypeOK'
  BY <1>1, <1>2, <1>4, <1>5, <1>6, <1>7 DEF ShowroomSteps, ShowroomInv, Showroom!TypeOK
<1>9. ShowroomOneBy'
  BY <1>1, <1>2, <1>4, <1>5, <1>6, <1>7 DEF ShowroomSteps, ShowroomInv, ShowroomOneBy,
     ShowroomSingles, Showroom!HandlerNames
<1>10. ShowroomDoing'
  BY <1>1, <1>2, <1>4, <1>6, <1>7 DEF ShowroomSteps, ShowroomInv, ShowroomDoing, OnAdvert,
     ShowroomQuiet, b
<1>11. PhotoUploading'
  BY <1>1, <1>2, <1>4, <1>5, <1>6, <1>7 DEF ShowroomSteps, ShowroomInv, PhotoUploading,
     ShowroomQuiet
<1>12. ListsStored'
  BY <1>1, <1>2, <1>4, <1>5, <1>6, <1>7 DEF ShowroomSteps, ShowroomInv, ListsStored, ShowroomQuiet
<1>13. StampKept'
  BY <1>1, <1>2, <1>4, <1>5, <1>6, <1>7 DEF ShowroomSteps, ShowroomInv, StampKept, HasCopies,
     ShowroomQuiet
<1>14. CopiesMade'
  BY <1>1, <1>2, <1>4, <1>5, <1>6, <1>7 DEF ShowroomSteps, ShowroomInv, CopiesMade, ShowroomQuiet
<1>15. ShowroomSweeps'
  BY <1>1, <1>2, <1>4, <1>5, <1>6, <1>7 DEF ShowroomSteps, ShowroomInv, ShowroomSweeps,
     ShowroomQuiet
<1>16. PublishesOpen'
  BY <1>1, <1>2, <1>4, <1>5, <1>6, <1>7 DEF ShowroomSteps, ShowroomInv, PublishesOpen, ShowroomQuiet
<1>17. Showroom!RowHasObject'
  BY <1>1, <1>2, <1>4, <1>5, <1>6, <1>7 DEF ShowroomSteps, ShowroomInv, Showroom!RowHasObject,
     ShowroomQuiet
<1> QED BY <1>8, <1>9, <1>10, <1>11, <1>12, <1>13, <1>14, <1>15, <1>16, <1>17 DEF ShowroomInv

LEMMA ShowroomMirrorCopy ==
  ASSUME ShowroomCalm, ShowroomInv, NEW t \in Tasks, Showroom!MirrorCopy(t)
  PROVE  ShowroomInv'
<1>1. at[t] = "m_copy" /\ UNCHANGED <<photo, store, manifest, removed, ad>>
  BY DEF Showroom!MirrorCopy, Showroom!reportState
<1>2. my[t] \in Showroom!Jobs /\ my[t].ad \in Ads
  BY <1>1 DEF ShowroomInv, Showroom!TypeOK, ShowroomDoing, OnAdvert
<1>3. \A u \in Tasks : u # t => at[u] \in ShowroomQuiet
  BY <1>1, ShowroomElsewhere DEF ShowroomQuiet
<1>4. CASE my[t].todo = {}
  <2>1. ShowroomSteps(t, "m_stamp", my[t]) /\ UNCHANGED public
    BY <1>2, <1>4, ShowroomKeeping DEF Showroom!MirrorCopy, Showroom!Go, Showroom!Labels
  <2>2. Showroom!TypeOK'
    BY <1>1, <1>2, <1>3, <1>4, <2>1 DEF ShowroomSteps, ShowroomInv, Showroom!TypeOK
  <2>3. ShowroomOneBy'
    BY <1>1, <1>2, <1>3, <1>4, <2>1 DEF ShowroomSteps, ShowroomInv, ShowroomOneBy,
       ShowroomSingles, Showroom!HandlerNames
  <2>4. ShowroomDoing'
    BY <1>1, <1>2, <1>3, <1>4, <2>1 DEF ShowroomSteps, ShowroomInv, ShowroomDoing, OnAdvert,
       ShowroomQuiet
  <2>5. PhotoUploading'
    BY <1>1, <1>2, <1>3, <1>4, <2>1 DEF ShowroomSteps, ShowroomInv, PhotoUploading, ShowroomQuiet
  <2>6. ListsStored'
    BY <1>1, <1>2, <1>3, <1>4, <2>1 DEF ShowroomSteps, ShowroomInv, ListsStored, ShowroomQuiet
  <2>7. StampKept'
    BY <1>1, <1>2, <1>3, <1>4, <2>1 DEF ShowroomSteps, ShowroomInv, StampKept, HasCopies,
       ShowroomQuiet
  <2>8. CopiesMade'
    BY <1>1, <1>2, <1>3, <1>4, <2>1 DEF ShowroomSteps, ShowroomInv, CopiesMade, ShowroomQuiet
  <2>9. ShowroomSweeps'
    BY <1>1, <1>2, <1>3, <1>4, <2>1 DEF ShowroomSteps, ShowroomInv, ShowroomSweeps, ShowroomQuiet
  <2>10. PublishesOpen'
    BY <1>1, <1>2, <1>3, <1>4, <2>1 DEF ShowroomSteps, ShowroomInv, PublishesOpen, ShowroomQuiet
  <2>11. Showroom!RowHasObject'
    BY <1>1, <1>2, <1>3, <1>4, <2>1 DEF ShowroomSteps, ShowroomInv, Showroom!RowHasObject,
       ShowroomQuiet
  <2> QED BY <2>2, <2>3, <2>4, <2>5, <2>6, <2>7, <2>8, <2>9, <2>10, <2>11 DEF ShowroomInv
<1>5. CASE my[t].todo # {}
  <2>1. PICK c \in my[t].todo : LET rest == [my[t] EXCEPT !.todo = @ \ {c}] IN
          \/ c[2] \notin store /\ Showroom!Keep(t, "m_copy", rest) /\ UNCHANGED public
          \/ c[2] \in store /\ Showroom!Keep(t, "m_copy", rest) /\ public' = public \cup {c}
          \/ Refuses /\ Showroom!Keep(t, "m_copy", [rest EXCEPT !.failed = TRUE]) /\ UNCHANGED public
    BY <1>5 DEF Showroom!MirrorCopy
  <2> DEFINE left == my[t].todo \ {c}
  <2> DEFINE done == [my[t] EXCEPT !.todo = left]
  <2> DEFINE lost == [done EXCEPT !.failed = TRUE]
  <2>2. c \in Ads \X Showroom!Keys /\ left \subseteq Ads \X Showroom!Keys
    BY <1>2 DEF Showroom!Jobs
  <2>3. /\ done \in Showroom!Jobs /\ done.op = my[t].op /\ done.ad = my[t].ad /\ done.todo = left
        /\ done.failed = my[t].failed /\ done.key = my[t].key /\ done.old = my[t].old
    BY <1>2, <2>2 DEF Showroom!Jobs
  <2>4. /\ lost \in Showroom!Jobs /\ lost.op = my[t].op /\ lost.ad = my[t].ad /\ lost.todo = left
        /\ lost.failed /\ lost.key = my[t].key /\ lost.old = my[t].old
    BY <1>2, <2>2 DEF Showroom!Jobs
  <2>5. PICK j \in {done, lost} :
          /\ Showroom!Keep(t, "m_copy", j)
          /\ public' \in {public, public \cup {c}}
          /\ ~j.failed => c \in public' \/ c[2] \notin store
    BY <2>1, <2>3, <2>4
  <2>6. /\ j \in Showroom!Jobs /\ j.op = my[t].op /\ j.ad = my[t].ad /\ j.todo = left
        /\ ~j.failed => ~my[t].failed
    BY <2>3, <2>4
  <2>7. ShowroomSteps(t, "m_copy", j)
    BY <2>5, <2>6, ShowroomKeeping DEF Showroom!Labels
  <2>8. public \subseteq public' /\ public' \subseteq Ads \X Showroom!Keys
    BY <2>2, <2>5 DEF ShowroomInv, Showroom!TypeOK
  <2>9. \A k : <<my[t].ad, k>> = c => c[2] = k
    OBVIOUS
  <2>10. \A x \in my[t].todo : x = c \/ x \in left
    OBVIOUS
  <2> HIDE DEF left, done, lost
  <2>11. Showroom!TypeOK'
    BY <1>1, <1>2, <1>3, <2>5, <2>6, <2>7, <2>8, <2>9, <2>10
       DEF ShowroomSteps, ShowroomInv, Showroom!TypeOK
  <2>12. ShowroomOneBy'
    BY <1>1, <1>2, <1>3, <2>5, <2>6, <2>7, <2>8, <2>9, <2>10
       DEF ShowroomSteps, ShowroomInv, ShowroomOneBy, ShowroomSingles, Showroom!HandlerNames
  <2>13. ShowroomDoing'
    BY <1>1, <1>2, <1>3, <2>5, <2>6, <2>7, <2>8, <2>9, <2>10
       DEF ShowroomSteps, ShowroomInv, ShowroomDoing, OnAdvert, ShowroomQuiet
  <2>14. PhotoUploading'
    BY <1>1, <1>2, <1>3, <2>5, <2>6, <2>7, <2>8, <2>9, <2>10
       DEF ShowroomSteps, ShowroomInv, PhotoUploading, ShowroomQuiet
  <2>15. ListsStored'
    BY <1>1, <1>2, <1>3, <2>5, <2>6, <2>7, <2>8, <2>9, <2>10
       DEF ShowroomSteps, ShowroomInv, ListsStored, ShowroomQuiet
  <2>16. StampKept'
    BY <1>1, <1>2, <1>3, <2>5, <2>6, <2>7, <2>8, <2>9, <2>10
       DEF ShowroomSteps, ShowroomInv, StampKept, HasCopies, ShowroomQuiet
  <2>17. CopiesMade'
    BY <1>1, <1>2, <1>3, <2>5, <2>6, <2>7, <2>8, <2>9, <2>10
       DEF ShowroomSteps, ShowroomInv, CopiesMade, ShowroomQuiet
  <2>18. ShowroomSweeps'
    BY <1>1, <1>2, <1>3, <2>5, <2>6, <2>7, <2>8, <2>9, <2>10
       DEF ShowroomSteps, ShowroomInv, ShowroomSweeps, ShowroomQuiet
  <2>19. PublishesOpen'
    BY <1>1, <1>2, <1>3, <2>5, <2>6, <2>7, <2>8, <2>9, <2>10
       DEF ShowroomSteps, ShowroomInv, PublishesOpen, ShowroomQuiet
  <2>20. Showroom!RowHasObject'
    BY <1>1, <1>2, <1>3, <2>5, <2>6, <2>7, <2>8, <2>9, <2>10
       DEF ShowroomSteps, ShowroomInv, Showroom!RowHasObject, ShowroomQuiet
  <2> QED BY <2>11, <2>12, <2>13, <2>14, <2>15, <2>16, <2>17, <2>18, <2>19, <2>20 DEF ShowroomInv
<1> QED BY <1>4, <1>5

LEMMA ShowroomMirrorStamp ==
  ASSUME ShowroomCalm, ShowroomInv, NEW t \in Tasks, Showroom!MirrorStamp(t)
  PROVE  ShowroomInv'
<1> DEFINE b == my[t].ad
<1>1. ShowroomSteps(t, "idle", Showroom!NoJob)
  BY ShowroomEnding DEF Showroom!MirrorStamp
<1>2. /\ at[t] = "m_stamp" /\ UNCHANGED <<photo, store, manifest, removed, public>>
      /\ Showroom!SetAd(t, [Showroom!Mine(t) EXCEPT !.stamped = @ \/ ~my[t].failed])
  BY DEF Showroom!MirrorStamp, Showroom!reportState
<1>3. b \in Ads /\ ad \in [Ads -> Showroom!AdRows]
  BY <1>2 DEF ShowroomInv, Showroom!TypeOK, ShowroomDoing, OnAdvert
<1>4. \A u \in Tasks : u # t => at[u] \in ShowroomQuiet
  BY <1>2, ShowroomElsewhere DEF ShowroomQuiet
<1> DEFINE r == [st |-> ad[b].st, claimed |-> ad[b].claimed, stamped |-> ad[b].stamped \/ ~my[t].failed,
                 hidden |-> ad[b].hidden]
<1>5. my[t].failed \in BOOLEAN
  BY DEF ShowroomInv, Showroom!TypeOK, Showroom!Jobs
<1>6. r \in Showroom!AdRows /\ ad' = [ad EXCEPT ![b] = r]
  <2>1. [ad[b] EXCEPT !.stamped = @ \/ ~my[t].failed] = r
    BY <1>3 DEF Showroom!AdRows
  <2>2. r \in Showroom!AdRows
    BY <1>3, <1>5 DEF Showroom!AdRows
  <2> HIDE DEF r
  <2> QED BY <1>2, <2>1, <2>2 DEF Showroom!SetAd, Showroom!Mine
<1>7. ad' \in [Ads -> Showroom!AdRows] /\ \A a \in Ads : ad'[a] = IF a = b THEN r ELSE ad[a]
  BY <1>3, <1>6
<1>8. \A u \in Tasks : at[u] \in OnAdvert => my[u].ad \in Ads
  BY DEF ShowroomInv, ShowroomDoing
<1>9. "m_stamp" \in OnAdvert \ {"create"} /\ {"unpublish", "sold"} \subseteq OnAdvert
  BY DEF OnAdvert
<1>10. ad[b].claimed /\ ~my[t].failed => \A k \in manifest : <<b, k>> \in public \/ k \notin store
  BY <1>2 DEF ShowroomInv, CopiesMade
<1> HIDE DEF b
<1>11. Showroom!TypeOK'
  BY <1>1, <1>2, <1>3, <1>4, <1>7, <1>8, <1>9, <1>10, ShowroomIdle
     DEF ShowroomSteps, ShowroomInv, Showroom!TypeOK
<1>12. ShowroomOneBy'
  BY <1>1, <1>2, <1>3, <1>4, <1>7, <1>8, <1>9, <1>10, ShowroomIdle
     DEF ShowroomSteps, ShowroomInv, ShowroomOneBy, ShowroomSingles, Showroom!HandlerNames
<1>13. ShowroomDoing'
  BY <1>1, <1>2, <1>3, <1>4, <1>7, <1>8, <1>9, <1>10, ShowroomIdle
     DEF ShowroomSteps, ShowroomInv, ShowroomDoing, OnAdvert, ShowroomQuiet
<1>14. PhotoUploading'
  BY <1>1, <1>2, <1>3, <1>4, <1>7, <1>8, <1>9, <1>10, ShowroomIdle
     DEF ShowroomSteps, ShowroomInv, PhotoUploading, ShowroomQuiet
<1>15. ListsStored'
  BY <1>1, <1>2, <1>3, <1>4, <1>7, <1>8, <1>9, <1>10, ShowroomIdle
     DEF ShowroomSteps, ShowroomInv, ListsStored, ShowroomQuiet
<1>16. StampKept'
  <2> SUFFICES ASSUME NEW a \in Ads, ad'[a].claimed, ad'[a].stamped, NEW k \in manifest
               PROVE  <<a, k>> \in public \/ k \notin store
    BY <1>2 DEF StampKept, HasCopies
  <2>1. CASE ad[a].claimed /\ ad[a].stamped
    BY <1>2, <1>4, <2>1 DEF ShowroomInv, StampKept, HasCopies, ShowroomQuiet
  <2>2. CASE a = b /\ ~my[t].failed
    BY <1>7, <1>10, <2>2
  <2>3. a # b => ad[a].claimed /\ ad[a].stamped
    BY <1>7
  <2>4. a = b => ad[a].claimed /\ (ad[a].stamped \/ ~my[t].failed)
    <3>1. r.claimed = ad[b].claimed /\ r.stamped = (ad[b].stamped \/ ~my[t].failed)
      OBVIOUS
    <3> HIDE DEF r
    <3> QED BY <1>7, <3>1
  <2> QED BY <2>1, <2>2, <2>3, <2>4
<1>17. CopiesMade'
  BY <1>1, <1>2, <1>3, <1>4, <1>7, <1>8, <1>9, <1>10, ShowroomIdle
     DEF ShowroomSteps, ShowroomInv, CopiesMade, ShowroomQuiet
<1>18. ShowroomSweeps'
  BY <1>1, <1>2, <1>3, <1>4, <1>7, <1>8, <1>9, <1>10, ShowroomIdle
     DEF ShowroomSteps, ShowroomInv, ShowroomSweeps, ShowroomQuiet
<1>19. PublishesOpen'
  BY <1>1, <1>2, <1>3, <1>4, <1>7, <1>8, <1>9, <1>10, ShowroomIdle
     DEF ShowroomSteps, ShowroomInv, PublishesOpen, ShowroomQuiet
<1>20. Showroom!RowHasObject'
  BY <1>1, <1>2, <1>3, <1>4, <1>7, <1>8, <1>9, <1>10, ShowroomIdle
     DEF ShowroomSteps, ShowroomInv, Showroom!RowHasObject, ShowroomQuiet
<1> QED BY <1>11, <1>12, <1>13, <1>14, <1>15, <1>16, <1>17, <1>18, <1>19, <1>20 DEF ShowroomInv

-----------------------------------------------------------------------------
\* The delete: the keys, the row, the copies.
LEMMA ShowroomDeleteKeys ==
  ASSUME ShowroomCalm, ShowroomInv, NEW t \in Tasks, Showroom!DeleteKeys(t)
  PROVE  ShowroomInv'
<1> DEFINE left == Showroom!Mirrored(my[t].ad)
<1> DEFINE j == [my[t] EXCEPT !.todo = left]
<1>1. at[t] = "x_keys" /\ UNCHANGED <<photo, store, manifest, removed, ad, public>>
      /\ Showroom!Keep(t, "x_tx", j)
  BY DEF Showroom!DeleteKeys, Showroom!reportState
<1>2. my[t].ad \in Ads
  BY <1>1 DEF ShowroomInv, ShowroomDoing, OnAdvert
<1>3. my[t] \in Showroom!Jobs /\ left \subseteq Ads \X Showroom!Keys /\ \A c \in left : c[1] = my[t].ad
  BY <1>2 DEF ShowroomInv, Showroom!TypeOK, Showroom!Mirrored, Showroom!CopiesOf
<1>4. /\ j \in Showroom!Jobs /\ j.op = my[t].op /\ j.ad = my[t].ad /\ j.todo = left
  BY <1>3 DEF Showroom!Jobs
<1> HIDE DEF left, j
<1>5. ShowroomSteps(t, "x_tx", j)
  BY <1>1, <1>4, ShowroomKeeping DEF Showroom!Labels
<1>6. \A u \in Tasks : u # t => at[u] \in ShowroomQuiet
  BY <1>1, ShowroomElsewhere DEF ShowroomQuiet
<1>7. Showroom!TypeOK'
  BY <1>1, <1>2, <1>3, <1>4, <1>5, <1>6 DEF ShowroomSteps, ShowroomInv, Showroom!TypeOK
<1>8. ShowroomOneBy'
  BY <1>1, <1>2, <1>3, <1>4, <1>5, <1>6 DEF ShowroomSteps, ShowroomInv, ShowroomOneBy,
     ShowroomSingles, Showroom!HandlerNames
<1>9. ShowroomDoing'
  BY <1>1, <1>2, <1>3, <1>4, <1>5, <1>6 DEF ShowroomSteps, ShowroomInv, ShowroomDoing, OnAdvert,
     ShowroomQuiet
<1>10. PhotoUploading'
  BY <1>1, <1>2, <1>3, <1>4, <1>5, <1>6 DEF ShowroomSteps, ShowroomInv, PhotoUploading,
     ShowroomQuiet
<1>11. ListsStored'
  BY <1>1, <1>2, <1>3, <1>4, <1>5, <1>6 DEF ShowroomSteps, ShowroomInv, ListsStored, ShowroomQuiet
<1>12. StampKept'
  BY <1>1, <1>2, <1>3, <1>4, <1>5, <1>6 DEF ShowroomSteps, ShowroomInv, StampKept, HasCopies,
     ShowroomQuiet
<1>13. CopiesMade'
  BY <1>1, <1>2, <1>3, <1>4, <1>5, <1>6 DEF ShowroomSteps, ShowroomInv, CopiesMade, ShowroomQuiet
<1>14. ShowroomSweeps'
  BY <1>1, <1>2, <1>3, <1>4, <1>5, <1>6 DEF ShowroomSteps, ShowroomInv, ShowroomSweeps,
     ShowroomQuiet
<1>15. PublishesOpen'
  BY <1>1, <1>2, <1>3, <1>4, <1>5, <1>6 DEF ShowroomSteps, ShowroomInv, PublishesOpen, ShowroomQuiet
<1>16. Showroom!RowHasObject'
  BY <1>1, <1>2, <1>3, <1>4, <1>5, <1>6 DEF ShowroomSteps, ShowroomInv, Showroom!RowHasObject,
     ShowroomQuiet
<1> QED BY <1>7, <1>8, <1>9, <1>10, <1>11, <1>12, <1>13, <1>14, <1>15, <1>16 DEF ShowroomInv

LEMMA ShowroomDeleteTx ==
  ASSUME ShowroomCalm, ShowroomInv, NEW t \in Tasks, Showroom!DeleteTx(t)
  PROVE  ShowroomInv'
<1> DEFINE b == my[t].ad
<1>1. ShowroomSteps(t, "x_sweep", my[t])
  BY ShowroomKeeping DEF Showroom!DeleteTx, Showroom!Go, Showroom!Labels, ShowroomInv,
     Showroom!TypeOK
<1>2. /\ at[t] = "x_tx" /\ UNCHANGED <<photo, store, manifest, removed, public>>
      /\ Showroom!SetAd(t, [Showroom!Mine(t) EXCEPT !.st = "DELETED", !.claimed = FALSE,
         !.stamped = FALSE])
  BY DEF Showroom!DeleteTx, Showroom!DeleteRowOf, Showroom!reportState
<1>3. b \in Ads /\ ad \in [Ads -> Showroom!AdRows]
  BY <1>2 DEF ShowroomInv, Showroom!TypeOK, ShowroomDoing, OnAdvert
<1>4. \A u \in Tasks : u # t => at[u] \in ShowroomQuiet
  BY <1>2, ShowroomElsewhere DEF ShowroomQuiet
<1> DEFINE r == [ad[b] EXCEPT !.st = "DELETED", !.claimed = FALSE, !.stamped = FALSE]
<1>5. r \in Showroom!AdRows /\ r.st = "DELETED" /\ ~r.claimed /\ ~r.stamped /\ r.hidden = ad[b].hidden
  BY <1>3 DEF Showroom!AdRows, Showroom!Status
<1>6. ad' \in [Ads -> Showroom!AdRows] /\ \A a \in Ads : ad'[a] = IF a = b THEN r ELSE ad[a]
  BY <1>2, <1>3, <1>5 DEF Showroom!SetAd, Showroom!Mine
<1> HIDE DEF r
<1>7. \A u \in Tasks : at[u] \in OnAdvert => my[u].ad \in Ads
  BY DEF ShowroomInv, ShowroomDoing
<1>8. {"x_tx", "unpublish", "sold"} \subseteq OnAdvert \ {"create"}
  BY DEF OnAdvert
<1>9. Showroom!TypeOK'
  BY <1>1, <1>2, <1>3, <1>4, <1>5, <1>6, <1>7, <1>8, ShowroomIdle
     DEF ShowroomSteps, ShowroomInv, Showroom!TypeOK
<1>10. ShowroomOneBy'
  BY <1>1, <1>2, <1>3, <1>4, <1>5, <1>6, <1>7, <1>8, ShowroomIdle
     DEF ShowroomSteps, ShowroomInv, ShowroomOneBy, ShowroomSingles, Showroom!HandlerNames
<1>11. ShowroomDoing'
  BY <1>1, <1>2, <1>3, <1>4, <1>5, <1>6, <1>7, <1>8, ShowroomIdle
     DEF ShowroomSteps, ShowroomInv, ShowroomDoing, OnAdvert, ShowroomQuiet
<1>12. PhotoUploading'
  BY <1>1, <1>2, <1>3, <1>4, <1>5, <1>6, <1>7, <1>8, ShowroomIdle
     DEF ShowroomSteps, ShowroomInv, PhotoUploading, ShowroomQuiet
<1>13. ListsStored'
  BY <1>1, <1>2, <1>3, <1>4, <1>5, <1>6, <1>7, <1>8, ShowroomIdle
     DEF ShowroomSteps, ShowroomInv, ListsStored, ShowroomQuiet
<1>14. StampKept'
  BY <1>1, <1>2, <1>3, <1>4, <1>5, <1>6, <1>7, <1>8, ShowroomIdle
     DEF ShowroomSteps, ShowroomInv, StampKept, HasCopies, ShowroomQuiet
<1>15. CopiesMade'
  BY <1>1, <1>2, <1>3, <1>4, <1>5, <1>6, <1>7, <1>8, ShowroomIdle
     DEF ShowroomSteps, ShowroomInv, CopiesMade, ShowroomQuiet
<1>16. ShowroomSweeps'
  BY <1>1, <1>2, <1>3, <1>4, <1>5, <1>6, <1>7, <1>8, ShowroomIdle
     DEF ShowroomSteps, ShowroomInv, ShowroomSweeps, ShowroomQuiet
<1>17. PublishesOpen'
  BY <1>1, <1>2, <1>3, <1>4, <1>5, <1>6, <1>7, <1>8, ShowroomIdle
     DEF ShowroomSteps, ShowroomInv, PublishesOpen, ShowroomQuiet
<1>18. Showroom!RowHasObject'
  BY <1>1, <1>2, <1>3, <1>4, <1>5, <1>6, <1>7, <1>8, ShowroomIdle
     DEF ShowroomSteps, ShowroomInv, Showroom!RowHasObject, ShowroomQuiet
<1> QED BY <1>9, <1>10, <1>11, <1>12, <1>13, <1>14, <1>15, <1>16, <1>17, <1>18 DEF ShowroomInv

\* One copy of those that are to go.
LEMMA ShowroomSweeping ==
  ASSUME ShowroomCalm, ShowroomInv, NEW t \in Tasks, NEW label \in {"x_sweep", "e_sweep"},
         at[t] = label,
         NEW c \in my[t].todo, public' \in Showroom!Without(public, c),
         Showroom!Keep(t, label, [my[t] EXCEPT !.todo = @ \ {c}]),
           UNCHANGED <<Showroom!reportState, ad>>
  PROVE  ShowroomInv'
<1> DEFINE left == my[t].todo \ {c}
<1> DEFINE j == [my[t] EXCEPT !.todo = left]
<1>1. UNCHANGED <<photo, store, manifest, removed, ad>> /\ Showroom!Keep(t, label, j)
  BY DEF Showroom!reportState
<1>2. my[t] \in Showroom!Jobs /\ left \subseteq my[t].todo /\ c \in Ads \X Showroom!Keys
  BY DEF ShowroomInv, Showroom!TypeOK, Showroom!Jobs
<1>3. j \in Showroom!Jobs /\ j.op = my[t].op /\ j.ad = my[t].ad /\ j.todo = left
  BY <1>2 DEF Showroom!Jobs
<1> HIDE DEF left, j
<1>4. ShowroomSteps(t, label, j)
  BY <1>1, <1>3, ShowroomKeeping DEF Showroom!Labels
<1>5. \A u \in Tasks : u # t => at[u] \in ShowroomQuiet
  BY ShowroomElsewhere DEF ShowroomQuiet
<1>6. public' \subseteq public /\ \A d \in public : d = c \/ d \in public'
  BY DEF Showroom!Without
<1>7. label = "x_sweep" => \A a \in Ads, k \in Showroom!Keys : ad[a].claimed => <<a, k>> # c
  BY <1>2 DEF ShowroomInv, ShowroomSweeps
<1>8. manifest \subseteq Showroom!Keys
  BY DEF ShowroomInv, Showroom!TypeOK
<1>9. Showroom!TypeOK'
  BY <1>1, <1>2, <1>3, <1>4, <1>5, <1>6, <1>7, <1>8 DEF ShowroomSteps, ShowroomInv, Showroom!TypeOK
<1>10. ShowroomOneBy'
  BY <1>1, <1>2, <1>3, <1>4, <1>5, <1>6, <1>7, <1>8 DEF ShowroomSteps, ShowroomInv, ShowroomOneBy,
     ShowroomSingles, Showroom!HandlerNames
<1>11. ShowroomDoing'
  BY <1>1, <1>2, <1>3, <1>4, <1>5, <1>6, <1>7, <1>8 DEF ShowroomSteps, ShowroomInv, ShowroomDoing,
     OnAdvert, ShowroomQuiet
<1>12. PhotoUploading'
  BY <1>1, <1>2, <1>3, <1>4, <1>5, <1>6, <1>7, <1>8 DEF ShowroomSteps, ShowroomInv,
     PhotoUploading, ShowroomQuiet
<1>13. ListsStored'
  BY <1>1, <1>2, <1>3, <1>4, <1>5, <1>6, <1>7, <1>8 DEF ShowroomSteps, ShowroomInv, ListsStored,
     ShowroomQuiet
<1>14. StampKept'
  BY <1>1, <1>2, <1>3, <1>4, <1>5, <1>6, <1>7, <1>8 DEF ShowroomSteps, ShowroomInv, StampKept,
     HasCopies, ShowroomQuiet
<1>15. CopiesMade'
  BY <1>1, <1>2, <1>3, <1>4, <1>5, <1>6, <1>7, <1>8 DEF ShowroomSteps, ShowroomInv, CopiesMade,
     ShowroomQuiet
<1>16. ShowroomSweeps'
  BY <1>1, <1>2, <1>3, <1>4, <1>5, <1>6, <1>7, <1>8 DEF ShowroomSteps, ShowroomInv,
     ShowroomSweeps, ShowroomQuiet
<1>17. PublishesOpen'
  BY <1>1, <1>2, <1>3, <1>4, <1>5, <1>6, <1>7, <1>8 DEF ShowroomSteps, ShowroomInv, PublishesOpen,
     ShowroomQuiet
<1>18. Showroom!RowHasObject'
  BY <1>1, <1>2, <1>3, <1>4, <1>5, <1>6, <1>7, <1>8 DEF ShowroomSteps, ShowroomInv,
     Showroom!RowHasObject, ShowroomQuiet
<1> QED BY <1>9, <1>10, <1>11, <1>12, <1>13, <1>14, <1>15, <1>16, <1>17, <1>18 DEF ShowroomInv

LEMMA ShowroomDeleteSweep ==
  ASSUME ShowroomCalm, ShowroomInv, NEW t \in Tasks, Showroom!DeleteSweep(t)
  PROVE  ShowroomInv'
<1>1. CASE my[t].todo = {}
  BY <1>1, ShowroomEnded DEF Showroom!DeleteSweep, Showroom!Sweep
<1>2. CASE my[t].todo # {}
  BY <1>2, ShowroomSweeping DEF Showroom!DeleteSweep, Showroom!Sweep
<1> QED BY <1>1, <1>2

-----------------------------------------------------------------------------
\* The erasure: no advert stays in the showroom, the copies, no stamp.
LEMMA ShowroomEraseTx ==
  ASSUME ShowroomCalm, ShowroomInv, NEW t \in Tasks, Showroom!EraseTx(t)
  PROVE  ShowroomInv'
<1>1. ShowroomSteps(t, "e_keys", my[t])
  BY ShowroomKeeping DEF Showroom!EraseTx, Showroom!Go, Showroom!Labels, ShowroomInv,
     Showroom!TypeOK
<1>2. at[t] = "e_tx" /\ UNCHANGED <<photo, store, manifest, removed, public>>
  BY DEF Showroom!EraseTx, Showroom!reportState
<1>3. \A u \in Tasks : u # t => at[u] \in ShowroomQuiet
  BY <1>2, ShowroomElsewhere DEF ShowroomQuiet
<1>4. /\ ad' \in [Ads -> Showroom!AdRows]
      /\ \A a \in Ads : /\ ad'[a].st = IF ad[a].st = "none" THEN "none" ELSE "DELETED"
                        /\ ad'[a].claimed = ad[a].claimed /\ ad'[a].stamped = ad[a].stamped
                        /\ ad'[a].hidden = ad[a].hidden
  <2>1. ad \in [Ads -> Showroom!AdRows]
    BY DEF ShowroomInv, Showroom!TypeOK
  <2>2. ad' = [a \in Ads |-> IF ad[a].st # "none" THEN [ad[a] EXCEPT !.st = "DELETED"] ELSE ad[a]]
    BY DEF Showroom!EraseTx, Showroom!Exists
  <2>3. \A a \in Ads : [ad[a] EXCEPT !.st = "DELETED"] \in Showroom!AdRows
    BY <2>1 DEF Showroom!AdRows, Showroom!Status
  <2> QED BY <2>1, <2>2, <2>3 DEF Showroom!AdRows
<1>5. \A u \in Tasks : at[u] \in OnAdvert => my[u].ad \in Ads
  BY DEF ShowroomInv, ShowroomDoing
<1>6. "e_tx" \notin OnAdvert /\ {"unpublish", "sold"} \subseteq OnAdvert
  BY DEF OnAdvert
<1>7. Showroom!TypeOK'
  BY <1>1, <1>2, <1>3, <1>4, <1>5, <1>6 DEF ShowroomSteps, ShowroomInv, Showroom!TypeOK
<1>8. ShowroomOneBy'
  BY <1>1, <1>2, <1>3, <1>4, <1>5, <1>6 DEF ShowroomSteps, ShowroomInv, ShowroomOneBy,
     ShowroomSingles, Showroom!HandlerNames
<1>9. ShowroomDoing'
  BY <1>1, <1>2, <1>3, <1>4, <1>5, <1>6 DEF ShowroomSteps, ShowroomInv, ShowroomDoing, OnAdvert,
     ShowroomQuiet
<1>10. PhotoUploading'
  BY <1>1, <1>2, <1>3, <1>4, <1>5, <1>6 DEF ShowroomSteps, ShowroomInv, PhotoUploading,
     ShowroomQuiet
<1>11. ListsStored'
  BY <1>1, <1>2, <1>3, <1>4, <1>5, <1>6 DEF ShowroomSteps, ShowroomInv, ListsStored, ShowroomQuiet
<1>12. StampKept'
  BY <1>1, <1>2, <1>3, <1>4, <1>5, <1>6 DEF ShowroomSteps, ShowroomInv, StampKept, HasCopies,
     ShowroomQuiet
<1>13. CopiesMade'
  BY <1>1, <1>2, <1>3, <1>4, <1>5, <1>6 DEF ShowroomSteps, ShowroomInv, CopiesMade, ShowroomQuiet
<1>14. ShowroomSweeps'
  BY <1>1, <1>2, <1>3, <1>4, <1>5, <1>6 DEF ShowroomSteps, ShowroomInv, ShowroomSweeps,
     ShowroomQuiet
<1>15. PublishesOpen'
  BY <1>1, <1>2, <1>3, <1>4, <1>5, <1>6 DEF ShowroomSteps, ShowroomInv, PublishesOpen, ShowroomQuiet
<1>16. Showroom!RowHasObject'
  BY <1>1, <1>2, <1>3, <1>4, <1>5, <1>6 DEF ShowroomSteps, ShowroomInv, Showroom!RowHasObject,
     ShowroomQuiet
<1> QED BY <1>7, <1>8, <1>9, <1>10, <1>11, <1>12, <1>13, <1>14, <1>15, <1>16 DEF ShowroomInv

LEMMA ShowroomEraseKeys ==
  ASSUME ShowroomCalm, ShowroomInv, NEW t \in Tasks, Showroom!EraseKeys(t)
  PROVE  ShowroomInv'
<1> DEFINE left == UNION {Showroom!Mirrored(a) : a \in Ads}
<1> DEFINE j == [my[t] EXCEPT !.todo = left]
<1>1. at[t] = "e_keys" /\ UNCHANGED <<photo, store, manifest, removed, ad, public>>
      /\ Showroom!Keep(t, "e_sweep", j)
  BY DEF Showroom!EraseKeys, Showroom!reportState
<1>2. my[t] \in Showroom!Jobs /\ left \subseteq Ads \X Showroom!Keys
  BY DEF ShowroomInv, Showroom!TypeOK, Showroom!Mirrored, Showroom!CopiesOf
<1>3. j \in Showroom!Jobs /\ j.op = my[t].op /\ j.ad = my[t].ad /\ j.todo = left
  BY <1>2 DEF Showroom!Jobs
<1> HIDE DEF left, j
<1>4. ShowroomSteps(t, "e_sweep", j)
  BY <1>1, <1>3, ShowroomKeeping DEF Showroom!Labels
<1>5. \A u \in Tasks : u # t => at[u] \in ShowroomQuiet
  BY <1>1, ShowroomElsewhere DEF ShowroomQuiet
<1>6. Showroom!TypeOK'
  BY <1>1, <1>2, <1>3, <1>4, <1>5 DEF ShowroomSteps, ShowroomInv, Showroom!TypeOK
<1>7. ShowroomOneBy'
  BY <1>1, <1>2, <1>3, <1>4, <1>5 DEF ShowroomSteps, ShowroomInv, ShowroomOneBy, ShowroomSingles,
     Showroom!HandlerNames
<1>8. ShowroomDoing'
  BY <1>1, <1>2, <1>3, <1>4, <1>5 DEF ShowroomSteps, ShowroomInv, ShowroomDoing, OnAdvert,
     ShowroomQuiet
<1>9. PhotoUploading'
  BY <1>1, <1>2, <1>3, <1>4, <1>5 DEF ShowroomSteps, ShowroomInv, PhotoUploading, ShowroomQuiet
<1>10. ListsStored'
  BY <1>1, <1>2, <1>3, <1>4, <1>5 DEF ShowroomSteps, ShowroomInv, ListsStored, ShowroomQuiet
<1>11. StampKept'
  BY <1>1, <1>2, <1>3, <1>4, <1>5 DEF ShowroomSteps, ShowroomInv, StampKept, HasCopies,
     ShowroomQuiet
<1>12. CopiesMade'
  BY <1>1, <1>2, <1>3, <1>4, <1>5 DEF ShowroomSteps, ShowroomInv, CopiesMade, ShowroomQuiet
<1>13. ShowroomSweeps'
  BY <1>1, <1>2, <1>3, <1>4, <1>5 DEF ShowroomSteps, ShowroomInv, ShowroomSweeps, ShowroomQuiet
<1>14. PublishesOpen'
  BY <1>1, <1>2, <1>3, <1>4, <1>5 DEF ShowroomSteps, ShowroomInv, PublishesOpen, ShowroomQuiet
<1>15. Showroom!RowHasObject'
  BY <1>1, <1>2, <1>3, <1>4, <1>5 DEF ShowroomSteps, ShowroomInv, Showroom!RowHasObject,
     ShowroomQuiet
<1> QED BY <1>6, <1>7, <1>8, <1>9, <1>10, <1>11, <1>12, <1>13, <1>14, <1>15 DEF ShowroomInv

LEMMA ShowroomEraseSweep ==
  ASSUME ShowroomCalm, ShowroomInv, NEW t \in Tasks, Showroom!EraseSweep(t)
  PROVE  ShowroomInv'
<1>1. CASE my[t].todo = {}
  <2>1. ShowroomSteps(t, "e_stamp", my[t])
    BY <1>1, ShowroomKeeping DEF Showroom!EraseSweep, Showroom!Sweep, Showroom!Go,
       Showroom!Labels, ShowroomInv, Showroom!TypeOK
  <2>2. at[t] = "e_sweep" /\ UNCHANGED <<photo, store, manifest, removed, ad, public>>
    BY <1>1 DEF Showroom!EraseSweep, Showroom!Sweep, Showroom!reportState
  <2>3. \A u \in Tasks : u # t => at[u] \in ShowroomQuiet
    BY <2>2, ShowroomElsewhere DEF ShowroomQuiet
  <2>4. Showroom!TypeOK'
    BY <2>1, <2>2, <2>3 DEF ShowroomSteps, ShowroomInv, Showroom!TypeOK
  <2>5. ShowroomOneBy'
    BY <2>1, <2>2, <2>3 DEF ShowroomSteps, ShowroomInv, ShowroomOneBy, ShowroomSingles,
       Showroom!HandlerNames
  <2>6. ShowroomDoing'
    BY <2>1, <2>2, <2>3 DEF ShowroomSteps, ShowroomInv, ShowroomDoing, OnAdvert, ShowroomQuiet
  <2>7. PhotoUploading'
    BY <2>1, <2>2, <2>3 DEF ShowroomSteps, ShowroomInv, PhotoUploading, ShowroomQuiet
  <2>8. ListsStored'
    BY <2>1, <2>2, <2>3 DEF ShowroomSteps, ShowroomInv, ListsStored, ShowroomQuiet
  <2>9. StampKept'
    BY <2>1, <2>2, <2>3 DEF ShowroomSteps, ShowroomInv, StampKept, HasCopies, ShowroomQuiet
  <2>10. CopiesMade'
    BY <2>1, <2>2, <2>3 DEF ShowroomSteps, ShowroomInv, CopiesMade, ShowroomQuiet
  <2>11. ShowroomSweeps'
    BY <2>1, <2>2, <2>3 DEF ShowroomSteps, ShowroomInv, ShowroomSweeps, ShowroomQuiet
  <2>12. PublishesOpen'
    BY <2>1, <2>2, <2>3 DEF ShowroomSteps, ShowroomInv, PublishesOpen, ShowroomQuiet
  <2>13. Showroom!RowHasObject'
    BY <2>1, <2>2, <2>3 DEF ShowroomSteps, ShowroomInv, Showroom!RowHasObject, ShowroomQuiet
  <2> QED BY <2>4, <2>5, <2>6, <2>7, <2>8, <2>9, <2>10, <2>11, <2>12, <2>13 DEF ShowroomInv
<1>2. CASE my[t].todo # {}
  BY <1>2, ShowroomSweeping DEF Showroom!EraseSweep, Showroom!Sweep
<1> QED BY <1>1, <1>2

LEMMA ShowroomEraseStamp ==
  ASSUME ShowroomCalm, ShowroomInv, NEW t \in Tasks, Showroom!EraseStamp(t)
  PROVE  ShowroomInv'
<1>1. ShowroomSteps(t, "idle", Showroom!NoJob)
  BY ShowroomEnding DEF Showroom!EraseStamp
<1>2. at[t] = "e_stamp" /\ UNCHANGED <<photo, store, manifest, removed, public>>
  BY DEF Showroom!EraseStamp, Showroom!reportState
<1>3. \A u \in Tasks : u # t => at[u] \in ShowroomQuiet
  BY <1>2, ShowroomElsewhere DEF ShowroomQuiet
<1>4. /\ ad' \in [Ads -> Showroom!AdRows]
      /\ \A a \in Ads : /\ ad'[a].st = ad[a].st /\ ad'[a].claimed = ad[a].claimed /\ ~ad'[a].stamped
                        /\ ad'[a].hidden = ad[a].hidden
  <2>1. ad \in [Ads -> Showroom!AdRows]
    BY DEF ShowroomInv, Showroom!TypeOK
  <2>2. ad' = [a \in Ads |-> [ad[a] EXCEPT !.stamped = FALSE]]
    BY DEF Showroom!EraseStamp
  <2>3. \A a \in Ads : [ad[a] EXCEPT !.stamped = FALSE] \in Showroom!AdRows
    BY <2>1 DEF Showroom!AdRows
  <2> QED BY <2>1, <2>2, <2>3 DEF Showroom!AdRows
<1>5. \A u \in Tasks : at[u] \in OnAdvert => my[u].ad \in Ads
  BY DEF ShowroomInv, ShowroomDoing
<1>6. "e_stamp" \notin OnAdvert /\ {"unpublish", "sold"} \subseteq OnAdvert
  BY DEF OnAdvert
<1>7. Showroom!TypeOK'
  BY <1>1, <1>2, <1>3, <1>4, <1>5, <1>6, ShowroomIdle DEF ShowroomSteps, ShowroomInv,
     Showroom!TypeOK
<1>8. ShowroomOneBy'
  BY <1>1, <1>2, <1>3, <1>4, <1>5, <1>6, ShowroomIdle DEF ShowroomSteps, ShowroomInv,
     ShowroomOneBy, ShowroomSingles, Showroom!HandlerNames
<1>9. ShowroomDoing'
  BY <1>1, <1>2, <1>3, <1>4, <1>5, <1>6, ShowroomIdle DEF ShowroomSteps, ShowroomInv,
     ShowroomDoing, OnAdvert, ShowroomQuiet
<1>10. PhotoUploading'
  BY <1>1, <1>2, <1>3, <1>4, <1>5, <1>6, ShowroomIdle DEF ShowroomSteps, ShowroomInv,
     PhotoUploading, ShowroomQuiet
<1>11. ListsStored'
  BY <1>1, <1>2, <1>3, <1>4, <1>5, <1>6, ShowroomIdle DEF ShowroomSteps, ShowroomInv, ListsStored,
     ShowroomQuiet
<1>12. StampKept'
  BY <1>1, <1>2, <1>3, <1>4, <1>5, <1>6, ShowroomIdle DEF ShowroomSteps, ShowroomInv, StampKept,
     HasCopies, ShowroomQuiet
<1>13. CopiesMade'
  BY <1>1, <1>2, <1>3, <1>4, <1>5, <1>6, ShowroomIdle DEF ShowroomSteps, ShowroomInv, CopiesMade,
     ShowroomQuiet
<1>14. ShowroomSweeps'
  BY <1>1, <1>2, <1>3, <1>4, <1>5, <1>6, ShowroomIdle DEF ShowroomSteps, ShowroomInv,
     ShowroomSweeps, ShowroomQuiet
<1>15. PublishesOpen'
  BY <1>1, <1>2, <1>3, <1>4, <1>5, <1>6, ShowroomIdle DEF ShowroomSteps, ShowroomInv,
     PublishesOpen, ShowroomQuiet
<1>16. Showroom!RowHasObject'
  BY <1>1, <1>2, <1>3, <1>4, <1>5, <1>6, ShowroomIdle DEF ShowroomSteps, ShowroomInv,
     Showroom!RowHasObject, ShowroomQuiet
<1> QED BY <1>7, <1>8, <1>9, <1>10, <1>11, <1>12, <1>13, <1>14, <1>15, <1>16 DEF ShowroomInv

-----------------------------------------------------------------------------
\* The status writes.
LEMMA ShowroomWrites ==
  ASSUME ShowroomCalm, ShowroomInv, NEW t \in Tasks,
         Showroom!PublishWrite(t) \/ Showroom!UnpublishWrite(t) \/ Showroom!MarkSoldWrite(t)
           \/ Showroom!AdminHideWrite(t) \/ Showroom!AdminUnhideWrite(t)
  PROVE  ShowroomInv'
<1>1. ASSUME at[t] \in OnAdvert \ {"create"}
      PROVE  Showroom!Mine(t) \in Showroom!AdRows /\ Showroom!Mine(t).st # "none"
  BY <1>1 DEF ShowroomInv, Showroom!TypeOK, ShowroomDoing, Showroom!Mine
<1>4. my[t] \in Showroom!Jobs
  BY DEF ShowroomInv, Showroom!TypeOK
<1>5. CASE Showroom!PublishWrite(t)
  <2> DEFINE r == [Showroom!Mine(t) EXCEPT !.st = "ACTIVE"]
  <2>1. at[t] = "publish" /\ Showroom!SetAd(t, r) /\ Showroom!Keep(t, "m_read", my[t])
        /\ UNCHANGED <<Showroom!reportState, public>>
    BY <1>5 DEF Showroom!PublishWrite, Showroom!Go
  <2>2. Showroom!Mine(t) \in Showroom!AdRows /\ Showroom!Mine(t).st # "none"
    BY <1>1, <2>1 DEF OnAdvert
  <2>3. r \in Showroom!AdRows /\ r.st = "ACTIVE" /\ r.claimed = Showroom!Mine(t).claimed
        /\ r.stamped = Showroom!Mine(t).stamped /\ r.hidden = Showroom!Mine(t).hidden
    BY <2>2 DEF Showroom!AdRows, Showroom!Status
  <2> HIDE DEF r
  <2> QED BY <1>4, <2>1, <2>2, <2>3, ShowroomStatus DEF ShowroomQuiet
<1>6. CASE Showroom!UnpublishWrite(t)
  <2> DEFINE r == [Showroom!Mine(t) EXCEPT !.st = "HIDDEN"]
  <2>1. at[t] = "unpublish" /\ Showroom!SetAd(t, r) /\ Showroom!Keep(t, "idle", Showroom!NoJob)
        /\ UNCHANGED <<Showroom!reportState, public>>
    BY <1>6 DEF Showroom!UnpublishWrite, Showroom!SetStatus, Showroom!End
  <2>2. Showroom!Mine(t) \in Showroom!AdRows /\ Showroom!Mine(t).st # "none"
    BY <1>1, <2>1 DEF OnAdvert
  <2>3. r \in Showroom!AdRows /\ r.st = "HIDDEN" /\ r.claimed = Showroom!Mine(t).claimed
        /\ r.stamped = Showroom!Mine(t).stamped /\ r.hidden = Showroom!Mine(t).hidden
    BY <2>2 DEF Showroom!AdRows, Showroom!Status
  <2> HIDE DEF r
  <2> QED BY ShowroomIdle, <2>1, <2>2, <2>3, ShowroomStatus DEF ShowroomQuiet
<1>7. CASE Showroom!MarkSoldWrite(t)
  <2> DEFINE r == [Showroom!Mine(t) EXCEPT !.st = "SOLD"]
  <2>1. at[t] = "sold" /\ Showroom!SetAd(t, r) /\ Showroom!Keep(t, "idle", Showroom!NoJob)
        /\ UNCHANGED <<Showroom!reportState, public>>
    BY <1>7 DEF Showroom!MarkSoldWrite, Showroom!SetStatus, Showroom!End
  <2>2. Showroom!Mine(t) \in Showroom!AdRows /\ Showroom!Mine(t).st # "none"
    BY <1>1, <2>1 DEF OnAdvert
  <2>3. r \in Showroom!AdRows /\ r.st = "SOLD" /\ r.claimed = Showroom!Mine(t).claimed
        /\ r.stamped = Showroom!Mine(t).stamped /\ r.hidden = Showroom!Mine(t).hidden
    BY <2>2 DEF Showroom!AdRows, Showroom!Status
  <2> HIDE DEF r
  <2> QED BY ShowroomIdle, <2>1, <2>2, <2>3, ShowroomStatus DEF ShowroomQuiet
<1>8. CASE Showroom!AdminHideWrite(t)
  <2> DEFINE r == [Showroom!Mine(t) EXCEPT !.st = "HIDDEN", !.hidden = TRUE]
  <2>1. at[t] = "hide" /\ Showroom!SetAd(t, r) /\ Showroom!Keep(t, "idle", Showroom!NoJob)
        /\ UNCHANGED <<Showroom!reportState, public>>
    BY <1>8 DEF Showroom!AdminHideWrite, Showroom!SetStatus, Showroom!End
  <2>2. Showroom!Mine(t) \in Showroom!AdRows /\ Showroom!Mine(t).st # "none"
    BY <1>1, <2>1 DEF OnAdvert
  <2>3. r \in Showroom!AdRows /\ r.st = "HIDDEN" /\ r.claimed = Showroom!Mine(t).claimed
        /\ r.stamped = Showroom!Mine(t).stamped
    BY <2>2 DEF Showroom!AdRows, Showroom!Status
  <2> HIDE DEF r
  <2> QED BY ShowroomIdle, <2>1, <2>2, <2>3, ShowroomStatus DEF ShowroomQuiet
<1>9. CASE Showroom!AdminUnhideWrite(t)
  <2> DEFINE r == [Showroom!Mine(t) EXCEPT !.st = "ACTIVE", !.hidden = FALSE]
  <2>1. at[t] = "unhide" /\ Showroom!SetAd(t, r) /\ Showroom!Keep(t, "idle", Showroom!NoJob)
        /\ UNCHANGED <<Showroom!reportState, public>>
    BY <1>9 DEF Showroom!AdminUnhideWrite, Showroom!SetStatus, Showroom!End
  <2>2. Showroom!Mine(t) \in Showroom!AdRows /\ Showroom!Mine(t).st # "none"
    BY <1>1, <2>1 DEF OnAdvert
  <2>3. r \in Showroom!AdRows /\ r.st = "ACTIVE" /\ r.claimed = Showroom!Mine(t).claimed
        /\ r.stamped = Showroom!Mine(t).stamped
    BY <2>2 DEF Showroom!AdRows, Showroom!Status
  <2> HIDE DEF r
  <2> QED BY ShowroomIdle, <2>1, <2>2, <2>3, ShowroomStatus DEF ShowroomQuiet
<1> QED BY <1>5, <1>6, <1>7, <1>8, <1>9

-----------------------------------------------------------------------------
\* The calls.
LEMMA ShowroomPhotoCalls ==
  ASSUME ShowroomCalm, ShowroomInv, NEW t \in Tasks, Showroom!UploadPhoto(t) \/ Showroom!DeletePhoto(t)
         \/ Showroom!RemoveReport(t) \/ Showroom!EraseMe(t)
  PROVE  ShowroomInv'
<1>1. CASE Showroom!UploadPhoto(t)
  <2>1. PICK s \in Slots, x \in Shots :
          photo[s] # x /\ Showroom!Begin(t, "u_put",
            [Showroom!NoJob EXCEPT !.op = "uploadPhoto", !.key = <<s, x>>, !.old = <<s, photo[s]>>])
    BY <1>1 DEF Showroom!UploadPhoto
  <2> DEFINE j == [Showroom!NoJob EXCEPT !.op = "uploadPhoto", !.key = <<s, x>>,
             !.old = <<s, photo[s]>>]
  <2>2. photo[s] \in Shots \cup {NoShot}
    BY DEF ShowroomInv, Showroom!TypeOK
  <2>3. j \in Showroom!Jobs /\ j.op = "uploadPhoto" /\ j.key = <<s, x>> /\ j.old = <<s, photo[s]>>
    BY <2>2 DEF Showroom!NoJob, Showroom!Jobs, Showroom!HandlerNames, Showroom!Keys
  <2>4. Showroom!Begin(t, "u_put", j) /\ UNCHANGED <<Showroom!reportState, ad, public>> /\ ~removed
    BY <1>1, <2>1 DEF Showroom!UploadPhoto
  <2>5. <<s, x>> \in Showroom!Keys /\ j.op \in ShowroomSingles
    BY <2>3 DEF Showroom!Keys, ShowroomSingles, Showroom!HandlerNames
  <2> HIDE DEF j
  <2> QED BY <2>1, <2>3, <2>4, <2>5, ShowroomBegun DEF Showroom!Labels, OnAdvert
<1>2. CASE Showroom!DeletePhoto(t)
  <2>1. PICK s \in Slots : photo[s] # NoShot /\ Showroom!Begin(t, "d_object",
             [Showroom!NoJob EXCEPT !.op = "deletePhoto", !.key = <<s, photo[s]>>])
    BY <1>2 DEF Showroom!DeletePhoto
  <2> DEFINE j == [Showroom!NoJob EXCEPT !.op = "deletePhoto", !.key = <<s, photo[s]>>]
  <2>2. photo[s] \in Shots
    BY <2>1 DEF ShowroomInv, Showroom!TypeOK
  <2>3. j \in Showroom!Jobs /\ j.op = "deletePhoto" /\ j.key = <<s, photo[s]>>
    BY <2>2 DEF Showroom!NoJob, Showroom!Jobs, Showroom!HandlerNames, Showroom!Keys
  <2>4. Showroom!Begin(t, "d_object", j) /\ UNCHANGED <<Showroom!reportState, ad, public>> /\ ~removed
    BY <1>2, <2>1 DEF Showroom!DeletePhoto
  <2>5. <<s, photo[s]>> \in Showroom!Keys /\ j.op \in ShowroomSingles
    BY <2>2, <2>3 DEF Showroom!Keys, ShowroomSingles, Showroom!HandlerNames
  <2> HIDE DEF j
  <2> QED BY <2>3, <2>4, <2>5, ShowroomBegun DEF Showroom!Labels, OnAdvert
<1>3. ASSUME NEW op \in {"removeReport", "eraseMe"}
      PROVE  [Showroom!NoJob EXCEPT !.op = op] \in Showroom!Jobs
             /\ [Showroom!NoJob EXCEPT !.op = op].op = op /\ op \in ShowroomSingles
  BY DEF Showroom!NoJob, Showroom!Jobs, Showroom!HandlerNames, ShowroomSingles
<1>4. CASE Showroom!RemoveReport(t)
  <2> DEFINE j == [Showroom!NoJob EXCEPT !.op = "removeReport"]
  <2>1. Showroom!Begin(t, "r_objects", j) /\ UNCHANGED <<Showroom!reportState, ad, public>>
        /\ j \in Showroom!Jobs /\ j.op \in ShowroomSingles
    BY <1>3, <1>4 DEF Showroom!RemoveReport
  <2> HIDE DEF j
  <2> QED BY <2>1, ShowroomBegun DEF Showroom!Labels, OnAdvert
<1>5. CASE Showroom!EraseMe(t)
  <2> DEFINE j == [Showroom!NoJob EXCEPT !.op = "eraseMe"]
  <2>1. Showroom!Begin(t, "e_tx", j) /\ UNCHANGED <<Showroom!reportState, ad, public>>
        /\ j \in Showroom!Jobs /\ j.op \in ShowroomSingles
    BY <1>3, <1>5 DEF Showroom!EraseMe
  <2> HIDE DEF j
  <2> QED BY <2>1, ShowroomBegun DEF Showroom!Labels, OnAdvert
<1> QED BY <1>1, <1>2, <1>4, <1>5

LEMMA ShowroomAsked ==
  ASSUME ShowroomCalm, ShowroomInv, NEW t \in Tasks, NEW op \in Showroom!HandlerNames,
         NEW label \in OnAdvert, NEW a \in Ads,
         Showroom!Ask(t, op, label, a),
         label \notin {"m_copy", "m_stamp", "x_tx", "x_sweep"},
         op \in ShowroomSingles \/ label \in {"unpublish", "sold"},
         label = "unhide" => op = "adminUnhide",
         label # "create" => ad[a].st # "none",
         label = "publish" => ~ad[a].hidden
  PROVE  ShowroomInv'
<1> DEFINE j == [Showroom!NoJob EXCEPT !.op = op, !.ad = a]
<1>1. j \in Showroom!Jobs /\ j.op = op /\ j.ad = a
  BY DEF Showroom!NoJob, Showroom!Jobs
<1>2. Showroom!Begin(t, label, j) /\ UNCHANGED <<Showroom!reportState, ad, public>>
  BY DEF Showroom!Ask
<1>3. label \in Showroom!Labels
  BY DEF OnAdvert, Showroom!Labels
<1>4. label \notin {"u_put", "d_object", "idle"}
  BY DEF OnAdvert
<1> HIDE DEF j
<1> QED BY <1>1, <1>2, <1>3, <1>4, ShowroomBegun DEF ShowroomQuiet

LEMMA ShowroomAdvertCalls ==
  ASSUME ShowroomCalm, ShowroomInv, NEW t \in Tasks,
         \/ Showroom!Create(t) \/ Showroom!Publish(t) \/ Showroom!Unpublish(t) \/ Showroom!MarkSold(t)
            \/ Showroom!AdminHide(t) \/ Showroom!AdminUnhide(t)
         \/ Showroom!MirrorPending(t) \/ Showroom!RemoveAd(t) \/ Showroom!AdminDelete(t)
  PROVE  ShowroomInv'
<1>1. PICK a \in Ads, op \in Showroom!HandlerNames,
           label \in {"create", "publish", "unpublish", "sold", "hide", "unhide", "m_read", "x_keys"} :
        /\ Showroom!Ask(t, op, label, a)
        /\ op \in ShowroomSingles \/ label \in {"unpublish", "sold"}
        /\ label = "unhide" => op = "adminUnhide"
        /\ label # "create" => ad[a].st # "none"
        /\ label = "publish" => ~ad[a].hidden
  BY DEF Showroom!Create, Showroom!Publish, Showroom!Unpublish, Showroom!MarkSold,
     Showroom!AdminHide, Showroom!AdminUnhide, Showroom!MirrorPending, Showroom!RemoveAd,
     Showroom!AdminDelete, Showroom!HandlerNames, ShowroomSingles, Showroom!Exists
<1>2. label \in OnAdvert
  BY DEF OnAdvert
<1> QED BY <1>1, <1>2, ShowroomAsked

-----------------------------------------------------------------------------
LEMMA ShowroomStep == ShowroomCalm /\ ShowroomInv /\ (Showroom!Next \/ UNCHANGED Showroom!vars)
  => ShowroomInv'
<1>1. CASE UNCHANGED Showroom!vars
  BY <1>1, ShowroomSettled
<1>2. ASSUME ShowroomCalm, ShowroomInv, NEW t \in Tasks, Showroom!Called(t) PROVE ShowroomInv'
  BY <1>2, ShowroomPhotoCalls, ShowroomAdvertCalls DEF Showroom!Called
<1>3. ASSUME ShowroomCalm, ShowroomInv, NEW t \in Tasks, Showroom!Continue(t) PROVE ShowroomInv'
  BY <1>3, ShowroomUploadPut, ShowroomUploadRow, ShowroomUploadDrop, ShowroomWriteManifest,
     ShowroomClearStamp, ShowroomDeleteObject, ShowroomDeleteRow, ShowroomRemoveObjects,
     ShowroomRemoveRows, ShowroomCreateRow, ShowroomWrites, ShowroomMirrorRead,
     ShowroomMirrorCopy, ShowroomMirrorStamp, ShowroomDeleteKeys, ShowroomDeleteTx,
     ShowroomDeleteSweep, ShowroomEraseTx, ShowroomEraseKeys, ShowroomEraseSweep,
     ShowroomEraseStamp DEF Showroom!Continue
<1>4. ASSUME ShowroomCalm, ShowroomInv, NEW t \in Tasks, Showroom!Die(t) PROVE ShowroomInv'
  BY <1>4, ShowroomEnded DEF Showroom!Die, ShowroomCalm
<1> QED BY <1>1, <1>2, <1>3, <1>4 DEF Showroom!Next

LEMMA UnhidesAreTheAdmins == ShowroomCalm /\ ShowroomInv /\ Showroom!Next => Showroom!OnlyAdminUnhides
<1> SUFFICES ASSUME ShowroomCalm, ShowroomInv, Showroom!Next, NEW a \in Ads, ad[a].hidden,
                    ad[a].st # "ACTIVE", ad'[a].st = "ACTIVE"
             PROVE  \E t \in Tasks : my[t].op = "adminUnhide" /\ my[t].ad = a
  BY DEF Showroom!OnlyAdminUnhides
<1>1. ad # ad' /\ ad \in [Ads -> Showroom!AdRows]
  BY DEF ShowroomInv, Showroom!TypeOK
<1>2. ASSUME NEW t \in Tasks, NEW r, Showroom!SetAd(t, r), r.st # "ACTIVE" \/ my[t].ad # a PROVE FALSE
  BY <1>1, <1>2 DEF Showroom!SetAd
<1>3. ASSUME NEW t \in Tasks, Showroom!Called(t) \/ Showroom!Die(t) PROVE FALSE
  BY <1>1, <1>3 DEF Showroom!Called, Showroom!Die, Showroom!UploadPhoto, Showroom!DeletePhoto,
     Showroom!RemoveReport, Showroom!Create, Showroom!Publish, Showroom!Unpublish,
     Showroom!MarkSold, Showroom!AdminHide, Showroom!AdminUnhide, Showroom!MirrorPending,
     Showroom!RemoveAd, Showroom!AdminDelete, Showroom!EraseMe, Showroom!Ask
<1>4. PICK t \in Tasks : Showroom!Continue(t)
  BY <1>3 DEF Showroom!Next
<1>5. ASSUME NEW r, Showroom!SetAd(t, r) PROVE my[t].ad = a /\ r.st = "ACTIVE"
  BY <1>1, <1>5, <1>2
<1>6. CASE UNCHANGED ad
  BY <1>1, <1>6
<1>7. CASE Showroom!ClearStamp(t) \/ Showroom!EraseStamp(t) \/ Showroom!EraseTx(t)
  <2>1. [ad[a] EXCEPT !.stamped = FALSE].st = ad[a].st /\ [ad[a] EXCEPT !.st = "DELETED"].st = "DELETED"
    BY <1>1 DEF Showroom!AdRows
  <2> QED BY <1>7, <2>1 DEF Showroom!ClearStamp, Showroom!EraseStamp, Showroom!EraseTx
<1>8. CASE Showroom!CreateRow(t)
  <2>1. [Showroom!NoAd EXCEPT !.st = "DRAFT", !.claimed = TRUE].st = "DRAFT"
    BY DEF Showroom!NoAd
  <2>2. Showroom!SetAd(t, [Showroom!NoAd EXCEPT !.st = "DRAFT", !.claimed = TRUE])
    BY <1>6, <1>8 DEF Showroom!CreateRow
  <2> QED BY <1>5, <2>1, <2>2
<1>9. \A b \in Ads : ad[b] \in Showroom!AdRows
  BY <1>1
<1>10. CASE Showroom!MirrorStamp(t)
  <2>1. Showroom!SetAd(t, [Showroom!Mine(t) EXCEPT !.stamped = @ \/ ~my[t].failed])
    BY <1>10 DEF Showroom!MirrorStamp
  <2>2. my[t].ad = a /\ [Showroom!Mine(t) EXCEPT !.stamped = @ \/ ~my[t].failed].st = "ACTIVE"
    BY <1>5, <2>1
  <2> QED BY <1>9, <2>2 DEF Showroom!Mine, Showroom!AdRows
<1>11. CASE Showroom!DeleteTx(t)
  <2>1. Showroom!SetAd(t, [Showroom!Mine(t) EXCEPT !.st = "DELETED", !.claimed = FALSE,
        !.stamped = FALSE])
    BY <1>11 DEF Showroom!DeleteTx, Showroom!DeleteRowOf
  <2>2. my[t].ad = a /\ [Showroom!Mine(t) EXCEPT !.st = "DELETED", !.claimed = FALSE,
        !.stamped = FALSE].st = "ACTIVE"
    BY <1>5, <2>1
  <2> QED BY <1>9, <2>2 DEF Showroom!Mine, Showroom!AdRows
<1>12. CASE Showroom!UnpublishWrite(t) \/ Showroom!MarkSoldWrite(t) \/ Showroom!AdminHideWrite(t)
  <2>1. \/ Showroom!SetAd(t, [Showroom!Mine(t) EXCEPT !.st = "HIDDEN"])
        \/ Showroom!SetAd(t, [Showroom!Mine(t) EXCEPT !.st = "SOLD"])
        \/ Showroom!SetAd(t, [Showroom!Mine(t) EXCEPT !.st = "HIDDEN", !.hidden = TRUE])
    BY <1>12 DEF Showroom!UnpublishWrite, Showroom!MarkSoldWrite, Showroom!AdminHideWrite,
       Showroom!SetStatus
  <2>2. /\ my[t].ad = a
        /\ \/ [Showroom!Mine(t) EXCEPT !.st = "HIDDEN"].st = "ACTIVE"
           \/ [Showroom!Mine(t) EXCEPT !.st = "SOLD"].st = "ACTIVE"
           \/ [Showroom!Mine(t) EXCEPT !.st = "HIDDEN", !.hidden = TRUE].st = "ACTIVE"
    BY <1>5, <2>1
  <2> QED BY <1>9, <2>2 DEF Showroom!Mine, Showroom!AdRows
<1>13. CASE Showroom!PublishWrite(t)
  <2>1. my[t].ad = a /\ at[t] = "publish"
    BY <1>5, <1>13 DEF Showroom!PublishWrite
  <2> QED BY <2>1 DEF ShowroomInv, PublishesOpen
<1>14. CASE Showroom!AdminUnhideWrite(t)
  <2>1. my[t].ad = a /\ at[t] = "unhide"
    BY <1>5, <1>14 DEF Showroom!AdminUnhideWrite, Showroom!SetStatus
  <2> QED BY <2>1 DEF ShowroomInv, ShowroomDoing
<1> QED BY <1>4, <1>6, <1>7, <1>8, <1>10, <1>11, <1>12, <1>13, <1>14
           DEF Showroom!Continue, Showroom!UploadPut, Showroom!UploadRow, Showroom!UploadDrop,
               Showroom!WriteManifest, Showroom!DeleteObject, Showroom!DeleteRow,
               Showroom!RemoveObjects, Showroom!RemoveRows, Showroom!MirrorRead,
               Showroom!MirrorCopy, Showroom!DeleteKeys, Showroom!DeleteSweep, Showroom!EraseKeys,
               Showroom!EraseSweep, Showroom!Sweep


-----------------------------------------------------------------------------
(***************************************************************************)
(* The gallery: a row names an object that is there, nothing is public that no *)
(* row names, and the cap is kept.                                          *)
(***************************************************************************)
\* The bounds are numbers.
GalleryCalm == MaxPhotos \in Nat /\ MaxUploads \in Nat
\* The pairs the model keeps apart.
PhotoPairs == {{"addPhoto"}, {"addPhoto", "remove"}, {"mirror", "deletePhoto"}, {"mirror", "remove"}}

PhotoJobShaped(j) == j = [op |-> j.op, key |-> j.key, hash |-> j.hash, at |-> j.at, ids |-> j.ids,
  todo |-> j.todo]
PhotoShaped(r) == r = [key |-> r.key, at |-> r.at, hash |-> r.hash, order |-> r.order]
  /\ r.at \in Gallery!Places
GalleryIs(t, op) == my[t].op = op

GalleryShape ==
  /\ at = [t \in Tasks |-> at[t]] /\ my = [t \in Tasks |-> my[t]]
     /\ \A t \in Tasks : PhotoJobShaped(my[t])
  /\ IsFiniteSet(photos) /\ \A r \in photos : PhotoShaped(r)
KeysNumbered ==
  /\ uploads \in Nat /\ Gallery!Keys \subseteq 1 .. uploads /\ cdn \subseteq 1 .. uploads
     /\ kept \subseteq 1 .. uploads
  /\ \A r, q \in photos : r.key = q.key => r = q
GalleryDoing ==
  \A t \in Tasks :
    /\ at[t] = "idle" => GalleryIs(t, "none")
    /\ at[t] \in {"a_put", "a_row"} => GalleryIs(t, "addPhoto")
    /\ at[t] \in {"d_object", "d_row"} => GalleryIs(t, "deletePhoto")
    /\ at[t] = "o_write" => GalleryIs(t, "reorderPhotos")
    /\ at[t] \in {"r_rows", "r_objects"} => GalleryIs(t, "remove")
    /\ at[t] \in {"m_copy", "m_row"} => GalleryIs(t, "mirror")
    /\ at[t] \in Gallery!Labels
GalleryOneBy == \A t, u \in Tasks : t # u /\ at[t] # "idle" /\ at[u] # "idle"
  => {my[t].op, my[u].op} \notin PhotoPairs
\* The key of an upload is the newest, and of nothing else.
KeysFresh ==
  \A t \in Tasks :
    /\ my[t].key \in 0 .. uploads
    /\ GalleryIs(t, "addPhoto") => /\ my[t].key = uploads /\ uploads > 0 /\ uploads \notin Gallery!Keys
                                   /\ \A u \in Tasks : u # t => my[u].key # uploads
                                   /\ Cardinality(photos) < MaxPhotos
                                      /\ \A r \in photos : r.hash # my[t].hash
GalleryWired == ~configured => cdn = {} /\ \A r \in photos : r.at = "private"
PhotosPlaced == \A r \in photos : r.at = "private" /\ r.key \in cdn => \E t \in Tasks : at[t] = "m_row"
  /\ my[t].key = r.key
PhotoAdding ==
  \A t \in Tasks :
    /\ at[t] = "a_put" => my[t].key \notin cdn
    /\ at[t] = "a_row" /\ my[t].at = "public" => my[t].key \in cdn /\ configured
    /\ at[t] = "a_row" /\ my[t].at # "public" => my[t].key \in kept /\ my[t].key \notin cdn
       /\ my[t].at = "private"
PhotoDeleting ==
  \A t \in Tasks :
    /\ at[t] = "d_row" => my[t].key \notin cdn
    /\ at[t] = "d_object" /\ my[t].at = "private" => my[t].key \notin cdn
    /\ at[t] = "d_object" => my[t].at \in Gallery!Places
PhotosRemoving ==
  \A t \in Tasks :
    /\ GalleryIs(t, "remove") => my[t].key = 0 /\ \A r \in my[t].todo :
                             PhotoShaped(r) /\ (r.at = "private" => r.key \notin cdn)
                               /\ (r.at = "public" => configured)
    /\ at[t] = "r_objects" => photos = {}
    /\ at[t] = "r_rows" => \A r \in photos : \E q \in my[t].todo : q.key = r.key
PhotosCopying ==
  \A t \in Tasks : GalleryIs(t, "mirror") =>
    /\ configured /\ Gallery!KeysIn(my[t].todo) \subseteq Gallery!Keys
    /\ at[t] = "m_row" => my[t].key \in Gallery!Keys /\ my[t].key \in cdn
    /\ at[t] = "m_copy" => my[t].key = 0 \/ \E r \in photos : r.key = my[t].key /\ r.at = "public"
PhotosPlacing ==
  \A t \in Tasks : GalleryIs(t, "reorderPhotos") =>
    my[t].key = 0 /\ Range(my[t].ids) = my[t].todo /\ IsInjective(my[t].ids)
      /\ DOMAIN my[t].ids \subseteq Int
GalleryInv ==
  /\ GalleryShape /\ KeysNumbered /\ GalleryDoing /\ GalleryOneBy /\ KeysFresh /\ GalleryWired
     /\ PhotosPlaced /\ PhotoAdding /\ PhotoDeleting
  /\ PhotosRemoving /\ PhotosCopying /\ PhotosPlacing /\ Gallery!GalleryHolds

-----------------------------------------------------------------------------
\* The gallery counts and reads sequences as everybody does.
LEMMA GalleryCounts ==
  /\ \A S : Gallery!Cardinality(S) = Cardinality(S)
  /\ \A f : Gallery!Range(f) = Range(f) /\ Gallery!IsInjective(f) = IsInjective(f)
BY DEF Gallery!Cardinality, Cardinality, Gallery!Range, Range, Gallery!IsInjective, IsInjective

LEMMA GalleryInit == GalleryCalm /\ Gallery!Init => GalleryInv
<1> SUFFICES ASSUME GalleryCalm, Gallery!Init PROVE GalleryInv
  OBVIOUS
<1>1. GalleryShape
  BY FS_EmptySet DEF Gallery!Init, GalleryShape, Gallery!NoJob, Gallery!Job, PhotoJobShaped
<1>2. \A t \in Tasks : at[t] = "idle" /\ my[t].op = "none" /\ my[t].key = 0
  BY DEF Gallery!Init, Gallery!NoJob, Gallery!Job
<1>3. KeysNumbered /\ GalleryDoing /\ GalleryOneBy /\ KeysFresh /\ GalleryWired /\ PhotosPlaced
  BY <1>2 DEF Gallery!Init, KeysNumbered, GalleryDoing, GalleryOneBy, KeysFresh, GalleryWired,
     PhotosPlaced, Gallery!Keys, Gallery!KeysIn, GalleryIs, Gallery!Labels
<1>4. PhotoAdding /\ PhotoDeleting /\ PhotosRemoving /\ PhotosCopying /\ PhotosPlacing
  BY <1>2 DEF Gallery!Init, PhotoAdding, PhotoDeleting, PhotosRemoving, PhotosCopying,
     PhotosPlacing, GalleryIs
<1>5. Gallery!GalleryHolds
  BY GalleryCounts, FS_EmptySet DEF Gallery!Init, Gallery!GalleryHolds, Gallery!RowHasObject,
     Gallery!PublicIsNamed, Gallery!FitsTheCap, GalleryCalm
<1> QED BY <1>1, <1>3, <1>4, <1>5 DEF GalleryInv

\* Rows that are written again stay as many, with their keys and digests.
PhotosRewritten(old, new) ==
  /\ IsFiniteSet(new) /\ Cardinality(new) <= Cardinality(old) /\ \A r \in new : PhotoShaped(r)
  /\ \A r \in new : \E q \in old : r.key = q.key /\ r.hash = q.hash
  /\ \A q \in old : \E r \in new : r.key = q.key /\ r.hash = q.hash
  /\ \A r, q \in new : r.key = q.key => r = q

LEMMA WritingAgain ==
  ASSUME NEW old, IsFiniteSet(old), \A r, q \in old : r.key = q.key => r = q, NEW f, DOMAIN f = old,
         \A r \in old : PhotoShaped(f[r]) /\ f[r].key = r.key /\ f[r].hash = r.hash
  PROVE  PhotosRewritten(old, {f[r] : r \in old})
<1> DEFINE new == {f[r] : r \in old}
<1>1. PICK g \in Surjection(old, new) : TRUE
  <2>1. [r \in old |-> f[r]] \in Surjection(old, new)
    BY DEF Surjection
  <2> QED BY <2>1
<1>2. IsFiniteSet(new) /\ Cardinality(new) <= Cardinality(old)
  BY <1>1, FS_Surjection
<1> QED BY <1>2 DEF PhotosRewritten

GallerySteps(t, label, j) ==
  /\ \A u \in Tasks : at'[u] = (IF u = t THEN label ELSE at[u]) /\ my'[u] = (IF u = t THEN j ELSE my[u])
  /\ at' = [u \in Tasks |-> at'[u]] /\ my' = [u \in Tasks |-> my'[u]]
     /\ \A u \in Tasks : PhotoJobShaped(my'[u])

LEMMA GalleryStepping ==
  ASSUME GalleryShape, NEW t \in Tasks, NEW label, NEW j, Gallery!Keep(t, label, j), PhotoJobShaped(j)
  PROVE  GallerySteps(t, label, j)
BY DEF GalleryShape, Gallery!Keep, GallerySteps

LEMMA GalleryJobs ==
  ASSUME NEW op, NEW key, NEW hash
  PROVE  LET j == Gallery!Job(op, key, hash) IN
         PhotoJobShaped(j) /\ j.op = op /\ j.key = key /\ j.hash = hash /\ j.at = "private"
           /\ j.todo = {}
BY DEF Gallery!Job, PhotoJobShaped

LEMMA PhotoAtShaped ==
  ASSUME NEW j, PhotoJobShaped(j), NEW x
  PROVE  LET i == [j EXCEPT !.at = x] IN PhotoJobShaped(i) /\ i.op = j.op /\ i.key = j.key
         /\ i.hash = j.hash /\ i.at = x /\ i.ids = j.ids /\ i.todo = j.todo
<1>1. [j EXCEPT !.at = x] = [op |-> j.op, key |-> j.key, hash |-> j.hash, at |-> x, ids |-> j.ids,
      todo |-> j.todo]
  BY DEF PhotoJobShaped
<1> QED BY <1>1 DEF PhotoJobShaped

LEMMA PhotoTodoShaped ==
  ASSUME NEW j, PhotoJobShaped(j), NEW x
  PROVE  LET i == [j EXCEPT !.todo = x] IN PhotoJobShaped(i) /\ i.op = j.op /\ i.key = j.key
         /\ i.hash = j.hash /\ i.at = j.at /\ i.ids = j.ids /\ i.todo = x
<1>1. [j EXCEPT !.todo = x] = [op |-> j.op, key |-> j.key, hash |-> j.hash, at |-> j.at, ids |-> j.ids,
      todo |-> x]
  BY DEF PhotoJobShaped
<1> QED BY <1>1 DEF PhotoJobShaped

LEMMA PhotoKeyShaped ==
  ASSUME NEW j, PhotoJobShaped(j), NEW x
  PROVE  LET i == [j EXCEPT !.key = x] IN PhotoJobShaped(i) /\ i.op = j.op /\ i.key = x
         /\ i.hash = j.hash /\ i.at = j.at /\ i.ids = j.ids /\ i.todo = j.todo
<1>1. [j EXCEPT !.key = x] = [op |-> j.op, key |-> x, hash |-> j.hash, at |-> j.at, ids |-> j.ids,
      todo |-> j.todo]
  BY DEF PhotoJobShaped
<1> QED BY <1>1 DEF PhotoJobShaped

LEMMA GalleryBegins ==
  ASSUME GalleryInv, NEW t \in Tasks, NEW label, NEW j, Gallery!Begin(t, label, j), PhotoJobShaped(j)
  PROVE  GallerySteps(t, label, j) /\ at[t] = "idle" /\ GalleryOneBy'
<1>1. GallerySteps(t, label, j) /\ at[t] = "idle"
  BY GalleryStepping DEF GalleryInv, Gallery!Begin, Gallery!Keep
<1>2. \A u \in Tasks : at[u] # "idle" => {j.op, my[u].op} \notin PhotoPairs
  BY DEF Gallery!Begin, PhotoPairs
<1>3. \A u \in Tasks : {j.op, my[u].op} = {my[u].op, j.op}
  OBVIOUS
<1>4. GalleryOneBy'
  BY <1>1, <1>2, <1>3 DEF GallerySteps, GalleryOneBy, GalleryInv
<1> QED BY <1>1, <1>4

LEMMA AddingPhoto ==
  ASSUME GalleryCalm, GalleryInv, NEW t \in Tasks, Gallery!AddPhoto(t)
  PROVE  GalleryInv'
<1>1. PICK p \in Pictures : p \notin {r.hash : r \in photos}
           /\ Gallery!Begin(t, "a_put", Gallery!Job("addPhoto", uploads + 1, p))
  BY DEF Gallery!AddPhoto
<1> DEFINE j == Gallery!Job("addPhoto", uploads + 1, p)
<1>2. /\ uploads' = uploads + 1 /\ uploads < MaxUploads /\ Cardinality(photos) < MaxPhotos
      /\ UNCHANGED <<photos, kept, cdn, configured, shut>>
  BY GalleryCounts DEF Gallery!AddPhoto
<1>3. PhotoJobShaped(j) /\ j.op = "addPhoto" /\ j.key = uploads + 1 /\ j.hash = p
  BY GalleryJobs
<1>4. GallerySteps(t, "a_put", j) /\ at[t] = "idle" /\ GalleryOneBy'
  BY <1>1, <1>3, GalleryBegins
<1>5. \A u \in Tasks : u # t => ~(at[u] # "idle"
      /\ (GalleryIs(u, "addPhoto") \/ GalleryIs(u, "remove")))
  <2>1. \A u \in Tasks : at[u] # "idle" => {"addPhoto", my[u].op} \notin PhotoPairs
    BY <1>1, <1>3 DEF Gallery!Begin, PhotoPairs
  <2>2. {"addPhoto", "addPhoto"} \in PhotoPairs /\ {"addPhoto", "remove"} \in PhotoPairs
    BY DEF PhotoPairs
  <2> QED BY <2>1, <2>2 DEF GalleryIs
<1> HIDE DEF j
<1>6. GalleryShape' /\ KeysNumbered' /\ GalleryDoing'
  BY <1>2, <1>3, <1>4 DEF GallerySteps, GalleryInv, GalleryShape, KeysNumbered, GalleryDoing,
     GalleryIs, Gallery!Keys, Gallery!KeysIn, Gallery!Labels
<1>7. KeysFresh'
  BY <1>1, <1>2, <1>3, <1>4, <1>5 DEF GallerySteps, GalleryInv, KeysNumbered, GalleryDoing,
     KeysFresh, GalleryIs, Gallery!Keys, Gallery!KeysIn
<1>8. GalleryWired' /\ PhotosPlaced'
  BY <1>2, <1>3, <1>4 DEF GallerySteps, GalleryInv, GalleryWired, PhotosPlaced
<1>9. PhotoAdding' /\ PhotoDeleting' /\ PhotosRemoving' /\ PhotosCopying' /\ PhotosPlacing'
  BY <1>2, <1>3, <1>4 DEF GallerySteps, GalleryInv, KeysNumbered, PhotoAdding, PhotoDeleting,
     PhotosRemoving, PhotosCopying, PhotosPlacing, GalleryIs, Gallery!Keys
<1>10. Gallery!RowHasObject'
  BY <1>2, <1>3, <1>4 DEF GallerySteps, GalleryInv, GalleryDoing, Gallery!GalleryHolds,
     Gallery!RowHasObject, Gallery!BeingDeleted, GalleryIs
<1>11. Gallery!PublicIsNamed'
  BY <1>2, <1>3, <1>4 DEF GallerySteps, GalleryInv, GalleryDoing, Gallery!GalleryHolds,
     Gallery!PublicIsNamed, Gallery!InFlight, Gallery!KeysIn, GalleryIs
<1>12. Gallery!FitsTheCap'
  BY GalleryCounts, <1>2 DEF GalleryInv, Gallery!GalleryHolds, Gallery!FitsTheCap
<1> QED BY <1>4, <1>6, <1>7, <1>8, <1>9, <1>10, <1>11, <1>12 DEF GalleryInv, Gallery!GalleryHolds

LEMMA GalleryExcluded ==
  ASSUME GalleryCalm, GalleryInv
  PROVE  \A t, u \in Tasks : t # u =>
           /\ GalleryIs(t, "addPhoto") => ~GalleryIs(u, "addPhoto") /\ ~GalleryIs(u, "remove")
           /\ GalleryIs(t, "mirror") => ~GalleryIs(u, "deletePhoto") /\ ~GalleryIs(u, "remove")
<1> SUFFICES ASSUME NEW t \in Tasks, NEW u \in Tasks, t # u
             PROVE  /\ GalleryIs(t, "addPhoto") => ~GalleryIs(u, "addPhoto") /\ ~GalleryIs(u, "remove")
                    /\ GalleryIs(t, "mirror") => ~GalleryIs(u, "deletePhoto") /\ ~GalleryIs(u, "remove")
  OBVIOUS
<1>1. /\ {"addPhoto", "addPhoto"} \in PhotoPairs /\ {"addPhoto", "remove"} \in PhotoPairs
      /\ {"mirror", "deletePhoto"} \in PhotoPairs /\ {"mirror", "remove"} \in PhotoPairs
  BY DEF PhotoPairs
<1>2. at[t] # "idle" /\ at[u] # "idle" => {my[t].op, my[u].op} \notin PhotoPairs
  BY DEF GalleryInv, GalleryOneBy
<1>3. at[t] = "idle" \/ at[u] = "idle" => GalleryIs(t, "none") \/ GalleryIs(u, "none")
  BY DEF GalleryInv, GalleryDoing
<1> QED BY <1>1, <1>2, <1>3 DEF GalleryIs

LEMMA GalleryIdle == PhotoJobShaped(Gallery!NoJob) /\ Gallery!NoJob.op = "none" /\ Gallery!NoJob.key = 0
  /\ Gallery!NoJob.todo = {}
<1>1. Gallery!NoJob = [op |-> "none", key |-> 0, hash |-> "none", at |-> "private", ids |-> <<>>,
      todo |-> {}]
  BY DEF Gallery!NoJob, Gallery!Job
<1>2. Gallery!NoJob.op = "none" /\ Gallery!NoJob.key = 0 /\ Gallery!NoJob.hash = "none"
      /\ Gallery!NoJob.at = "private" /\ Gallery!NoJob.ids = <<>> /\ Gallery!NoJob.todo = {}
  BY <1>1
<1> QED BY <1>1, <1>2 DEF PhotoJobShaped

LEMMA PuttingObject ==
  ASSUME GalleryCalm, GalleryInv, NEW t \in Tasks, Gallery!PutObject(t)
  PROVE  GalleryInv'
<1>1. /\ at[t] = "a_put" /\ UNCHANGED <<photos, configured, shut, uploads>> /\ GalleryIs(t, "addPhoto")
         /\ PhotoJobShaped(my[t])
      /\ my[t].key \in 1 .. uploads
  BY DEF Gallery!PutObject, GalleryInv, GalleryShape, KeysNumbered, GalleryDoing, KeysFresh
<1> DEFINE place == IF configured THEN "public" ELSE "private"
           j == [my[t] EXCEPT !.at = place]
<1>2. CASE GallerySteps(t, "idle", Gallery!NoJob) /\ UNCHANGED <<kept, cdn>>
  <2>1. GalleryShape' /\ KeysNumbered' /\ GalleryDoing'
    BY <1>1, <1>2, GalleryIdle DEF GallerySteps, GalleryInv, GalleryShape, KeysNumbered,
       GalleryDoing, GalleryIs, Gallery!Keys, Gallery!KeysIn, Gallery!Labels
  <2>2. GalleryOneBy'
    BY <1>1, <1>2, GalleryIdle DEF GallerySteps, GalleryInv, GalleryDoing, GalleryOneBy, GalleryIs
  <2>3. KeysFresh'
    BY <1>1, <1>2, GalleryIdle DEF GallerySteps, GalleryInv, KeysNumbered, GalleryDoing,
       KeysFresh, GalleryIs, Gallery!Keys, Gallery!KeysIn
  <2>4. GalleryWired' /\ PhotosPlaced'
    BY <1>1, <1>2, GalleryIdle DEF GallerySteps, GalleryInv, KeysNumbered, GalleryDoing,
       PhotosCopying, PhotoAdding, KeysFresh, GalleryWired, PhotosPlaced, GalleryIs, Gallery!Keys,
       Gallery!KeysIn
  <2>5. PhotoAdding' /\ PhotoDeleting'
    BY <1>1, <1>2, GalleryIdle DEF GallerySteps, GalleryInv, KeysNumbered, GalleryDoing,
       KeysFresh, PhotoAdding, PhotoDeleting, PhotosPlaced, PhotosCopying, GalleryWired,
       GalleryIs, Gallery!Keys, Gallery!KeysIn
  <2>6. PhotosRemoving'
    BY <1>1, <1>2, GalleryIdle DEF GallerySteps, GalleryInv, GalleryShape, KeysNumbered,
       GalleryDoing, PhotosRemoving, PhotosPlaced, GalleryWired, GalleryIs, Gallery!Keys,
       Gallery!KeysIn
  <2>6c. PhotosCopying'
    BY <1>1, <1>2, GalleryIdle DEF GallerySteps, GalleryInv, GalleryDoing, PhotosCopying,
       GalleryIs, Gallery!Keys
  <2>6p. PhotosPlacing'
    BY <1>1, <1>2, GalleryIdle DEF GallerySteps, GalleryInv, GalleryDoing, PhotosPlacing, GalleryIs
  <2>7. Gallery!RowHasObject'
    BY <1>1, <1>2, GalleryIdle DEF GallerySteps, GalleryInv, GalleryShape, KeysNumbered,
       GalleryDoing, Gallery!GalleryHolds, Gallery!RowHasObject, Gallery!BeingDeleted,
       PhotoAdding, PhotosCopying, PhotosRemoving, GalleryIs, Gallery!Keys, Gallery!KeysIn
  <2>8. Gallery!PublicIsNamed'
    BY <1>1, <1>2, GalleryIdle DEF GallerySteps, GalleryInv, GalleryShape, KeysNumbered,
       GalleryDoing, Gallery!GalleryHolds, Gallery!PublicIsNamed, Gallery!InFlight, PhotoAdding,
       PhotoDeleting, PhotosRemoving, PhotosCopying, GalleryWired, PhotoShaped, GalleryIs,
       Gallery!Keys, Gallery!KeysIn
  <2>9. Gallery!FitsTheCap'
    BY GalleryCounts, <1>1, <1>2, GalleryIdle DEF GalleryInv, Gallery!GalleryHolds,
       Gallery!FitsTheCap, KeysFresh, GalleryIs, GalleryCalm
  <2> QED BY <2>1, <2>2, <2>3, <2>4, <2>5, <2>6, <2>6c, <2>6p, <2>7, <2>8, <2>9
             DEF GalleryInv, Gallery!GalleryHolds
<1>3. CASE /\ GallerySteps(t, "a_row", j)
           /\ kept' = (IF configured THEN kept ELSE kept \cup {my[t].key})
           /\ cdn' = (IF configured THEN cdn \cup {my[t].key} ELSE cdn)
  <2>0. j.op = "addPhoto" /\ j.key = my[t].key /\ j.hash = my[t].hash /\ j.at = place
    BY <1>1, PhotoAtShaped DEF GalleryIs
  <2> HIDE DEF j
  <2>1. GalleryShape' /\ KeysNumbered' /\ GalleryDoing'
    BY <1>1, <1>3, <2>0, GalleryExcluded DEF GallerySteps, GalleryInv, GalleryShape, KeysNumbered,
       GalleryDoing, GalleryIs, Gallery!Keys, Gallery!KeysIn, Gallery!Labels
  <2>2. GalleryOneBy'
    BY <1>1, <1>3, <2>0, GalleryExcluded DEF GallerySteps, GalleryInv, GalleryDoing, GalleryOneBy,
       GalleryIs
  <2>3. KeysFresh'
    BY <1>1, <1>3, <2>0, GalleryExcluded DEF GallerySteps, GalleryInv, KeysNumbered, GalleryDoing,
       KeysFresh, GalleryIs, Gallery!Keys, Gallery!KeysIn
  <2>4. GalleryWired' /\ PhotosPlaced'
    BY <1>1, <1>3, <2>0, GalleryExcluded DEF GallerySteps, GalleryInv, KeysNumbered, GalleryDoing,
       PhotosCopying, PhotoAdding, KeysFresh, GalleryWired, PhotosPlaced, GalleryIs, Gallery!Keys,
       Gallery!KeysIn
  <2>5. PhotoAdding' /\ PhotoDeleting'
    BY <1>1, <1>3, <2>0, GalleryExcluded DEF GallerySteps, GalleryInv, KeysNumbered, GalleryDoing,
       KeysFresh, PhotoAdding, PhotoDeleting, PhotosPlaced, PhotosCopying, GalleryWired,
       GalleryIs, Gallery!Keys, Gallery!KeysIn
  <2>6. PhotosRemoving'
    BY <1>1, <1>3, <2>0, GalleryExcluded DEF GallerySteps, GalleryInv, GalleryShape, KeysNumbered,
       GalleryDoing, PhotosRemoving, PhotosPlaced, GalleryWired, GalleryIs, Gallery!Keys,
       Gallery!KeysIn
  <2>6c. PhotosCopying'
    BY <1>1, <1>3, <2>0, GalleryExcluded DEF GallerySteps, GalleryInv, GalleryDoing,
       PhotosCopying, GalleryIs, Gallery!Keys
  <2>6p. PhotosPlacing'
    BY <1>1, <1>3, <2>0, GalleryExcluded DEF GallerySteps, GalleryInv, GalleryDoing,
       PhotosPlacing, GalleryIs
  <2>7. Gallery!RowHasObject'
    BY <1>1, <1>3, <2>0, GalleryExcluded DEF GallerySteps, GalleryInv, GalleryShape, KeysNumbered,
       GalleryDoing, Gallery!GalleryHolds, Gallery!RowHasObject, Gallery!BeingDeleted,
       PhotoAdding, PhotosCopying, PhotosRemoving, GalleryIs, Gallery!Keys, Gallery!KeysIn
  <2>8. Gallery!PublicIsNamed'
    <3> SUFFICES ASSUME NEW k \in cdn', k \notin Gallery!KeysIn({r \in photos : r.at = "public"})
                 PROVE  k \in Gallery!InFlight'
      BY <1>1 DEF Gallery!PublicIsNamed, Gallery!KeysIn
    <3>1. k \in cdn \/ k = my[t].key
      BY <1>3
    <3>2. CASE k = my[t].key
      BY <1>1, <1>3, <2>0, <3>2 DEF GallerySteps, Gallery!InFlight
    <3>3. CASE k \in cdn
      <4>1. k \in Gallery!InFlight
        BY <3>3 DEF GalleryInv, Gallery!GalleryHolds, Gallery!PublicIsNamed
      <4>2. CASE \E u \in Tasks : at[u] # "idle" /\ k = my[u].key
        BY <1>1, <1>3, <2>0, <4>2 DEF GallerySteps, Gallery!InFlight
      <4>3. CASE \E u \in Tasks : my[u].op = "remove"
                 /\ k \in Gallery!KeysIn({x \in my[u].todo : at[u] = "r_objects"})
        BY <1>1, <1>3, <2>0, <4>3 DEF GallerySteps, GalleryIs, Gallery!InFlight, Gallery!KeysIn
      <4> QED BY <4>1, <4>2, <4>3 DEF Gallery!InFlight
    <3> QED BY <3>1, <3>2, <3>3
  <2>9. Gallery!FitsTheCap'
    BY GalleryCounts, <1>1, <1>3, <2>0, GalleryExcluded DEF GalleryInv, Gallery!GalleryHolds,
       Gallery!FitsTheCap, KeysFresh, GalleryIs, GalleryCalm
  <2> QED BY <2>1, <2>2, <2>3, <2>4, <2>5, <2>6, <2>6c, <2>6p, <2>7, <2>8, <2>9
             DEF GalleryInv, Gallery!GalleryHolds
<1>4. PhotoJobShaped(j)
  BY <1>1, PhotoAtShaped
<1> QED BY <1>1, <1>2, <1>3, <1>4, GalleryIdle, GalleryStepping
           DEF Gallery!PutObject, Gallery!End, GalleryInv

LEMMA CreatingRow ==
  ASSUME GalleryCalm, GalleryInv, NEW t \in Tasks, Gallery!CreateRow(t)
  PROVE  GalleryInv'
<1>1. /\ at[t] = "a_row" /\ UNCHANGED <<kept, cdn, configured, shut, uploads>>
         /\ GalleryIs(t, "addPhoto") /\ GallerySteps(t, "idle", Gallery!NoJob)
      /\ my[t].key = uploads /\ uploads \notin Gallery!Keys /\ my[t].at \in Gallery!Places
         /\ my[t].key \in 1 .. uploads
  BY GalleryStepping, GalleryIdle DEF Gallery!CreateRow, Gallery!End, GalleryInv, KeysNumbered,
     GalleryDoing, KeysFresh, PhotoAdding, Gallery!Places
<1>2. PICK o : photos' = photos \cup {[key |-> my[t].key, at |-> my[t].at, hash |-> my[t].hash,
           order |-> o]}
  BY DEF Gallery!CreateRow
<1> DEFINE r == [key |-> my[t].key, at |-> my[t].at, hash |-> my[t].hash, order |-> o]
<1>3. PhotoShaped(r) /\ r.key = my[t].key /\ r.at = my[t].at /\ r.hash = my[t].hash
      /\ photos' = photos \cup {r}
  BY <1>1, <1>2 DEF PhotoShaped
<1> HIDE DEF r
<1>4. r \notin photos /\ IsFiniteSet(photos') /\ Cardinality(photos') = Cardinality(photos) + 1
      /\ Cardinality(photos) \in Nat
  BY <1>1, <1>3, FS_AddElement, FS_CardinalityType DEF Gallery!Keys, Gallery!KeysIn, GalleryInv,
     GalleryShape
<1>5. GalleryShape' /\ KeysNumbered' /\ GalleryDoing'
  BY <1>1, <1>3, <1>4, GalleryIdle, GalleryExcluded, GalleryCalm
     DEF GallerySteps, GalleryInv, GalleryShape, KeysNumbered, GalleryDoing, GalleryIs,
         Gallery!Keys, Gallery!KeysIn, Gallery!Labels
<1>6. GalleryOneBy'
  BY <1>1, <1>3, <1>4, GalleryIdle, GalleryExcluded, GalleryCalm
     DEF GallerySteps, GalleryInv, GalleryDoing, GalleryOneBy, GalleryIs
<1>7. KeysFresh'
  BY <1>1, <1>3, <1>4, GalleryIdle, GalleryExcluded, GalleryCalm
     DEF GallerySteps, GalleryInv, KeysNumbered, GalleryDoing, KeysFresh, GalleryIs, Gallery!Keys,
         Gallery!KeysIn
<1>8. GalleryWired' /\ PhotosPlaced'
  BY <1>1, <1>3, <1>4, GalleryIdle, GalleryExcluded, GalleryCalm
     DEF GallerySteps, GalleryInv, KeysNumbered, GalleryDoing, PhotosCopying, PhotoAdding,
         KeysFresh, GalleryWired, PhotosPlaced, GalleryIs, Gallery!Keys, Gallery!KeysIn
<1>9. PhotoAdding' /\ PhotoDeleting'
  BY <1>1, <1>3, <1>4, GalleryIdle, GalleryExcluded, GalleryCalm
     DEF GallerySteps, GalleryInv, KeysNumbered, GalleryDoing, KeysFresh, PhotoAdding,
         PhotoDeleting, PhotosPlaced, PhotosCopying, GalleryWired, GalleryIs, Gallery!Keys,
         Gallery!KeysIn
<1>10. PhotosRemoving'
  BY <1>1, <1>3, <1>4, GalleryIdle, GalleryExcluded, GalleryCalm
     DEF GallerySteps, GalleryInv, GalleryShape, KeysNumbered, GalleryDoing, PhotosRemoving,
         PhotosPlaced, GalleryWired, GalleryIs, Gallery!Keys, Gallery!KeysIn
<1>10k. Gallery!Keys \subseteq Gallery!Keys'
  BY <1>3 DEF Gallery!Keys, Gallery!KeysIn
<1>10c. PhotosCopying'
  BY <1>1, <1>3, <1>10k, GalleryIdle DEF GallerySteps, GalleryInv, GalleryDoing, PhotosCopying,
     GalleryIs
<1>10p. PhotosPlacing'
  BY <1>1, <1>3, <1>4, GalleryIdle, GalleryExcluded, GalleryCalm
     DEF GallerySteps, GalleryInv, GalleryDoing, PhotosPlacing, GalleryIs
<1>11. Gallery!RowHasObject'
  BY <1>1, <1>3, <1>4, GalleryIdle, GalleryExcluded, GalleryCalm
     DEF GallerySteps, GalleryInv, GalleryShape, KeysNumbered, GalleryDoing, Gallery!GalleryHolds,
         Gallery!RowHasObject, Gallery!BeingDeleted, PhotoAdding, PhotosCopying, PhotosRemoving,
         GalleryIs, Gallery!Keys, Gallery!KeysIn
<1>12. Gallery!PublicIsNamed'
  BY <1>1, <1>3, <1>4, GalleryIdle, GalleryExcluded, GalleryCalm
     DEF GallerySteps, GalleryInv, GalleryShape, KeysNumbered, GalleryDoing, Gallery!GalleryHolds,
         Gallery!PublicIsNamed, Gallery!InFlight, PhotoAdding, PhotoDeleting, PhotosRemoving,
         PhotosCopying, GalleryWired, PhotoShaped, GalleryIs, Gallery!Keys, Gallery!KeysIn
<1>13. Gallery!FitsTheCap'
  BY GalleryCounts, <1>1, <1>3, <1>4, GalleryIdle, GalleryExcluded, GalleryCalm
     DEF GalleryInv, Gallery!GalleryHolds, Gallery!FitsTheCap, KeysFresh, GalleryIs, GalleryCalm
<1> QED BY <1>5, <1>6, <1>7, <1>8, <1>9, <1>10, <1>10c, <1>10p, <1>11, <1>12, <1>13
           DEF GalleryInv, Gallery!GalleryHolds

LEMMA DeletingPhoto ==
  ASSUME GalleryCalm, GalleryInv, NEW t \in Tasks, Gallery!DeletePhoto(t)
  PROVE  GalleryInv'
<1>1. PICK r \in photos : Gallery!Begin(t, "d_object",
           [Gallery!Job("deletePhoto", r.key, r.hash) EXCEPT !.at = Gallery!Location(r)])
  BY DEF Gallery!DeletePhoto
<1> DEFINE j == [Gallery!Job("deletePhoto", r.key, r.hash) EXCEPT !.at = Gallery!Location(r)]
<1>2. PhotoJobShaped(Gallery!Job("deletePhoto", r.key, r.hash))
      /\ Gallery!Job("deletePhoto", r.key, r.hash).op = "deletePhoto"
      /\ Gallery!Job("deletePhoto", r.key, r.hash).key = r.key
  BY GalleryJobs
<1>3. PhotoJobShaped(j) /\ j.op = "deletePhoto" /\ j.key = r.key /\ j.at = Gallery!Location(r)
  BY <1>2, PhotoAtShaped
<1>4. GallerySteps(t, "d_object", j) /\ at[t] = "idle" /\ GalleryOneBy'
  BY <1>1, <1>3, GalleryBegins
<1>5. UNCHANGED <<photos, kept, cdn, configured, shut, uploads>> /\ r.key \in Gallery!Keys
      /\ r.key \in 1 .. uploads
      /\ Gallery!Location(r) \in Gallery!Places
  BY DEF Gallery!DeletePhoto, Gallery!Keys, Gallery!KeysIn, GalleryInv, KeysNumbered,
     Gallery!Location, Gallery!Places
<1>6. \A u \in Tasks : ~(at[u] = "m_row")
  <2>1. \A u \in Tasks : at[u] # "idle" => {"deletePhoto", my[u].op} \notin PhotoPairs
    BY <1>1, <1>3 DEF Gallery!Begin, PhotoPairs
  <2>2. {"mirror", "deletePhoto"} \in PhotoPairs
        /\ {"mirror", "deletePhoto"} = {"deletePhoto", "mirror"}
    BY DEF PhotoPairs
  <2> QED BY <2>1, <2>2 DEF GalleryInv, GalleryDoing, GalleryIs
<1>7. Gallery!Location(r) = "private" => r.key \notin cdn
  BY <1>6 DEF GalleryInv, GalleryShape, PhotoShaped, Gallery!Places, PhotosPlaced, GalleryWired,
     Gallery!Location
<1> HIDE DEF j
<1>8. GalleryShape' /\ KeysNumbered' /\ GalleryDoing'
  BY <1>3, <1>4, <1>5, <1>6, <1>7 DEF GallerySteps, GalleryInv, GalleryShape, KeysNumbered,
     GalleryDoing, GalleryIs, Gallery!Keys, Gallery!KeysIn, Gallery!Labels
<1>9. GalleryOneBy'
  BY <1>3, <1>4, <1>5, <1>6, <1>7 DEF GallerySteps, GalleryInv, GalleryDoing, GalleryOneBy,
     GalleryIs
<1>10. KeysFresh'
  BY <1>3, <1>4, <1>5, <1>6, <1>7 DEF GallerySteps, GalleryInv, KeysNumbered, GalleryDoing,
     KeysFresh, GalleryIs, Gallery!Keys, Gallery!KeysIn
<1>11. GalleryWired' /\ PhotosPlaced'
  BY <1>3, <1>4, <1>5, <1>6, <1>7 DEF GallerySteps, GalleryInv, KeysNumbered, GalleryDoing,
     PhotosCopying, PhotoAdding, KeysFresh, GalleryWired, PhotosPlaced, GalleryIs, Gallery!Keys,
     Gallery!KeysIn
<1>12. PhotoAdding' /\ PhotoDeleting'
  BY <1>3, <1>4, <1>5, <1>6, <1>7 DEF GallerySteps, GalleryInv, KeysNumbered, GalleryDoing,
     KeysFresh, PhotoAdding, PhotoDeleting, PhotosPlaced, PhotosCopying, GalleryWired, GalleryIs,
     Gallery!Keys, Gallery!KeysIn
<1>13. PhotosRemoving'
  BY <1>3, <1>4, <1>5, <1>6, <1>7 DEF GallerySteps, GalleryInv, GalleryShape, KeysNumbered,
     GalleryDoing, PhotosRemoving, PhotosPlaced, GalleryWired, GalleryIs, Gallery!Keys,
     Gallery!KeysIn
<1>14. PhotosCopying'
  BY <1>3, <1>4, <1>5, <1>6, <1>7 DEF GallerySteps, GalleryInv, GalleryDoing, PhotosCopying,
     GalleryIs, Gallery!Keys
<1>15. PhotosPlacing'
  BY <1>3, <1>4, <1>5, <1>6, <1>7 DEF GallerySteps, GalleryInv, GalleryDoing, PhotosPlacing,
     GalleryIs
<1>16. Gallery!RowHasObject'
  BY <1>3, <1>4, <1>5, <1>6, <1>7 DEF GallerySteps, GalleryInv, GalleryShape, KeysNumbered,
     GalleryDoing, Gallery!GalleryHolds, Gallery!RowHasObject, Gallery!BeingDeleted, PhotoAdding,
     PhotosCopying, PhotosRemoving, GalleryIs, Gallery!Keys, Gallery!KeysIn
<1>17. Gallery!PublicIsNamed'
  BY <1>3, <1>4, <1>5, <1>6, <1>7 DEF GallerySteps, GalleryInv, GalleryShape, KeysNumbered,
     GalleryDoing, Gallery!GalleryHolds, Gallery!PublicIsNamed, Gallery!InFlight, PhotoAdding,
     PhotoDeleting, PhotosRemoving, PhotosCopying, GalleryWired, PhotoShaped, GalleryIs,
     Gallery!Keys, Gallery!KeysIn
<1>18. Gallery!FitsTheCap'
  BY GalleryCounts, <1>3, <1>4, <1>5, <1>6, <1>7 DEF GalleryInv, Gallery!GalleryHolds,
     Gallery!FitsTheCap, KeysFresh, GalleryIs, GalleryCalm
<1> QED BY <1>8, <1>9, <1>10, <1>11, <1>12, <1>13, <1>14, <1>15, <1>16, <1>17, <1>18
           DEF GalleryInv, Gallery!GalleryHolds

LEMMA DeletingObject ==
  ASSUME GalleryCalm, GalleryInv, NEW t \in Tasks, Gallery!DeleteObject(t)
  PROVE  GalleryInv'
<1>1. /\ at[t] = "d_object" /\ UNCHANGED <<photos, configured, shut, uploads>>
         /\ GalleryIs(t, "deletePhoto") /\ PhotoJobShaped(my[t])
      /\ kept' = (IF my[t].at = "private" THEN kept \ {my[t].key} ELSE kept)
      /\ cdn' = (IF my[t].at = "public" THEN cdn \ {my[t].key} ELSE cdn)
      /\ (my[t].at = "private" => my[t].key \notin cdn) /\ (my[t].at = "public" \/ my[t].at = "private")
  BY DEF Gallery!DeleteObject, Gallery!Gone, GalleryCalm, GalleryInv, GalleryShape, GalleryDoing,
     PhotoDeleting, Gallery!Places
<1>2. GallerySteps(t, "d_row", my[t])
  BY <1>1, GalleryStepping DEF Gallery!DeleteObject, Gallery!Go, GalleryInv
<1>3. my[t].key \notin cdn' /\ cdn' \subseteq cdn /\ kept' \subseteq kept
  BY <1>1
<1>4. \A x : x # my[t].key => (x \in cdn' <=> x \in cdn) /\ (x \in kept' <=> x \in kept)
  BY <1>1
<1>5. GalleryShape' /\ KeysNumbered' /\ GalleryDoing'
  BY <1>1, <1>2, <1>3, <1>4, GalleryExcluded DEF GallerySteps, GalleryInv, GalleryShape,
     KeysNumbered, GalleryDoing, GalleryIs, Gallery!Keys, Gallery!KeysIn, Gallery!Labels
<1>6. GalleryOneBy'
  BY <1>1, <1>2, <1>3, <1>4, GalleryExcluded DEF GallerySteps, GalleryInv, GalleryDoing,
     GalleryOneBy, GalleryIs
<1>7. KeysFresh'
  BY <1>1, <1>2, <1>3, <1>4, GalleryExcluded DEF GallerySteps, GalleryInv, KeysNumbered,
     GalleryDoing, KeysFresh, GalleryIs, Gallery!Keys, Gallery!KeysIn
<1>8. GalleryWired' /\ PhotosPlaced'
  BY <1>1, <1>2, <1>3, <1>4, GalleryExcluded DEF GallerySteps, GalleryInv, KeysNumbered,
     GalleryDoing, PhotosCopying, PhotoAdding, KeysFresh, GalleryWired, PhotosPlaced, GalleryIs,
     Gallery!Keys, Gallery!KeysIn
<1>9. PhotoAdding' /\ PhotoDeleting'
  BY <1>1, <1>2, <1>3, <1>4, GalleryExcluded DEF GallerySteps, GalleryInv, KeysNumbered,
     GalleryDoing, KeysFresh, PhotoAdding, PhotoDeleting, PhotosPlaced, PhotosCopying,
     GalleryWired, GalleryIs, Gallery!Keys, Gallery!KeysIn
<1>10. PhotosRemoving'
  BY <1>1, <1>2, <1>3, <1>4, GalleryExcluded DEF GallerySteps, GalleryInv, GalleryShape,
     KeysNumbered, GalleryDoing, PhotosRemoving, PhotosPlaced, GalleryWired, GalleryIs,
     Gallery!Keys, Gallery!KeysIn
<1>11. PhotosCopying'
  BY <1>1, <1>2, <1>3, <1>4, GalleryExcluded DEF GallerySteps, GalleryInv, GalleryDoing,
     PhotosCopying, GalleryIs, Gallery!Keys
<1>12. PhotosPlacing'
  BY <1>1, <1>2, <1>3, <1>4, GalleryExcluded DEF GallerySteps, GalleryInv, GalleryDoing,
     PhotosPlacing, GalleryIs
<1>13. Gallery!RowHasObject'
  BY <1>1, <1>2, <1>3, <1>4, GalleryExcluded DEF GallerySteps, GalleryInv, GalleryShape,
     KeysNumbered, GalleryDoing, Gallery!GalleryHolds, Gallery!RowHasObject, Gallery!BeingDeleted,
     PhotoAdding, PhotosCopying, PhotosRemoving, GalleryIs, Gallery!Keys, Gallery!KeysIn
<1>14. Gallery!PublicIsNamed'
  BY <1>1, <1>2, <1>3 DEF GallerySteps, GalleryInv, GalleryDoing, Gallery!GalleryHolds,
     Gallery!PublicIsNamed, Gallery!InFlight, GalleryIs, Gallery!KeysIn
<1>15. Gallery!FitsTheCap'
  BY GalleryCounts, <1>1, <1>2, <1>3, <1>4, GalleryExcluded DEF GalleryInv, Gallery!GalleryHolds,
     Gallery!FitsTheCap, KeysFresh, GalleryIs, GalleryCalm
<1> QED BY <1>5, <1>6, <1>7, <1>8, <1>9, <1>10, <1>11, <1>12, <1>13, <1>14, <1>15
           DEF GalleryInv, Gallery!GalleryHolds

LEMMA DeletingRow ==
  ASSUME GalleryCalm, GalleryInv, NEW t \in Tasks, Gallery!DeleteRow(t)
  PROVE  GalleryInv'
<1>1. /\ at[t] = "d_row" /\ UNCHANGED <<kept, cdn, configured, shut, uploads>>
         /\ GalleryIs(t, "deletePhoto") /\ GallerySteps(t, "idle", Gallery!NoJob)
      /\ photos' = {r \in photos : r.key # my[t].key} /\ my[t].key \notin cdn
  BY GalleryStepping, GalleryIdle DEF Gallery!DeleteRow, Gallery!End, Gallery!Without, GalleryInv,
     GalleryDoing, PhotoDeleting
<1>2. IsFiniteSet(photos') /\ Cardinality(photos') <= Cardinality(photos)
      /\ Cardinality(photos') \in Nat /\ Cardinality(photos) \in Nat
  BY <1>1, FS_Subset, FS_CardinalityType DEF GalleryInv, GalleryShape
<1>3. Gallery!Keys' = Gallery!Keys \ {my[t].key} /\ photos' \subseteq photos
  BY <1>1 DEF Gallery!Keys, Gallery!KeysIn
<1>4. GalleryShape' /\ KeysNumbered' /\ GalleryDoing'
  BY <1>1, <1>2, <1>3, GalleryIdle, GalleryExcluded, GalleryCalm
     DEF GallerySteps, GalleryInv, GalleryShape, KeysNumbered, GalleryDoing, GalleryIs,
         Gallery!Keys, Gallery!KeysIn, Gallery!Labels
<1>5. GalleryOneBy'
  BY <1>1, <1>2, <1>3, GalleryIdle, GalleryExcluded, GalleryCalm
     DEF GallerySteps, GalleryInv, GalleryDoing, GalleryOneBy, GalleryIs
<1>6. KeysFresh'
  BY <1>1, <1>2, <1>3, GalleryIdle DEF GallerySteps, GalleryInv, KeysNumbered, KeysFresh,
     GalleryIs, GalleryCalm
<1>7. GalleryWired' /\ PhotosPlaced'
  BY <1>1, <1>2, <1>3, GalleryIdle, GalleryExcluded, GalleryCalm
     DEF GallerySteps, GalleryInv, KeysNumbered, GalleryDoing, PhotosCopying, PhotoAdding,
         KeysFresh, GalleryWired, PhotosPlaced, GalleryIs, Gallery!Keys, Gallery!KeysIn
<1>8. PhotoAdding' /\ PhotoDeleting'
  BY <1>1, <1>2, <1>3, GalleryIdle, GalleryExcluded, GalleryCalm
     DEF GallerySteps, GalleryInv, KeysNumbered, GalleryDoing, KeysFresh, PhotoAdding,
         PhotoDeleting, PhotosPlaced, PhotosCopying, GalleryWired, GalleryIs, Gallery!Keys,
         Gallery!KeysIn
<1>9. PhotosRemoving'
  BY <1>1, <1>2, <1>3, GalleryIdle, GalleryExcluded, GalleryCalm
     DEF GallerySteps, GalleryInv, GalleryShape, KeysNumbered, GalleryDoing, PhotosRemoving,
         PhotosPlaced, GalleryWired, GalleryIs, Gallery!Keys, Gallery!KeysIn
<1>10. PhotosCopying'
  BY <1>1, <1>2, <1>3, GalleryIdle, GalleryExcluded, GalleryCalm
     DEF GallerySteps, GalleryInv, GalleryDoing, PhotosCopying, GalleryIs, Gallery!Keys
<1>11. PhotosPlacing'
  BY <1>1, <1>2, <1>3, GalleryIdle, GalleryExcluded, GalleryCalm
     DEF GallerySteps, GalleryInv, GalleryDoing, PhotosPlacing, GalleryIs
<1>12. Gallery!RowHasObject'
  BY <1>1, <1>2, <1>3, GalleryIdle, GalleryExcluded, GalleryCalm
     DEF GallerySteps, GalleryInv, GalleryShape, KeysNumbered, GalleryDoing, Gallery!GalleryHolds,
         Gallery!RowHasObject, Gallery!BeingDeleted, PhotoAdding, PhotosCopying, PhotosRemoving,
         GalleryIs, Gallery!Keys, Gallery!KeysIn
<1>13. Gallery!PublicIsNamed'
  BY <1>1, GalleryIdle DEF GallerySteps, GalleryInv, GalleryDoing, Gallery!GalleryHolds,
     Gallery!PublicIsNamed, Gallery!InFlight, GalleryIs, Gallery!KeysIn
<1>14. Gallery!FitsTheCap'
  BY GalleryCounts, <1>1, <1>2, <1>3, GalleryIdle, GalleryExcluded, GalleryCalm
     DEF GalleryInv, Gallery!GalleryHolds, Gallery!FitsTheCap, KeysFresh, GalleryIs, GalleryCalm
<1> QED BY <1>4, <1>5, <1>6, <1>7, <1>8, <1>9, <1>10, <1>11, <1>12, <1>13, <1>14
           DEF GalleryInv, Gallery!GalleryHolds

LEMMA ReorderingPhotos ==
  ASSUME GalleryCalm, GalleryInv, NEW t \in Tasks, Gallery!ReorderPhotos(t)
  PROVE  GalleryInv'
<1>1. PICK ids : Gallery!NamesAll(ids) /\ DOMAIN ids \subseteq Int
           /\ Gallery!Begin(t, "o_write", [Gallery!Job("reorderPhotos", 0, "none") EXCEPT !.ids = ids,
           !.todo = Gallery!Keys])
  <2>1. PICK ids \in UNION {[1 .. n -> Gallery!Keys] : n \in 1 .. Cardinality(photos)} :
          Gallery!NamesAll(ids) /\ Gallery!Begin(t, "o_write",
            [Gallery!Job("reorderPhotos", 0, "none") EXCEPT !.ids = ids, !.todo = Gallery!Keys])
    BY GalleryCounts DEF Gallery!ReorderPhotos
  <2>2. PICK n \in 1 .. Cardinality(photos) : ids \in [1 .. n -> Gallery!Keys]
    OBVIOUS
  <2>3. DOMAIN ids \subseteq Int
    BY <2>2
  <2> QED BY <2>1, <2>3
<1> DEFINE j == [Gallery!Job("reorderPhotos", 0, "none") EXCEPT !.ids = ids, !.todo = Gallery!Keys]
<1>2. j = [op |-> "reorderPhotos", key |-> 0, hash |-> "none", at |-> "private", ids |-> ids,
      todo |-> Gallery!Keys]
  <2> DEFINE i == Gallery!Job("reorderPhotos", 0, "none")
  <2>1. i = [op |-> "reorderPhotos", key |-> 0, hash |-> "none", at |-> "private", ids |-> <<>>,
        todo |-> {}]
    BY DEF Gallery!Job
  <2>2. DOMAIN i = {"op", "key", "hash", "at", "ids", "todo"} /\ i.op = "reorderPhotos" /\ i.key = 0
        /\ i.hash = "none" /\ i.at = "private"
    BY <2>1
  <2> HIDE DEF i
  <2>3. [i EXCEPT !.ids = ids, !.todo = Gallery!Keys] = [d \in DOMAIN i |-> IF d = "todo"
        THEN Gallery!Keys ELSE IF d = "ids" THEN ids ELSE i[d]]
    OBVIOUS
  <2>4. [i EXCEPT !.ids = ids, !.todo = Gallery!Keys]
          = [op |-> "reorderPhotos", key |-> 0, hash |-> "none", at |-> "private", ids |-> ids,
            todo |-> Gallery!Keys]
    BY <2>2, <2>3
  <2> QED BY <2>4 DEF i
<1>3. PhotoJobShaped(j) /\ j.op = "reorderPhotos" /\ j.key = 0 /\ j.ids = ids /\ j.todo = Gallery!Keys
  <2> HIDE DEF j
  <2>1. j.op = "reorderPhotos" /\ j.key = 0 /\ j.hash = "none" /\ j.at = "private" /\ j.ids = ids
        /\ j.todo = Gallery!Keys
    BY <1>2
  <2> QED BY <1>2, <2>1 DEF PhotoJobShaped
<1>4. GallerySteps(t, "o_write", j) /\ at[t] = "idle" /\ GalleryOneBy'
  BY <1>1, <1>3, GalleryBegins
<1>5. UNCHANGED <<photos, kept, cdn, configured, shut, uploads>> /\ Range(ids) = Gallery!Keys
      /\ IsInjective(ids) /\ DOMAIN ids \subseteq Int
  BY <1>1, GalleryCounts DEF Gallery!ReorderPhotos, Gallery!NamesAll
<1> HIDE DEF j
<1>6. GalleryShape' /\ KeysNumbered' /\ GalleryDoing'
  BY <1>3, <1>4, <1>5 DEF GallerySteps, GalleryInv, GalleryShape, KeysNumbered, GalleryDoing,
     GalleryIs, Gallery!Keys, Gallery!KeysIn, Gallery!Labels
<1>7. GalleryOneBy'
  BY <1>3, <1>4, <1>5 DEF GallerySteps, GalleryInv, GalleryDoing, GalleryOneBy, GalleryIs
<1>8. KeysFresh'
  BY <1>3, <1>4, <1>5 DEF GallerySteps, GalleryInv, KeysNumbered, GalleryDoing, KeysFresh,
     GalleryIs, Gallery!Keys, Gallery!KeysIn
<1>9. GalleryWired' /\ PhotosPlaced'
  BY <1>3, <1>4, <1>5 DEF GallerySteps, GalleryInv, KeysNumbered, GalleryDoing, PhotosCopying,
     PhotoAdding, KeysFresh, GalleryWired, PhotosPlaced, GalleryIs, Gallery!Keys, Gallery!KeysIn
<1>10. PhotoAdding' /\ PhotoDeleting'
  BY <1>3, <1>4, <1>5 DEF GallerySteps, GalleryInv, KeysNumbered, GalleryDoing, KeysFresh,
     PhotoAdding, PhotoDeleting, PhotosPlaced, PhotosCopying, GalleryWired, GalleryIs,
     Gallery!Keys, Gallery!KeysIn
<1>11. PhotosRemoving'
  BY <1>3, <1>4, <1>5 DEF GallerySteps, GalleryInv, GalleryShape, KeysNumbered, GalleryDoing,
     PhotosRemoving, PhotosPlaced, GalleryWired, GalleryIs, Gallery!Keys, Gallery!KeysIn
<1>12. PhotosCopying'
  BY <1>3, <1>4, <1>5 DEF GallerySteps, GalleryInv, GalleryDoing, PhotosCopying, GalleryIs,
     Gallery!Keys
<1>13. PhotosPlacing'
  BY <1>3, <1>4, <1>5 DEF GallerySteps, GalleryInv, GalleryDoing, PhotosPlacing, GalleryIs
<1>14. Gallery!RowHasObject'
  BY <1>3, <1>4, <1>5 DEF GallerySteps, GalleryInv, GalleryShape, KeysNumbered, GalleryDoing,
     Gallery!GalleryHolds, Gallery!RowHasObject, Gallery!BeingDeleted, PhotoAdding, PhotosCopying,
     PhotosRemoving, GalleryIs, Gallery!Keys, Gallery!KeysIn
<1>15. Gallery!PublicIsNamed'
  BY <1>3, <1>4, <1>5 DEF GallerySteps, GalleryInv, GalleryShape, KeysNumbered, GalleryDoing,
     Gallery!GalleryHolds, Gallery!PublicIsNamed, Gallery!InFlight, PhotoAdding, PhotoDeleting,
     PhotosRemoving, PhotosCopying, GalleryWired, PhotoShaped, GalleryIs, Gallery!Keys,
     Gallery!KeysIn
<1>16. Gallery!FitsTheCap'
  BY GalleryCounts, <1>3, <1>4, <1>5 DEF GalleryInv, Gallery!GalleryHolds, Gallery!FitsTheCap,
     KeysFresh, GalleryIs, GalleryCalm
<1> QED BY <1>6, <1>7, <1>8, <1>9, <1>10, <1>11, <1>12, <1>13, <1>14, <1>15, <1>16
           DEF GalleryInv, Gallery!GalleryHolds

LEMMA WritingPlaces ==
  ASSUME GalleryCalm, GalleryInv, NEW t \in Tasks, Gallery!WritePlaces(t)
  PROVE  GalleryInv' /\ Gallery!ReorderIsWhole
<1> DEFINE ids == my[t].ids
           put(r) == IF r.key \in Range(ids) THEN [r EXCEPT !.order = Gallery!PlaceOf(ids, r.key)]
             ELSE r
           f == [r \in photos |-> put(r)]
<1>1. /\ at[t] = "o_write" /\ UNCHANGED <<kept, cdn, configured, shut, uploads>>
         /\ GalleryIs(t, "reorderPhotos") /\ GallerySteps(t, "idle", Gallery!NoJob)
      /\ my[t].key = 0 /\ Range(ids) = my[t].todo /\ IsInjective(ids) /\ DOMAIN ids \subseteq Int
  BY GalleryStepping, GalleryIdle DEF Gallery!WritePlaces, Gallery!End, GalleryInv, GalleryDoing,
     PhotosPlacing
<1>2. photos' = photos \/ (photos' = {f[r] : r \in photos} /\ Range(ids) \subseteq Gallery!Keys)
  BY GalleryCounts DEF Gallery!WritePlaces
<1>3. \A r \in photos : PhotoShaped(f[r]) /\ f[r].key = r.key /\ f[r].hash = r.hash /\ f[r].at = r.at
                        /\ (r.key \in Range(ids) => f[r].order = Gallery!PlaceOf(ids, r.key))
  BY DEF GalleryInv, GalleryShape, PhotoShaped
<1>4. /\ PhotosRewritten(photos, photos')
      /\ \A r \in photos' : \E q \in photos : r.key = q.key /\ r.hash = q.hash /\ r.at = q.at
      /\ \A q \in photos : \E r \in photos' : r.key = q.key /\ r.hash = q.hash /\ r.at = q.at
  <2>1. CASE photos' = photos
    BY <2>1, FS_CardinalityType DEF PhotosRewritten, GalleryInv, GalleryShape, KeysNumbered
  <2>2. CASE photos' = {f[r] : r \in photos}
    <3>0. DOMAIN f = photos
      OBVIOUS
    <3>1. PhotosRewritten(photos, {f[r] : r \in photos})
      <4> HIDE DEF f
      <4> QED BY <1>3, <3>0, WritingAgain DEF GalleryInv, GalleryShape, KeysNumbered
    <3> QED BY <1>3, <2>2, <3>1
  <2> QED BY <1>2, <2>1, <2>2
<1>5. IsFiniteSet(photos') /\ Cardinality(photos') <= Cardinality(photos)
      /\ Cardinality(photos') \in Nat /\ Cardinality(photos) \in Nat
  BY <1>4, FS_CardinalityType DEF PhotosRewritten, GalleryInv, GalleryShape
<1>6. Gallery!Keys' = Gallery!Keys
  BY <1>4 DEF Gallery!Keys, Gallery!KeysIn
<1> HIDE DEF ids, put, f
<1>7. GalleryInv'
  <2>0. /\ \A r \in photos' : \E q \in photos : r.key = q.key /\ r.hash = q.hash /\ r.at = q.at
        /\ \A q \in photos : \E r \in photos' : r.key = q.key /\ r.hash = q.hash /\ r.at = q.at
        /\ (\A r \in photos' : PhotoShaped(r)) /\ \A r, q \in photos' : r.key = q.key => r = q
    BY <1>4 DEF PhotosRewritten
  <2>1. GalleryShape' /\ KeysNumbered' /\ GalleryDoing'
    BY <1>1, <1>5, <1>6, <2>0, GalleryIdle DEF GallerySteps, GalleryInv, GalleryShape,
       KeysNumbered, GalleryDoing, GalleryIs, Gallery!Keys, Gallery!KeysIn, Gallery!Labels
  <2>2. GalleryOneBy'
    BY <1>1, <1>5, <1>6, <2>0, GalleryIdle DEF GallerySteps, GalleryInv, GalleryDoing,
       GalleryOneBy, GalleryIs
  <2>3. KeysFresh'
    BY <1>1, <1>5, <1>6, <2>0, GalleryIdle DEF GallerySteps, GalleryInv, KeysNumbered, KeysFresh,
       GalleryIs, GalleryCalm
  <2>4. GalleryWired' /\ PhotosPlaced'
    BY <1>1, <1>5, <1>6, <2>0, GalleryIdle DEF GallerySteps, GalleryInv, KeysNumbered,
       GalleryDoing, PhotosCopying, PhotoAdding, KeysFresh, GalleryWired, PhotosPlaced, GalleryIs,
       Gallery!Keys, Gallery!KeysIn
  <2>5. PhotoAdding' /\ PhotoDeleting'
    BY <1>1, <1>5, <1>6, <2>0, GalleryIdle DEF GallerySteps, GalleryInv, KeysNumbered,
       GalleryDoing, KeysFresh, PhotoAdding, PhotoDeleting, PhotosPlaced, PhotosCopying,
       GalleryWired, GalleryIs, Gallery!Keys, Gallery!KeysIn
  <2>6. PhotosRemoving'
    BY <1>1, <1>5, <1>6, <2>0, GalleryIdle DEF GallerySteps, GalleryInv, GalleryShape,
       KeysNumbered, GalleryDoing, PhotosRemoving, PhotosPlaced, GalleryWired, GalleryIs,
       Gallery!Keys, Gallery!KeysIn
  <2>7. PhotosCopying'
    BY <1>1, <1>5, <1>6, <2>0, GalleryIdle DEF GallerySteps, GalleryInv, GalleryDoing,
       PhotosCopying, GalleryIs, Gallery!Keys
  <2>8. PhotosPlacing'
    BY <1>1, <1>5, <1>6, <2>0, GalleryIdle DEF GallerySteps, GalleryInv, GalleryDoing,
       PhotosPlacing, GalleryIs
  <2>9. Gallery!RowHasObject'
    BY <1>1, <1>5, <1>6, <2>0, GalleryIdle DEF GallerySteps, GalleryInv, GalleryShape,
       KeysNumbered, GalleryDoing, Gallery!GalleryHolds, Gallery!RowHasObject,
       Gallery!BeingDeleted, PhotoAdding, PhotosCopying, PhotosRemoving, GalleryIs, Gallery!Keys,
       Gallery!KeysIn
  <2>10. Gallery!PublicIsNamed'
    BY <1>1, <1>5, <1>6, <2>0, GalleryIdle DEF GallerySteps, GalleryInv, GalleryShape,
       KeysNumbered, GalleryDoing, Gallery!GalleryHolds, Gallery!PublicIsNamed, Gallery!InFlight,
       PhotoAdding, PhotoDeleting, PhotosRemoving, PhotosCopying, GalleryWired, PhotoShaped,
       GalleryIs, Gallery!Keys, Gallery!KeysIn
  <2>11. Gallery!FitsTheCap'
    BY GalleryCounts, <1>1, <1>5, <1>6, <2>0, GalleryIdle DEF GalleryInv, Gallery!GalleryHolds,
       Gallery!FitsTheCap, KeysFresh, GalleryIs, GalleryCalm
  <2> QED BY <2>1, <2>2, <2>3, <2>4, <2>5, <2>6, <2>7, <2>8, <2>9, <2>10, <2>11
             DEF GalleryInv, Gallery!GalleryHolds
<1>8. Gallery!ReorderIsWhole
  <2> SUFFICES ASSUME NEW u \in Tasks, at[u] = "o_write", photos' # photos, at'[u] = "idle",
                      NEW r \in photos', NEW q \in photos', {r.key, q.key} \subseteq my[u].todo,
                        r.order = q.order
               PROVE  r = q
    BY DEF Gallery!ReorderIsWhole
  <2>1. u = t
    BY <1>1 DEF GallerySteps
  <2>2. photos' = {f[x] : x \in photos}
    BY <1>2
  <2>3. PICK x \in photos, y \in photos : r = f[x] /\ q = f[y]
    BY <2>2
  <2>4. x.key \in Range(ids) /\ y.key \in Range(ids) /\ x.key = r.key /\ y.key = q.key
    BY <1>1, <1>3, <2>1, <2>3 DEF ids
  <2>5. Gallery!PlaceOf(ids, x.key) = Gallery!PlaceOf(ids, y.key)
    BY <1>3, <2>3, <2>4
  <2>6. x.key = y.key
    <3> DEFINE a == CHOOSE i \in DOMAIN ids : ids[i] = x.key
               b == CHOOSE i \in DOMAIN ids : ids[i] = y.key
    <3>1. (\E i \in DOMAIN ids : ids[i] = x.key) /\ \E i \in DOMAIN ids : ids[i] = y.key
      BY <2>4 DEF Range
    <3>2. a \in Int /\ b \in Int /\ ids[a] = x.key /\ ids[b] = y.key
      BY <1>1, <3>1
    <3>3. a - 1 = b - 1
      BY <2>5 DEF Gallery!PlaceOf
    <3> QED BY <3>2, <3>3
  <2> QED BY <2>3, <2>6 DEF GalleryInv, KeysNumbered
<1> QED BY <1>7, <1>8

LEMMA RemovingAdvert ==
  ASSUME GalleryCalm, GalleryInv, NEW t \in Tasks, Gallery!DeleteWithPhotos(t)
  PROVE  GalleryInv'
<1>1. Gallery!Begin(t, "r_rows", [Gallery!Job("remove", 0, "none") EXCEPT !.todo = photos])
      /\ UNCHANGED <<photos, kept, cdn, configured, shut, uploads>>
  BY DEF Gallery!DeleteWithPhotos
<1> DEFINE j == [Gallery!Job("remove", 0, "none") EXCEPT !.todo = photos]
<1>2. PhotoJobShaped(Gallery!Job("remove", 0, "none")) /\ Gallery!Job("remove", 0, "none").op = "remove"
      /\ Gallery!Job("remove", 0, "none").key = 0
  BY GalleryJobs
<1>3. PhotoJobShaped(j) /\ j.op = "remove" /\ j.key = 0 /\ j.todo = photos
  BY <1>2, PhotoTodoShaped
<1>4. GallerySteps(t, "r_rows", j) /\ at[t] = "idle" /\ GalleryOneBy'
  BY <1>1, <1>3, GalleryBegins
<1>5. \A u \in Tasks : u # t => ~(at[u] # "idle"
      /\ (GalleryIs(u, "addPhoto") \/ GalleryIs(u, "mirror")))
  <2>1. \A u \in Tasks : at[u] # "idle" => {"remove", my[u].op} \notin PhotoPairs
    BY <1>1, <1>3 DEF Gallery!Begin, PhotoPairs
  <2>2. {"addPhoto", "remove"} \in PhotoPairs /\ {"mirror", "remove"} \in PhotoPairs
        /\ {"addPhoto", "remove"} = {"remove", "addPhoto"}
           /\ {"mirror", "remove"} = {"remove", "mirror"}
    BY DEF PhotoPairs
  <2> QED BY <2>1, <2>2 DEF GalleryIs
<1>6. \A r \in photos : PhotoShaped(r) /\ (r.at = "private" => r.key \notin cdn)
      /\ (r.at = "public" => configured)
  BY <1>4, <1>5 DEF GalleryInv, GalleryShape, PhotoShaped, Gallery!Places, PhotosPlaced,
     GalleryWired, GalleryDoing, GalleryIs
<1> HIDE DEF j
<1>7. GalleryShape' /\ KeysNumbered' /\ GalleryDoing'
  BY <1>1, <1>3, <1>4, <1>5, <1>6 DEF GallerySteps, GalleryInv, GalleryShape, KeysNumbered,
     GalleryDoing, GalleryIs, Gallery!Keys, Gallery!KeysIn, Gallery!Labels
<1>8. GalleryOneBy'
  BY <1>1, <1>3, <1>4, <1>5, <1>6 DEF GallerySteps, GalleryInv, GalleryDoing, GalleryOneBy,
     GalleryIs
<1>9. KeysFresh'
  BY <1>1, <1>3, <1>4, <1>5, <1>6 DEF GallerySteps, GalleryInv, KeysNumbered, GalleryDoing,
     KeysFresh, GalleryIs, Gallery!Keys, Gallery!KeysIn
<1>10. GalleryWired' /\ PhotosPlaced'
  BY <1>1, <1>3, <1>4, <1>5, <1>6 DEF GallerySteps, GalleryInv, KeysNumbered, GalleryDoing,
     PhotosCopying, PhotoAdding, KeysFresh, GalleryWired, PhotosPlaced, GalleryIs, Gallery!Keys,
     Gallery!KeysIn
<1>11. PhotoAdding' /\ PhotoDeleting'
  BY <1>1, <1>3, <1>4, <1>5, <1>6 DEF GallerySteps, GalleryInv, KeysNumbered, GalleryDoing,
     KeysFresh, PhotoAdding, PhotoDeleting, PhotosPlaced, PhotosCopying, GalleryWired, GalleryIs,
     Gallery!Keys, Gallery!KeysIn
<1>12. PhotosRemoving'
  BY <1>1, <1>3, <1>4, <1>5, <1>6 DEF GallerySteps, GalleryInv, GalleryShape, KeysNumbered,
     GalleryDoing, PhotosRemoving, PhotosPlaced, GalleryWired, GalleryIs, Gallery!Keys,
     Gallery!KeysIn
<1>13. PhotosCopying'
  BY <1>1, <1>3, <1>4, <1>5, <1>6 DEF GallerySteps, GalleryInv, GalleryDoing, PhotosCopying,
     GalleryIs, Gallery!Keys
<1>14. PhotosPlacing'
  BY <1>1, <1>3, <1>4, <1>5, <1>6 DEF GallerySteps, GalleryInv, GalleryDoing, PhotosPlacing,
     GalleryIs
<1>15. Gallery!RowHasObject'
  BY <1>1, <1>3, <1>4, <1>5, <1>6 DEF GallerySteps, GalleryInv, GalleryShape, KeysNumbered,
     GalleryDoing, Gallery!GalleryHolds, Gallery!RowHasObject, Gallery!BeingDeleted, PhotoAdding,
     PhotosCopying, PhotosRemoving, GalleryIs, Gallery!Keys, Gallery!KeysIn
<1>16. Gallery!PublicIsNamed'
  BY <1>1, <1>3, <1>4, <1>5, <1>6 DEF GallerySteps, GalleryInv, GalleryShape, KeysNumbered,
     GalleryDoing, Gallery!GalleryHolds, Gallery!PublicIsNamed, Gallery!InFlight, PhotoAdding,
     PhotoDeleting, PhotosRemoving, PhotosCopying, GalleryWired, PhotoShaped, GalleryIs,
     Gallery!Keys, Gallery!KeysIn
<1>17. Gallery!FitsTheCap'
  BY GalleryCounts, <1>1, <1>3, <1>4, <1>5, <1>6 DEF GalleryInv, Gallery!GalleryHolds,
     Gallery!FitsTheCap, KeysFresh, GalleryIs, GalleryCalm
<1> QED BY <1>7, <1>8, <1>9, <1>10, <1>11, <1>12, <1>13, <1>14, <1>15, <1>16, <1>17
           DEF GalleryInv, Gallery!GalleryHolds

LEMMA DeletingRows ==
  ASSUME GalleryCalm, GalleryInv, NEW t \in Tasks, Gallery!DeleteRows(t)
  PROVE  GalleryInv'
<1>1. /\ at[t] = "r_rows" /\ UNCHANGED <<kept, cdn, configured, uploads>> /\ GalleryIs(t, "remove")
         /\ PhotoJobShaped(my[t])
      /\ photos' = {} /\ my[t].key = 0 /\ \A r \in photos : \E q \in my[t].todo : q.key = r.key
  BY DEF Gallery!DeleteRows, GalleryInv, GalleryShape, GalleryDoing, PhotosRemoving
<1>2. GallerySteps(t, "r_objects", my[t])
  BY <1>1, GalleryStepping DEF Gallery!DeleteRows, Gallery!Go, GalleryInv
<1>3. IsFiniteSet(photos') /\ Cardinality(photos') = 0 /\ Gallery!Keys' = {}
  BY <1>1, FS_EmptySet DEF Gallery!Keys, Gallery!KeysIn
<1>4. \A u \in Tasks : ~GalleryIs(u, "addPhoto") /\ ~GalleryIs(u, "mirror")
  BY <1>1, GalleryExcluded DEF GalleryIs
<1>5. GalleryShape' /\ KeysNumbered' /\ GalleryDoing'
  BY <1>1, <1>2, <1>3, <1>4, GalleryCalm DEF GallerySteps, GalleryInv, GalleryShape, KeysNumbered,
     GalleryDoing, GalleryIs, Gallery!Keys, Gallery!KeysIn, Gallery!Labels
<1>6. GalleryOneBy'
  BY <1>1, <1>2, <1>3, <1>4, GalleryCalm DEF GallerySteps, GalleryInv, GalleryDoing, GalleryOneBy,
     GalleryIs
<1>7. KeysFresh'
  BY <1>1, <1>2, <1>3, <1>4, GalleryCalm DEF GallerySteps, GalleryInv, KeysNumbered, GalleryDoing,
     KeysFresh, GalleryIs, Gallery!Keys, Gallery!KeysIn
<1>8. GalleryWired' /\ PhotosPlaced'
  BY <1>1, <1>2, <1>3, <1>4, GalleryCalm DEF GallerySteps, GalleryInv, KeysNumbered, GalleryDoing,
     PhotosCopying, PhotoAdding, KeysFresh, GalleryWired, PhotosPlaced, GalleryIs, Gallery!Keys,
     Gallery!KeysIn
<1>9. PhotoAdding' /\ PhotoDeleting'
  BY <1>1, <1>2, <1>3, <1>4, GalleryCalm DEF GallerySteps, GalleryInv, KeysNumbered, GalleryDoing,
     KeysFresh, PhotoAdding, PhotoDeleting, PhotosPlaced, PhotosCopying, GalleryWired, GalleryIs,
     Gallery!Keys, Gallery!KeysIn
<1>10. PhotosRemoving'
  BY <1>1, <1>2, <1>3, <1>4, GalleryCalm DEF GallerySteps, GalleryInv, GalleryShape, KeysNumbered,
     GalleryDoing, PhotosRemoving, PhotosPlaced, GalleryWired, GalleryIs, Gallery!Keys,
     Gallery!KeysIn
<1>11. PhotosCopying'
  BY <1>1, <1>2, <1>3, <1>4, GalleryCalm DEF GallerySteps, GalleryInv, GalleryDoing,
     PhotosCopying, GalleryIs, Gallery!Keys
<1>12. PhotosPlacing'
  BY <1>1, <1>2, <1>3, <1>4, GalleryCalm DEF GallerySteps, GalleryInv, GalleryDoing,
     PhotosPlacing, GalleryIs
<1>13. Gallery!RowHasObject'
  BY <1>1, <1>2, <1>3, <1>4, GalleryCalm DEF GallerySteps, GalleryInv, GalleryShape, KeysNumbered,
     GalleryDoing, Gallery!GalleryHolds, Gallery!RowHasObject, Gallery!BeingDeleted, PhotoAdding,
     PhotosCopying, PhotosRemoving, GalleryIs, Gallery!Keys, Gallery!KeysIn
<1>14. Gallery!PublicIsNamed'
  BY <1>1, <1>2, <1>3, <1>4, GalleryCalm DEF GallerySteps, GalleryInv, GalleryShape, KeysNumbered,
     GalleryDoing, Gallery!GalleryHolds, Gallery!PublicIsNamed, Gallery!InFlight, PhotoAdding,
     PhotoDeleting, PhotosRemoving, PhotosCopying, GalleryWired, PhotoShaped, GalleryIs,
     Gallery!Keys, Gallery!KeysIn
<1>15. Gallery!FitsTheCap'
  BY GalleryCounts, <1>1, <1>2, <1>3, <1>4, GalleryCalm DEF GalleryInv, Gallery!GalleryHolds,
     Gallery!FitsTheCap, KeysFresh, GalleryIs, GalleryCalm
<1> QED BY <1>5, <1>6, <1>7, <1>8, <1>9, <1>10, <1>11, <1>12, <1>13, <1>14, <1>15
           DEF GalleryInv, Gallery!GalleryHolds

LEMMA DeletingObjects ==
  ASSUME GalleryCalm, GalleryInv, NEW t \in Tasks, Gallery!DeleteObjects(t)
  PROVE  GalleryInv'
<1>1. /\ at[t] = "r_objects" /\ UNCHANGED <<photos, configured, shut, uploads>>
         /\ GalleryIs(t, "remove") /\ PhotoJobShaped(my[t])
      /\ photos = {} /\ my[t].key = 0
      /\ \A r \in my[t].todo : PhotoShaped(r) /\ (r.at = "private" => r.key \notin cdn)
         /\ (r.at = "public" => configured)
  BY DEF Gallery!DeleteObjects, GalleryInv, GalleryShape, GalleryDoing, PhotosRemoving
<1>2. \A u \in Tasks : ~GalleryIs(u, "addPhoto") /\ ~GalleryIs(u, "mirror")
  BY <1>1, GalleryExcluded DEF GalleryIs
<1>3. CASE my[t].todo = {} /\ Gallery!End(t) /\ UNCHANGED <<kept, cdn>>
  <2>1. GallerySteps(t, "idle", Gallery!NoJob)
    BY <1>3, GalleryStepping, GalleryIdle DEF Gallery!End, GalleryInv
  <2>2. GalleryShape' /\ KeysNumbered' /\ GalleryDoing'
    BY <1>1, <1>2, <1>3, <2>1, GalleryIdle DEF GallerySteps, GalleryInv, GalleryShape,
       KeysNumbered, GalleryDoing, GalleryIs, Gallery!Keys, Gallery!KeysIn, Gallery!Labels
  <2>3. GalleryOneBy'
    BY <1>1, <1>2, <1>3, <2>1, GalleryIdle DEF GallerySteps, GalleryInv, GalleryDoing,
       GalleryOneBy, GalleryIs
  <2>4. KeysFresh'
    BY <1>1, <1>2, <1>3, <2>1, GalleryIdle DEF GallerySteps, GalleryInv, KeysNumbered,
       GalleryDoing, KeysFresh, GalleryIs, Gallery!Keys, Gallery!KeysIn
  <2>5. GalleryWired' /\ PhotosPlaced'
    BY <1>1, <1>2, <1>3, <2>1, GalleryIdle DEF GallerySteps, GalleryInv, KeysNumbered,
       GalleryDoing, PhotosCopying, PhotoAdding, KeysFresh, GalleryWired, PhotosPlaced, GalleryIs,
       Gallery!Keys, Gallery!KeysIn
  <2>6. PhotoAdding' /\ PhotoDeleting'
    BY <1>1, <1>2, <1>3, <2>1, GalleryIdle DEF GallerySteps, GalleryInv, KeysNumbered,
       GalleryDoing, KeysFresh, PhotoAdding, PhotoDeleting, PhotosPlaced, PhotosCopying,
       GalleryWired, GalleryIs, Gallery!Keys, Gallery!KeysIn
  <2>7. PhotosRemoving'
    BY <1>1, <1>2, <1>3, <2>1, GalleryIdle DEF GallerySteps, GalleryInv, GalleryShape,
       KeysNumbered, GalleryDoing, PhotosRemoving, PhotosPlaced, GalleryWired, GalleryIs,
       Gallery!Keys, Gallery!KeysIn
  <2>8. PhotosCopying'
    BY <1>1, <1>2, <1>3, <2>1, GalleryIdle DEF GallerySteps, GalleryInv, GalleryDoing,
       PhotosCopying, GalleryIs, Gallery!Keys
  <2>9. PhotosPlacing'
    BY <1>1, <1>2, <1>3, <2>1, GalleryIdle DEF GallerySteps, GalleryInv, GalleryDoing,
       PhotosPlacing, GalleryIs
  <2>10. Gallery!RowHasObject'
    BY <1>1, <1>2, <1>3, <2>1, GalleryIdle DEF GallerySteps, GalleryInv, GalleryShape,
       KeysNumbered, GalleryDoing, Gallery!GalleryHolds, Gallery!RowHasObject,
       Gallery!BeingDeleted, PhotoAdding, PhotosCopying, PhotosRemoving, GalleryIs, Gallery!Keys,
       Gallery!KeysIn
  <2>11. Gallery!PublicIsNamed'
    BY <1>1, <1>2, <1>3, <2>1, GalleryIdle DEF GallerySteps, GalleryInv, GalleryShape,
       KeysNumbered, GalleryDoing, Gallery!GalleryHolds, Gallery!PublicIsNamed, Gallery!InFlight,
       PhotoAdding, PhotoDeleting, PhotosRemoving, PhotosCopying, GalleryWired, PhotoShaped,
       GalleryIs, Gallery!Keys, Gallery!KeysIn
  <2>12. Gallery!FitsTheCap'
    BY GalleryCounts, <1>1, <1>2, <1>3, <2>1, GalleryIdle DEF GalleryInv, Gallery!GalleryHolds,
       Gallery!FitsTheCap, KeysFresh, GalleryIs, GalleryCalm
  <2> QED BY <2>2, <2>3, <2>4, <2>5, <2>6, <2>7, <2>8, <2>9, <2>10, <2>11, <2>12
             DEF GalleryInv, Gallery!GalleryHolds
<1>4. ASSUME NEW r \in my[t].todo, Gallery!Gone({r.key}, Gallery!Location(r)),
             Gallery!Keep(t, "r_objects", [my[t] EXCEPT !.todo = @ \ {r}])
      PROVE  GalleryInv'
  <2> DEFINE j == [my[t] EXCEPT !.todo = @ \ {r}]
  <2>1. PhotoJobShaped(j) /\ j.op = "remove" /\ j.key = 0 /\ j.todo = my[t].todo \ {r}
    BY <1>1, PhotoTodoShaped DEF GalleryIs
  <2>2. GallerySteps(t, "r_objects", j)
    BY <1>4, <2>1, GalleryStepping DEF GalleryInv
  <2>3. cdn' \subseteq cdn /\ kept' \subseteq kept /\ r.key \notin cdn' /\ \A x : x # r.key
        => (x \in cdn' <=> x \in cdn)
    BY <1>1, <1>4 DEF Gallery!Gone, Gallery!Location, PhotoShaped, Gallery!Places, GalleryCalm
  <2> HIDE DEF j
  <2>4. GalleryShape' /\ KeysNumbered' /\ GalleryDoing'
    BY <1>1, <1>2, <2>1, <2>2, <2>3 DEF GallerySteps, GalleryInv, GalleryShape, KeysNumbered,
       GalleryDoing, GalleryIs, Gallery!Keys, Gallery!KeysIn, Gallery!Labels
  <2>5. GalleryOneBy'
    BY <1>1, <1>2, <2>1, <2>2, <2>3 DEF GallerySteps, GalleryInv, GalleryDoing, GalleryOneBy,
       GalleryIs
  <2>6. KeysFresh'
    BY <1>1, <1>2, <2>1, <2>2, <2>3 DEF GallerySteps, GalleryInv, KeysNumbered, GalleryDoing,
       KeysFresh, GalleryIs, Gallery!Keys, Gallery!KeysIn
  <2>7. GalleryWired' /\ PhotosPlaced'
    BY <1>1, <1>2, <2>1, <2>2, <2>3 DEF GallerySteps, GalleryInv, KeysNumbered, GalleryDoing,
       PhotosCopying, PhotoAdding, KeysFresh, GalleryWired, PhotosPlaced, GalleryIs, Gallery!Keys,
       Gallery!KeysIn
  <2>8. PhotoAdding' /\ PhotoDeleting'
    BY <1>1, <1>2, <2>1, <2>2, <2>3 DEF GallerySteps, GalleryInv, KeysNumbered, GalleryDoing,
       KeysFresh, PhotoAdding, PhotoDeleting, PhotosPlaced, PhotosCopying, GalleryWired,
       GalleryIs, Gallery!Keys, Gallery!KeysIn
  <2>9. PhotosRemoving'
    BY <1>1, <1>2, <2>1, <2>2, <2>3 DEF GallerySteps, GalleryInv, GalleryShape, KeysNumbered,
       GalleryDoing, PhotosRemoving, PhotosPlaced, GalleryWired, GalleryIs, Gallery!Keys,
       Gallery!KeysIn
  <2>10. PhotosCopying'
    BY <1>1, <1>2, <2>1, <2>2, <2>3 DEF GallerySteps, GalleryInv, GalleryDoing, PhotosCopying,
       GalleryIs, Gallery!Keys
  <2>11. PhotosPlacing'
    BY <1>1, <1>2, <2>1, <2>2, <2>3 DEF GallerySteps, GalleryInv, GalleryDoing, PhotosPlacing,
       GalleryIs
  <2>12. Gallery!RowHasObject'
    BY <1>1, <1>2, <2>1, <2>2, <2>3 DEF GallerySteps, GalleryInv, GalleryShape, KeysNumbered,
       GalleryDoing, Gallery!GalleryHolds, Gallery!RowHasObject, Gallery!BeingDeleted,
       PhotoAdding, PhotosCopying, PhotosRemoving, GalleryIs, Gallery!Keys, Gallery!KeysIn
  <2>13. Gallery!PublicIsNamed'
    BY <1>1, <1>2, <2>1, <2>2, <2>3 DEF GallerySteps, GalleryInv, GalleryShape, KeysNumbered,
       GalleryDoing, Gallery!GalleryHolds, Gallery!PublicIsNamed, Gallery!InFlight, PhotoAdding,
       PhotoDeleting, PhotosRemoving, PhotosCopying, GalleryWired, PhotoShaped, GalleryIs,
       Gallery!Keys, Gallery!KeysIn
  <2>14. Gallery!FitsTheCap'
    BY GalleryCounts, <1>1, <1>2, <2>1, <2>2, <2>3 DEF GalleryInv, Gallery!GalleryHolds,
       Gallery!FitsTheCap, KeysFresh, GalleryIs, GalleryCalm
  <2> QED BY <2>4, <2>5, <2>6, <2>7, <2>8, <2>9, <2>10, <2>11, <2>12, <2>13, <2>14
             DEF GalleryInv, Gallery!GalleryHolds
<1> QED BY <1>3, <1>4 DEF Gallery!DeleteObjects

LEMMA Mirroring ==
  ASSUME GalleryCalm, GalleryInv, NEW t \in Tasks, Gallery!MirrorShowroomPhotos(t)
  PROVE  GalleryInv'
<1> DEFINE them == {r \in photos : r.at = "private"}
<1>1. Gallery!Begin(t, "m_copy", [Gallery!Job("mirror", 0, "none") EXCEPT !.todo = them])
      /\ UNCHANGED <<photos, kept, cdn, configured, shut, uploads>> /\ configured
  BY DEF Gallery!MirrorShowroomPhotos
<1> DEFINE j == [Gallery!Job("mirror", 0, "none") EXCEPT !.todo = them]
<1>2. PhotoJobShaped(Gallery!Job("mirror", 0, "none")) /\ Gallery!Job("mirror", 0, "none").op = "mirror"
      /\ Gallery!Job("mirror", 0, "none").key = 0
  BY GalleryJobs
<1>3. PhotoJobShaped(j) /\ j.op = "mirror" /\ j.key = 0 /\ j.todo = them
  BY <1>2, PhotoTodoShaped
<1>4. GallerySteps(t, "m_copy", j) /\ at[t] = "idle" /\ GalleryOneBy'
  BY <1>1, <1>3, GalleryBegins
<1>5. Gallery!KeysIn(them) \subseteq Gallery!Keys
  BY DEF Gallery!Keys, Gallery!KeysIn
<1> HIDE DEF j, them
<1>6. GalleryShape' /\ KeysNumbered' /\ GalleryDoing'
  BY <1>1, <1>3, <1>4, <1>5 DEF GallerySteps, GalleryInv, GalleryShape, KeysNumbered,
     GalleryDoing, GalleryIs, Gallery!Keys, Gallery!KeysIn, Gallery!Labels
<1>7. GalleryOneBy'
  BY <1>1, <1>3, <1>4, <1>5 DEF GallerySteps, GalleryInv, GalleryDoing, GalleryOneBy, GalleryIs
<1>8. KeysFresh'
  BY <1>1, <1>3, <1>4, <1>5 DEF GallerySteps, GalleryInv, KeysNumbered, GalleryDoing, KeysFresh,
     GalleryIs, Gallery!Keys, Gallery!KeysIn
<1>9. GalleryWired' /\ PhotosPlaced'
  BY <1>1, <1>3, <1>4, <1>5 DEF GallerySteps, GalleryInv, KeysNumbered, GalleryDoing,
     PhotosCopying, PhotoAdding, KeysFresh, GalleryWired, PhotosPlaced, GalleryIs, Gallery!Keys,
     Gallery!KeysIn
<1>10. PhotoAdding' /\ PhotoDeleting'
  BY <1>1, <1>3, <1>4, <1>5 DEF GallerySteps, GalleryInv, KeysNumbered, GalleryDoing, KeysFresh,
     PhotoAdding, PhotoDeleting, PhotosPlaced, PhotosCopying, GalleryWired, GalleryIs,
     Gallery!Keys, Gallery!KeysIn
<1>11. PhotosRemoving'
  BY <1>1, <1>3, <1>4, <1>5 DEF GallerySteps, GalleryInv, GalleryShape, KeysNumbered,
     GalleryDoing, PhotosRemoving, PhotosPlaced, GalleryWired, GalleryIs, Gallery!Keys,
     Gallery!KeysIn
<1>12. PhotosCopying'
  BY <1>1, <1>3, <1>4, <1>5 DEF GallerySteps, GalleryInv, GalleryDoing, PhotosCopying, GalleryIs,
     Gallery!Keys
<1>13. PhotosPlacing'
  BY <1>1, <1>3, <1>4, <1>5 DEF GallerySteps, GalleryInv, GalleryDoing, PhotosPlacing, GalleryIs
<1>14. Gallery!RowHasObject'
  BY <1>1, <1>3, <1>4, <1>5 DEF GallerySteps, GalleryInv, GalleryShape, KeysNumbered,
     GalleryDoing, Gallery!GalleryHolds, Gallery!RowHasObject, Gallery!BeingDeleted, PhotoAdding,
     PhotosCopying, PhotosRemoving, GalleryIs, Gallery!Keys, Gallery!KeysIn
<1>15. Gallery!PublicIsNamed'
  BY <1>1, <1>3, <1>4, <1>5 DEF GallerySteps, GalleryInv, KeysNumbered, GalleryDoing,
     Gallery!GalleryHolds, Gallery!PublicIsNamed, Gallery!InFlight, PhotosCopying, PhotosRemoving,
     GalleryIs, Gallery!Keys, Gallery!KeysIn
<1>16. Gallery!FitsTheCap'
  BY GalleryCounts, <1>1, <1>3, <1>4, <1>5 DEF GalleryInv, Gallery!GalleryHolds,
     Gallery!FitsTheCap, KeysFresh, GalleryIs, GalleryCalm
<1> QED BY <1>6, <1>7, <1>8, <1>9, <1>10, <1>11, <1>12, <1>13, <1>14, <1>15, <1>16
           DEF GalleryInv, Gallery!GalleryHolds

LEMMA CopyingOut ==
  ASSUME GalleryCalm, GalleryInv, NEW t \in Tasks, Gallery!CopyOut(t)
  PROVE  GalleryInv'
<1>1. /\ at[t] = "m_copy" /\ UNCHANGED <<photos, kept, configured, shut, uploads>>
         /\ GalleryIs(t, "mirror") /\ PhotoJobShaped(my[t])
      /\ configured /\ Gallery!KeysIn(my[t].todo) \subseteq Gallery!Keys
         /\ (my[t].key = 0 \/ \E r \in photos : r.key = my[t].key /\ r.at = "public")
  BY DEF Gallery!CopyOut, GalleryInv, GalleryShape, GalleryDoing, PhotosCopying
<1>2. \A u \in Tasks : ~GalleryIs(u, "remove") /\ ~GalleryIs(u, "deletePhoto")
  BY <1>1, GalleryExcluded DEF GalleryIs
<1>3. CASE Gallery!End(t) /\ UNCHANGED cdn
  <2>1. GallerySteps(t, "idle", Gallery!NoJob)
    BY <1>3, GalleryStepping, GalleryIdle DEF Gallery!End, GalleryInv
  <2>2. GalleryShape' /\ KeysNumbered' /\ GalleryDoing'
    BY <1>1, <1>2, <1>3, <2>1, GalleryIdle DEF GallerySteps, GalleryInv, GalleryShape,
       KeysNumbered, GalleryDoing, GalleryIs, Gallery!Keys, Gallery!KeysIn, Gallery!Labels
  <2>3. GalleryOneBy'
    BY <1>1, <1>2, <1>3, <2>1, GalleryIdle DEF GallerySteps, GalleryInv, GalleryDoing,
       GalleryOneBy, GalleryIs
  <2>4. KeysFresh'
    BY <1>1, <1>2, <1>3, <2>1, GalleryIdle DEF GallerySteps, GalleryInv, KeysNumbered,
       GalleryDoing, KeysFresh, GalleryIs, Gallery!Keys, Gallery!KeysIn
  <2>5. GalleryWired' /\ PhotosPlaced'
    BY <1>1, <1>2, <1>3, <2>1, GalleryIdle DEF GallerySteps, GalleryInv, KeysNumbered,
       GalleryDoing, PhotosCopying, PhotoAdding, KeysFresh, GalleryWired, PhotosPlaced, GalleryIs,
       Gallery!Keys, Gallery!KeysIn
  <2>6. PhotoAdding' /\ PhotoDeleting'
    BY <1>1, <1>2, <1>3, <2>1, GalleryIdle DEF GallerySteps, GalleryInv, KeysNumbered,
       GalleryDoing, KeysFresh, PhotoAdding, PhotoDeleting, PhotosPlaced, PhotosCopying,
       GalleryWired, GalleryIs, Gallery!Keys, Gallery!KeysIn
  <2>7. PhotosRemoving'
    BY <1>1, <1>2, <1>3, <2>1, GalleryIdle DEF GallerySteps, GalleryInv, GalleryShape,
       KeysNumbered, GalleryDoing, PhotosRemoving, PhotosPlaced, GalleryWired, GalleryIs,
       Gallery!Keys, Gallery!KeysIn
  <2>8. PhotosCopying'
    BY <1>1, <1>2, <1>3, <2>1, GalleryIdle DEF GallerySteps, GalleryInv, GalleryDoing,
       PhotosCopying, GalleryIs, Gallery!Keys
  <2>9. PhotosPlacing'
    BY <1>1, <1>2, <1>3, <2>1, GalleryIdle DEF GallerySteps, GalleryInv, GalleryDoing,
       PhotosPlacing, GalleryIs
  <2>10. Gallery!RowHasObject'
    BY <1>1, <1>2, <1>3, <2>1, GalleryIdle DEF GallerySteps, GalleryInv, GalleryShape,
       KeysNumbered, GalleryDoing, Gallery!GalleryHolds, Gallery!RowHasObject,
       Gallery!BeingDeleted, PhotoAdding, PhotosCopying, PhotosRemoving, GalleryIs, Gallery!Keys,
       Gallery!KeysIn
  <2>11. Gallery!PublicIsNamed'
    BY <1>1, <1>2, <1>3, <2>1, GalleryIdle DEF GallerySteps, GalleryInv, KeysNumbered,
       GalleryDoing, Gallery!GalleryHolds, Gallery!PublicIsNamed, Gallery!InFlight, PhotosCopying,
       PhotosRemoving, GalleryIs, Gallery!Keys, Gallery!KeysIn
  <2>12. Gallery!FitsTheCap'
    BY GalleryCounts, <1>1, <1>2, <1>3, <2>1, GalleryIdle DEF GalleryInv, Gallery!GalleryHolds,
       Gallery!FitsTheCap, KeysFresh, GalleryIs, GalleryCalm
  <2> QED BY <2>2, <2>3, <2>4, <2>5, <2>6, <2>7, <2>8, <2>9, <2>10, <2>11, <2>12
             DEF GalleryInv, Gallery!GalleryHolds
<1>4. ASSUME NEW r \in my[t].todo, cdn' = cdn \cup {r.key},
             Gallery!Keep(t, "m_row", [[my[t] EXCEPT !.todo = @ \ {r}] EXCEPT !.key = r.key])
      PROVE  GalleryInv'
  <2> DEFINE i == [my[t] EXCEPT !.todo = @ \ {r}]
             j == [i EXCEPT !.key = r.key]
  <2>1. PhotoJobShaped(i) /\ i.op = "mirror" /\ i.todo = my[t].todo \ {r}
    BY <1>1, PhotoTodoShaped DEF GalleryIs
  <2>2. PhotoJobShaped(j) /\ j.op = "mirror" /\ j.todo = my[t].todo \ {r} /\ j.key = r.key
    <3> HIDE DEF i
    <3> QED BY <2>1, PhotoKeyShaped
  <2>3. GallerySteps(t, "m_row", j)
    BY <1>4, <2>2, GalleryStepping DEF GalleryInv
  <2> HIDE DEF j, i
  <2>4. r.key \in Gallery!Keys /\ r.key \in 1 .. uploads
        /\ Gallery!KeysIn(my[t].todo \ {r}) \subseteq Gallery!Keys
    BY <1>1 DEF Gallery!KeysIn, GalleryInv, KeysNumbered
  <2>5. \A u \in Tasks : GalleryIs(u, "addPhoto") => my[u].key # r.key
    BY <2>4 DEF GalleryInv, KeysFresh, GalleryIs
  <2>6. GalleryShape' /\ KeysNumbered' /\ GalleryDoing'
    BY <1>1, <1>2, <1>4, <2>2, <2>3, <2>4, <2>5 DEF GallerySteps, GalleryInv, GalleryShape,
       KeysNumbered, GalleryDoing, GalleryIs, Gallery!Keys, Gallery!KeysIn, Gallery!Labels
  <2>7. GalleryOneBy'
    BY <1>1, <1>2, <1>4, <2>2, <2>3, <2>4, <2>5 DEF GallerySteps, GalleryInv, GalleryDoing,
       GalleryOneBy, GalleryIs
  <2>8. KeysFresh'
    BY <1>1, <1>2, <1>4, <2>2, <2>3, <2>4, <2>5 DEF GallerySteps, GalleryInv, KeysNumbered,
       GalleryDoing, KeysFresh, GalleryIs, Gallery!Keys, Gallery!KeysIn
  <2>9. GalleryWired' /\ PhotosPlaced'
    BY <1>1, <1>2, <1>4, <2>2, <2>3, <2>4, <2>5 DEF GallerySteps, GalleryInv, KeysNumbered,
       GalleryDoing, PhotosCopying, PhotoAdding, KeysFresh, GalleryWired, PhotosPlaced, GalleryIs,
       Gallery!Keys, Gallery!KeysIn
  <2>10. PhotoAdding' /\ PhotoDeleting'
    BY <1>1, <1>2, <1>4, <2>2, <2>3, <2>4, <2>5 DEF GallerySteps, GalleryInv, KeysNumbered,
       GalleryDoing, KeysFresh, PhotoAdding, PhotoDeleting, PhotosPlaced, PhotosCopying,
       GalleryWired, GalleryIs, Gallery!Keys, Gallery!KeysIn
  <2>11. PhotosRemoving'
    BY <1>1, <1>2, <1>4, <2>2, <2>3, <2>4, <2>5 DEF GallerySteps, GalleryInv, GalleryShape,
       KeysNumbered, GalleryDoing, PhotosRemoving, PhotosPlaced, GalleryWired, GalleryIs,
       Gallery!Keys, Gallery!KeysIn
  <2>12. PhotosCopying'
    BY <1>1, <1>2, <1>4, <2>2, <2>3, <2>4, <2>5 DEF GallerySteps, GalleryInv, GalleryDoing,
       PhotosCopying, GalleryIs, Gallery!Keys
  <2>13. PhotosPlacing'
    BY <1>1, <1>2, <1>4, <2>2, <2>3, <2>4, <2>5 DEF GallerySteps, GalleryInv, GalleryDoing,
       PhotosPlacing, GalleryIs
  <2>14. Gallery!RowHasObject'
    BY <1>1, <1>2, <1>4, <2>2, <2>3, <2>4, <2>5 DEF GallerySteps, GalleryInv, GalleryShape,
       KeysNumbered, GalleryDoing, Gallery!GalleryHolds, Gallery!RowHasObject,
       Gallery!BeingDeleted, PhotoAdding, PhotosCopying, PhotosRemoving, GalleryIs, Gallery!Keys,
       Gallery!KeysIn
  <2>15. Gallery!PublicIsNamed'
    BY <1>1, <1>2, <1>4, <2>2, <2>3, <2>4, <2>5 DEF GallerySteps, GalleryInv, KeysNumbered,
       GalleryDoing, Gallery!GalleryHolds, Gallery!PublicIsNamed, Gallery!InFlight, PhotosCopying,
       PhotosRemoving, GalleryIs, Gallery!Keys, Gallery!KeysIn
  <2>16. Gallery!FitsTheCap'
    BY GalleryCounts, <1>1, <1>2, <1>4, <2>2, <2>3, <2>4, <2>5
       DEF GalleryInv, Gallery!GalleryHolds, Gallery!FitsTheCap, KeysFresh, GalleryIs, GalleryCalm
  <2> QED BY <2>6, <2>7, <2>8, <2>9, <2>10, <2>11, <2>12, <2>13, <2>14, <2>15, <2>16
             DEF GalleryInv, Gallery!GalleryHolds
<1>5. ASSUME NEW r \in my[t].todo, UNCHANGED cdn,
             Gallery!Keep(t, "m_copy", [my[t] EXCEPT !.todo = @ \ {r}])
      PROVE  GalleryInv'
  <2> DEFINE j == [my[t] EXCEPT !.todo = @ \ {r}]
  <2>1. PhotoJobShaped(j) /\ j.op = "mirror" /\ j.todo = my[t].todo \ {r} /\ j.key = my[t].key
    BY <1>1, PhotoTodoShaped DEF GalleryIs
  <2>2. GallerySteps(t, "m_copy", j)
    BY <1>5, <2>1, GalleryStepping DEF GalleryInv
  <2> HIDE DEF j
  <2>3. Gallery!KeysIn(my[t].todo \ {r}) \subseteq Gallery!Keys
    BY <1>1 DEF Gallery!KeysIn
  <2>4. GalleryShape' /\ KeysNumbered' /\ GalleryDoing'
    BY <1>1, <1>2, <1>5, <2>1, <2>2, <2>3 DEF GallerySteps, GalleryInv, GalleryShape,
       KeysNumbered, GalleryDoing, GalleryIs, Gallery!Keys, Gallery!KeysIn, Gallery!Labels
  <2>5. GalleryOneBy'
    BY <1>1, <1>2, <1>5, <2>1, <2>2, <2>3 DEF GallerySteps, GalleryInv, GalleryDoing,
       GalleryOneBy, GalleryIs
  <2>6. KeysFresh'
    BY <1>1, <1>2, <1>5, <2>1, <2>2, <2>3 DEF GallerySteps, GalleryInv, KeysNumbered,
       GalleryDoing, KeysFresh, GalleryIs, Gallery!Keys, Gallery!KeysIn
  <2>7. GalleryWired' /\ PhotosPlaced'
    BY <1>1, <1>2, <1>5, <2>1, <2>2, <2>3 DEF GallerySteps, GalleryInv, KeysNumbered,
       GalleryDoing, PhotosCopying, PhotoAdding, KeysFresh, GalleryWired, PhotosPlaced, GalleryIs,
       Gallery!Keys, Gallery!KeysIn
  <2>8. PhotoAdding' /\ PhotoDeleting'
    BY <1>1, <1>2, <1>5, <2>1, <2>2, <2>3 DEF GallerySteps, GalleryInv, KeysNumbered,
       GalleryDoing, KeysFresh, PhotoAdding, PhotoDeleting, PhotosPlaced, PhotosCopying,
       GalleryWired, GalleryIs, Gallery!Keys, Gallery!KeysIn
  <2>9. PhotosRemoving'
    BY <1>1, <1>2, <1>5, <2>1, <2>2, <2>3 DEF GallerySteps, GalleryInv, GalleryShape,
       KeysNumbered, GalleryDoing, PhotosRemoving, PhotosPlaced, GalleryWired, GalleryIs,
       Gallery!Keys, Gallery!KeysIn
  <2>10. PhotosCopying'
    BY <1>1, <1>2, <1>5, <2>1, <2>2, <2>3 DEF GallerySteps, GalleryInv, GalleryDoing,
       PhotosCopying, GalleryIs, Gallery!Keys
  <2>11. PhotosPlacing'
    BY <1>1, <1>2, <1>5, <2>1, <2>2, <2>3 DEF GallerySteps, GalleryInv, GalleryDoing,
       PhotosPlacing, GalleryIs
  <2>12. Gallery!RowHasObject'
    BY <1>1, <1>2, <1>5, <2>1, <2>2, <2>3 DEF GallerySteps, GalleryInv, GalleryShape,
       KeysNumbered, GalleryDoing, Gallery!GalleryHolds, Gallery!RowHasObject,
       Gallery!BeingDeleted, PhotoAdding, PhotosCopying, PhotosRemoving, GalleryIs, Gallery!Keys,
       Gallery!KeysIn
  <2>13. Gallery!PublicIsNamed'
    BY <1>1, <1>2, <1>5, <2>1, <2>2, <2>3 DEF GallerySteps, GalleryInv, KeysNumbered,
       GalleryDoing, Gallery!GalleryHolds, Gallery!PublicIsNamed, Gallery!InFlight, PhotosCopying,
       PhotosRemoving, GalleryIs, Gallery!Keys, Gallery!KeysIn
  <2>14. Gallery!FitsTheCap'
    BY GalleryCounts, <1>1, <1>2, <1>5, <2>1, <2>2, <2>3 DEF GalleryInv, Gallery!GalleryHolds,
       Gallery!FitsTheCap, KeysFresh, GalleryIs, GalleryCalm
  <2> QED BY <2>4, <2>5, <2>6, <2>7, <2>8, <2>9, <2>10, <2>11, <2>12, <2>13, <2>14
             DEF GalleryInv, Gallery!GalleryHolds
<1> QED BY <1>1, <1>3, <1>4, <1>5 DEF Gallery!CopyOut

LEMMA RowsArePublic ==
  ASSUME GalleryCalm, GalleryInv, NEW t \in Tasks, Gallery!RowIsPublic(t)
  PROVE  GalleryInv'
<1> DEFINE k == my[t].key
           put(r) == IF r.key = k THEN [r EXCEPT !.at = "public"] ELSE r
           f == [r \in photos |-> put(r)]
<1>1. /\ at[t] = "m_row" /\ UNCHANGED <<kept, cdn, configured, shut, uploads>> /\ GalleryIs(t, "mirror")
         /\ PhotoJobShaped(my[t])
      /\ configured /\ Gallery!KeysIn(my[t].todo) \subseteq Gallery!Keys /\ k \in Gallery!Keys
         /\ k \in cdn
  BY DEF Gallery!RowIsPublic, GalleryInv, GalleryShape, GalleryDoing, PhotosCopying
<1>2. GallerySteps(t, "m_copy", my[t])
  BY <1>1, GalleryStepping DEF Gallery!RowIsPublic, Gallery!Go, GalleryInv
<1>0. photos' = {f[r] : r \in photos}
  BY DEF Gallery!RowIsPublic
<1>3. \A r \in photos : PhotoShaped(f[r]) /\ f[r].key = r.key /\ f[r].hash = r.hash
      /\ f[r].at = IF r.key = k THEN "public" ELSE r.at
  BY DEF GalleryInv, GalleryShape, PhotoShaped, Gallery!Places
<1>4. DOMAIN f = photos
  OBVIOUS
<1> HIDE DEF f, put
<1>5. PhotosRewritten(photos, photos')
  BY <1>0, <1>3, <1>4, WritingAgain DEF GalleryInv, GalleryShape, KeysNumbered
<1>6. /\ \A r \in photos' : \E q \in photos : r.key = q.key /\ r.hash = q.hash
         /\ r.at = IF q.key = k THEN "public" ELSE q.at
      /\ \A q \in photos : \E r \in photos' : r.key = q.key /\ r.hash = q.hash
         /\ r.at = IF q.key = k THEN "public" ELSE q.at
  BY <1>0, <1>3
<1>7. IsFiniteSet(photos') /\ Cardinality(photos') <= Cardinality(photos)
      /\ Cardinality(photos') \in Nat /\ Cardinality(photos) \in Nat
      /\ (\A r \in photos' : PhotoShaped(r)) /\ \A r, q \in photos' : r.key = q.key => r = q
  BY <1>5, FS_CardinalityType DEF PhotosRewritten, GalleryInv, GalleryShape
<1>8. Gallery!Keys' = Gallery!Keys
  BY <1>6 DEF Gallery!Keys, Gallery!KeysIn
<1>9. \A u \in Tasks : ~GalleryIs(u, "remove") /\ ~GalleryIs(u, "deletePhoto")
  BY <1>1, GalleryExcluded DEF GalleryIs
<1>10. GalleryShape' /\ KeysNumbered' /\ GalleryDoing'
  BY <1>1, <1>2, <1>6, <1>7, <1>8, <1>9 DEF GallerySteps, GalleryInv, GalleryShape, KeysNumbered,
     GalleryDoing, GalleryIs, Gallery!Keys, Gallery!KeysIn, Gallery!Labels
<1>u. \A u \in Tasks : my'[u] = my[u] /\ (at'[u] # "idle" => at[u] # "idle")
      /\ (u # t => at'[u] = at[u])
  BY <1>1, <1>2 DEF GallerySteps
<1>r. \E r \in photos' : r.key = k /\ r.at = "public"
  BY <1>1, <1>6 DEF Gallery!Keys, Gallery!KeysIn
<1>11. GalleryOneBy'
  BY <1>u DEF GalleryInv, GalleryOneBy
<1>12. KeysFresh'
  BY <1>1, <1>2, <1>6, <1>7, <1>8 DEF GallerySteps, GalleryInv, KeysFresh, GalleryIs, GalleryCalm
<1>13. GalleryWired' /\ PhotosPlaced'
  BY <1>1, <1>2, <1>6 DEF GallerySteps, GalleryInv, GalleryWired, PhotosPlaced
<1>14. PhotoAdding' /\ PhotoDeleting'
  BY <1>1, <1>2, <1>6, <1>7, <1>8, <1>9 DEF GallerySteps, GalleryInv, KeysNumbered, GalleryDoing,
     KeysFresh, PhotoAdding, PhotoDeleting, PhotosPlaced, PhotosCopying, GalleryWired, GalleryIs,
     Gallery!Keys, Gallery!KeysIn
<1>15. PhotosRemoving'
  BY <1>1, <1>2, <1>6, <1>7, <1>8, <1>9 DEF GallerySteps, GalleryInv, GalleryShape, KeysNumbered,
     GalleryDoing, PhotosRemoving, PhotosPlaced, GalleryWired, GalleryIs, Gallery!Keys,
     Gallery!KeysIn
<1>16. PhotosCopying'
  BY <1>1, <1>6, <1>8, <1>u, <1>r DEF GalleryInv, PhotosCopying, GalleryIs
<1>17. PhotosPlacing'
  BY <1>1, <1>2, <1>6, <1>7, <1>8, <1>9 DEF GallerySteps, GalleryInv, GalleryDoing, PhotosPlacing,
     GalleryIs
<1>18. Gallery!RowHasObject'
  BY <1>1, <1>2, <1>6, <1>9 DEF GallerySteps, GalleryInv, Gallery!GalleryHolds,
     Gallery!RowHasObject, Gallery!BeingDeleted, GalleryIs
<1>19. Gallery!PublicIsNamed'
  BY <1>1, <1>2, <1>6, <1>9 DEF GallerySteps, GalleryInv, Gallery!GalleryHolds,
     Gallery!PublicIsNamed, Gallery!InFlight, Gallery!KeysIn, GalleryIs
<1>20. Gallery!FitsTheCap'
  BY GalleryCounts, <1>1, <1>2, <1>6, <1>7, <1>8, <1>9 DEF GalleryInv, Gallery!GalleryHolds,
     Gallery!FitsTheCap, KeysFresh, GalleryIs, GalleryCalm
<1> QED BY <1>10, <1>11, <1>12, <1>13, <1>14, <1>15, <1>16, <1>17, <1>18, <1>19, <1>20
           DEF GalleryInv, Gallery!GalleryHolds

LEMMA GalleryWiring ==
  ASSUME GalleryCalm, GalleryInv, Gallery!Wire
  PROVE  GalleryInv'
<1>1. ~configured /\ configured' = TRUE /\ (\A t \in Tasks : at[t] = "idle" /\ GalleryIs(t, "none"))
      /\ UNCHANGED <<photos, kept, cdn, shut, uploads, at, my>>
  BY DEF Gallery!Wire, GalleryInv, GalleryDoing
<1>2. GalleryShape' /\ KeysNumbered' /\ GalleryDoing' /\ GalleryOneBy' /\ KeysFresh' /\ GalleryWired'
      /\ PhotosPlaced' /\ Gallery!FitsTheCap'
  BY GalleryCounts, <1>1 DEF GalleryInv, GalleryShape, KeysNumbered, GalleryDoing, GalleryOneBy,
     KeysFresh, GalleryWired, PhotosPlaced, Gallery!GalleryHolds, Gallery!FitsTheCap,
     Gallery!Keys, Gallery!KeysIn, GalleryIs
<1>3. PhotoAdding' /\ PhotoDeleting' /\ PhotosRemoving' /\ PhotosCopying' /\ PhotosPlacing'
  BY <1>1 DEF PhotoAdding, PhotoDeleting, PhotosRemoving, PhotosCopying, PhotosPlacing, GalleryIs
<1>4. Gallery!RowHasObject' /\ Gallery!PublicIsNamed'
  BY <1>1 DEF GalleryInv, Gallery!GalleryHolds, Gallery!RowHasObject, Gallery!BeingDeleted,
     Gallery!PublicIsNamed, Gallery!InFlight
<1> QED BY <1>2, <1>3, <1>4 DEF GalleryInv, Gallery!GalleryHolds

LEMMA GalleryStays ==
  ASSUME GalleryInv, UNCHANGED Gallery!galleryVars
  PROVE  GalleryInv'
<1>1. UNCHANGED <<photos, kept, cdn, configured, shut, uploads, at, my>>
  BY DEF Gallery!galleryVars
<1>2. GalleryShape' /\ KeysNumbered' /\ GalleryDoing' /\ GalleryOneBy' /\ KeysFresh' /\ GalleryWired'
      /\ PhotosPlaced' /\ Gallery!FitsTheCap'
  BY GalleryCounts, <1>1 DEF GalleryInv, GalleryShape, KeysNumbered, GalleryDoing, GalleryOneBy,
     KeysFresh, GalleryWired, PhotosPlaced, Gallery!GalleryHolds, Gallery!FitsTheCap,
     Gallery!Keys, Gallery!KeysIn, GalleryIs
<1>3. PhotoAdding' /\ PhotoDeleting' /\ PhotosRemoving' /\ PhotosCopying' /\ PhotosPlacing'
  BY <1>1 DEF GalleryInv, PhotoAdding, PhotoDeleting, PhotosRemoving, PhotosCopying,
     PhotosPlacing, GalleryIs, Gallery!Keys, Gallery!KeysIn
<1>4. Gallery!RowHasObject' /\ Gallery!PublicIsNamed'
  BY <1>1 DEF GalleryInv, Gallery!GalleryHolds, Gallery!RowHasObject, Gallery!BeingDeleted,
     Gallery!PublicIsNamed, Gallery!InFlight
<1> QED BY <1>2, <1>3, <1>4 DEF GalleryInv, Gallery!GalleryHolds

LEMMA GalleryStep == GalleryCalm /\ GalleryInv /\ (Gallery!Next \/ UNCHANGED Gallery!galleryVars)
  => GalleryInv'
BY AddingPhoto, PuttingObject, CreatingRow, DeletingPhoto, DeletingObject, DeletingRow,
   ReorderingPhotos, WritingPlaces, RemovingAdvert, DeletingRows, DeletingObjects, Mirroring,
   CopyingOut, RowsArePublic, GalleryWiring, GalleryStays DEF Gallery!Next

\* Nobody but the reorder ends at its label.
LEMMA ReordersAreWhole == GalleryCalm /\ GalleryInv /\ Gallery!Next => Gallery!ReorderIsWhole
<1> SUFFICES ASSUME GalleryCalm, GalleryInv, Gallery!Next, NEW u \in Tasks, at[u] = "o_write",
                    photos' # photos, at'[u] = "idle"
             PROVE  Gallery!ReorderIsWhole
  BY DEF Gallery!ReorderIsWhole
<1>1. PICK t \in Tasks : \/ Gallery!CreateRow(t) \/ Gallery!DeleteRow(t) \/ Gallery!WritePlaces(t)
                            \/ Gallery!DeleteRows(t) \/ Gallery!RowIsPublic(t)
  BY DEF Gallery!Next, Gallery!Wire, Gallery!AddPhoto, Gallery!PutObject, Gallery!DeletePhoto,
     Gallery!DeleteObject, Gallery!ReorderPhotos, Gallery!DeleteWithPhotos, Gallery!DeleteObjects,
     Gallery!MirrorShowroomPhotos, Gallery!CopyOut
<1>2. CASE Gallery!WritePlaces(t)
  BY <1>2, WritingPlaces
<1>3. ASSUME ~Gallery!WritePlaces(t)
      PROVE  FALSE
  <2>1. at[t] # "o_write" /\ \E label : at' = [at EXCEPT ![t] = label]
    BY <1>1, <1>3 DEF Gallery!CreateRow, Gallery!DeleteRow, Gallery!DeleteRows,
       Gallery!RowIsPublic, Gallery!End, Gallery!Go, Gallery!Keep
  <2> QED BY <2>1 DEF GalleryInv, GalleryShape
<1> QED BY <1>2, <1>3
==============================================================================
