------------------------ MODULE WebhookClaim_proofs ------------------------
(***************************************************************************)
(* The theorems of WebhookClaim, of the composition MCLive: for any number  *)
(* of overlapping deliveries and under any of the faults.                   *)
(***************************************************************************)
EXTENDS MCLive, TLAPS

\* Mutual exclusion is not inductive by itself: what excludes a second handler
\* is that the row still carries the first one's claim.
HandlerOwnsRow ==
  ~stolen => \A d \in Deliveries : eventAt[d] \in Events!Handling => row = "claimed" /\ owner = d

\* A delivery about to close has run the handler.
CompletingHasHandled == \A d \in Deliveries : eventAt[d] = "complete" => handled

IInv == Events!TypeOK /\ HandlerOwnsRow /\ CompletingHasHandled /\ Events!ProcessedWasHandled

\* As long as no delivery came upon another, the one that is running is alone, and
\* the claim it has come upon, if any, is a dead one.
RunsAlone == ~overlapped => \A d, e \in Deliveries : eventAt[d] # "idle" /\ eventAt[e] # "idle" => d = e
MeetsNoLiveClaim ==
  ~overlapped => \A d \in Deliveries :
    /\ eventAt[d] \in {"insert", "steal"} => ~(row = "claimed" /\ fresh)
    /\ eventAt[d] = "steal" => row # "none"
AckedOnceHandled == acked /\ ~overlapped => handled

SerialInv == IInv /\ RunsAlone /\ MeetsNoLiveClaim /\ AckedOnceHandled

\* The owner is one delivery, so no two deliveries are in the handler.
LEMMA IInvImplies == IInv => Events!OneHandler /\ Events!ProcessedWasHandled
  BY DEF IInv, HandlerOwnsRow, Events!OneHandler

LEMMA IInvInit == Events!Init => IInv
  BY NobodyAssumption
     DEF Events!Init, IInv, Events!TypeOK, HandlerOwnsRow, CompletingHasHandled,
         Events!ProcessedWasHandled, Events!Handling

\* Every step keeps the invariant, one case per action.
LEMMA IInvNext == IInv /\ [Events!Next]_(Events!vars) => IInv'
<1> SUFFICES ASSUME IInv, [Events!Next]_(Events!vars) PROVE IInv'
  OBVIOUS
<1> USE DEF IInv, Events!TypeOK, HandlerOwnsRow, CompletingHasHandled, Events!ProcessedWasHandled,
            Events!Handling, Events!Goto, Events!Answer200, Events!Answer500, Events!history
<1>1. ASSUME NEW d \in Deliveries, Events!Deliver(d) PROVE IInv'
  BY <1>1 DEF Events!Deliver
<1>2. ASSUME NEW d \in Deliveries, Events!InsertClaim(d) PROVE IInv'
  <2>1. CASE row = "none" /\ Events!TakeClaim(d)
    \* No handler runs over an absent row, so the new claim has no rival.
    <3>1. ~stolen => \A e \in Deliveries : eventAt[e] \notin Events!Handling
      BY <2>1
    <3> QED BY <1>2, <2>1, <3>1 DEF Events!InsertClaim, Events!TakeClaim
  <2>2. CASE row # "none" /\ Events!Goto(d, "steal") /\ UNCHANGED <<row, fresh, owner>>
    BY <1>2, <2>2 DEF Events!InsertClaim
  <2> QED BY <1>2, <2>1, <2>2 DEF Events!InsertClaim
<1>3. ASSUME NEW d \in Deliveries, Events!StealClaim(d) PROVE IInv'
  BY <1>3 DEF Events!StealClaim, Events!TakeClaim
<1>4. ASSUME NEW d \in Deliveries, Events!Process(d) PROVE IInv'
  BY <1>4 DEF Events!Process
<1>5. ASSUME NEW d \in Deliveries, Events!Throw(d) PROVE IInv'
  BY <1>5 DEF Events!Throw
<1>6. ASSUME NEW d \in Deliveries, Events!ReleaseClaim(d) \/ Events!CompleteClaim(d) PROVE IInv'
  \* Unless a claim was stolen, the closing delivery owns the row alone.
  <2>1. ~stolen => \A e \in Deliveries \ {d} : eventAt[e] \notin Events!Handling
    BY <1>6 DEF Events!ReleaseClaim, Events!CompleteClaim
  <2>2. CASE Events!ReleaseClaim(d)
    BY <2>1, <2>2 DEF Events!ReleaseClaim, Events!CloseClaim
  <2>3. CASE Events!CompleteClaim(d)
    BY <2>1, <2>3 DEF Events!CompleteClaim, Events!CloseClaim
  <2> QED BY <1>6, <2>2, <2>3
<1>7. ASSUME NEW d \in Deliveries, Events!Die(d) PROVE IInv'
  BY <1>7 DEF Events!Die
<1>8. CASE Events!ClaimGoesStale
  BY <1>8 DEF Events!ClaimGoesStale
<1>9. CASE UNCHANGED Events!vars
  BY <1>9 DEF Events!vars, Events!history
<1> QED BY <1>1, <1>2, <1>3, <1>4, <1>5, <1>6, <1>7, <1>8, <1>9 DEF Events!Next, Events!Run

LEMMA SerialInvImplies == SerialInv => Events!NothingIsSkipped
  BY DEF SerialInv, IInv, AckedOnceHandled, Events!NothingIsSkipped, Events!AckedIsHandled

LEMMA SerialInvInit == Events!Init => SerialInv
  BY IInvInit DEF Events!Init, SerialInv, RunsAlone, MeetsNoLiveClaim, AckedOnceHandled

\* A 200 is the answer to a run that finished, or to a row that is processed.
LEMMA SerialInvNext == SerialInv /\ [Events!Next]_(Events!vars) => SerialInv'
<1> SUFFICES ASSUME SerialInv, [Events!Next]_(Events!vars) PROVE SerialInv'
  OBVIOUS
<1>0. IInv'
  BY IInvNext DEF SerialInv
<1> USE DEF SerialInv, RunsAlone, MeetsNoLiveClaim, AckedOnceHandled, Events!Goto, Events!Answer200,
            Events!Answer500, Events!history
<1>t. Events!TypeOK /\ CompletingHasHandled /\ Events!ProcessedWasHandled
  BY DEF IInv
<1>1. ASSUME NEW d \in Deliveries, Events!Deliver(d) PROVE SerialInv'
  BY <1>0, <1>1, <1>t DEF Events!Deliver, Events!TypeOK
<1>2. ASSUME NEW d \in Deliveries, Events!InsertClaim(d) PROVE SerialInv'
  BY <1>0, <1>2, <1>t DEF Events!InsertClaim, Events!TakeClaim, Events!TypeOK
<1>3. ASSUME NEW d \in Deliveries, Events!StealClaim(d) PROVE SerialInv'
  BY <1>0, <1>3, <1>t DEF Events!StealClaim, Events!TakeClaim, Events!TypeOK, Events!ProcessedWasHandled
<1>4. ASSUME NEW d \in Deliveries, Events!Process(d) PROVE SerialInv'
  BY <1>0, <1>4, <1>t DEF Events!Process, Events!TypeOK
<1>5. ASSUME NEW d \in Deliveries, Events!Throw(d) PROVE SerialInv'
  BY <1>0, <1>5, <1>t DEF Events!Throw, Events!TypeOK
<1>6. ASSUME NEW d \in Deliveries, Events!ReleaseClaim(d) \/ Events!CompleteClaim(d) PROVE SerialInv'
  \* No other delivery is there to find the row gone.
  BY <1>0, <1>6, <1>t
     DEF Events!ReleaseClaim, Events!CompleteClaim, Events!CloseClaim, Events!TypeOK,
         CompletingHasHandled
<1>7. ASSUME NEW d \in Deliveries, Events!Die(d) PROVE SerialInv'
  BY <1>0, <1>7, <1>t DEF Events!Die, Events!TypeOK
<1>8. CASE Events!ClaimGoesStale
  BY <1>0, <1>8 DEF Events!ClaimGoesStale
<1>9. CASE UNCHANGED Events!vars
  BY <1>0, <1>9 DEF Events!vars
<1> QED BY <1>1, <1>2, <1>3, <1>4, <1>5, <1>6, <1>7, <1>8, <1>9 DEF Events!Next, Events!Run

\* A step of the composition is one of the deliveries or none of theirs.
LEMMA EventSteps == [LiveNext]_liveVars => [Events!Next]_(Events!vars)
BY DEF LiveNext, EventNext, SearchNext, HoldNext, RefundsNext, InEvent, InSearch, InHold, InRefunds,
       liveVars, eventState, Events!vars, Events!history

\* Until a claim is stolen no two deliveries run the handler together, whichever of the
\* requests, crashes and redeliveries of one event overlap.
THEOREM ExclusiveUntilStolen == LiveTogether => []OneHandler
<1>1. LiveInit => IInv
  BY IInvInit DEF LiveInit
<1>2. IInv /\ [LiveNext]_liveVars => IInv'
  BY EventSteps, IInvNext
<1>3. IInv => OneHandler
  BY IInvImplies DEF OneHandler
<1> QED BY <1>1, <1>2, <1>3, PTL DEF LiveTogether

\* Nothing is marked processed that no run has finished; and as long as deliveries come
\* one at a time, nothing is answered 200 either.
THEOREM SkippedMeansHandled == LiveTogether => []NothingIsSkipped
<1>1. LiveInit => SerialInv
  BY SerialInvInit DEF LiveInit
<1>2. SerialInv /\ [LiveNext]_liveVars => SerialInv'
  BY EventSteps, SerialInvNext
<1>3. SerialInv => NothingIsSkipped
  BY SerialInvImplies DEF NothingIsSkipped
<1> QED BY <1>1, <1>2, <1>3, PTL DEF LiveTogether
=============================================================================
