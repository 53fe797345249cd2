---------------------------- MODULE WebhookClaim ----------------------------
(***************************************************************************)
(* One Stripe event and the deliveries of it that reach handleWebhook of    *)
(* payments.service.ts.  The row of stripe_webhook_event is the lock, the    *)
(* dedupe record and the recovery point at once: inserted as a claim before *)
(* the handler runs, marked processed after it, deleted when it throws, and *)
(* stolen when it is older than five minutes.                               *)
(*                                                                          *)
(* Abstracted: what the handler does (OrderEscrow models it) is one bit,    *)
(* whether a run of it has ever finished; the claim's age is fresh or not;  *)
(* the signature check is in front of all of this.                          *)
(***************************************************************************)
EXTENDS Naturals, FiniteSets

CONSTANTS
  Deliveries,  \* deliveries of the event that can be in progress together
  Nobody,      \* no delivery has written the row yet
  Faults       \* what may go wrong: "throws", the handler; "dies", the process in a
               \* delivery; "db", the closing write is lost (both are wrapped in .catch)

VARIABLES
  row,      \* the event's row: "none", "claimed" or "processed"
  fresh,    \* claimedAt is younger than WEBHOOK_CLAIM_STALE_MS
  acked,    \* Stripe has had a 200, and will not deliver again
  pc,       \* where each delivery stands
  owner,    \* history: the delivery that wrote the claim last
  stolen,   \* history: some claim was stolen
  overlapped, \* history: a delivery came while another one held or made a claim
  handled   \* history: some run of the handler finished

history == <<owner, stolen, overlapped, handled>>
vars == <<row, fresh, acked, pc, history>>

Init ==
  /\ row = "none" /\ fresh = FALSE /\ acked = FALSE
  /\ pc = [d \in Deliveries |-> "idle"]
  /\ owner = Nobody /\ stolen = FALSE /\ overlapped = FALSE /\ handled = FALSE

TypeOK ==
  /\ row \in {"none", "claimed", "processed"}
  /\ fresh \in BOOLEAN /\ acked \in BOOLEAN
  /\ pc \in [Deliveries -> {"idle", "insert", "steal", "process", "release", "complete"}]
  /\ owner \in Deliveries \cup {Nobody}
  /\ stolen \in BOOLEAN /\ overlapped \in BOOLEAN /\ handled \in BOOLEAN

Goto(d, label) == pc' = [pc EXCEPT ![d] = label]

\* A 2xx tells Stripe the event arrived; anything else makes it deliver again.
Answer200(d) == acked' = TRUE /\ Goto(d, "idle")
Answer500(d) == UNCHANGED acked /\ Goto(d, "idle")

-----------------------------------------------------------------------------
\* Stripe (external): at least once, so deliveries of one event may overlap.
Deliver(d) ==
  /\ ~acked /\ pc[d] = "idle"
  /\ overlapped' = \/ overlapped
                   \/ row = "claimed" /\ fresh
                   \/ \E e \in Deliveries : pc[e] # "idle"
  /\ Goto(d, "insert")
  /\ UNCHANGED <<row, fresh, acked, owner, stolen, handled>>

ClaimGoesStale ==
  /\ row = "claimed" /\ fresh
  /\ fresh' = FALSE
  /\ UNCHANGED <<row, acked, pc, history>>

-----------------------------------------------------------------------------
TakeClaim(d) == row' = "claimed" /\ fresh' = TRUE /\ owner' = d /\ Goto(d, "process")

\* claimWebhookEvent: the INSERT, whose primary key decides the race.
InsertOrTake(d) ==
  /\ pc[d] = "insert"
  /\ TakeClaim(d)
  /\ UNCHANGED <<acked, stolen, overlapped, handled>>

InsertClaim(d) ==
  /\ pc[d] = "insert"
  /\ \/ row = "none" /\ TakeClaim(d)
     \/ row # "none" /\ Goto(d, "steal") /\ UNCHANGED <<row, fresh, owner>>
  /\ UNCHANGED <<acked, stolen, overlapped, handled>>

\* A row exists: taken over if it is a stale claim, else this delivery is done,
\* and answers 200.
StealClaim(d) ==
  /\ pc[d] = "steal"
  /\ \/ /\ row = "claimed" /\ ~fresh
        /\ TakeClaim(d) /\ stolen' = TRUE
        /\ UNCHANGED acked
     \/ /\ ~(row = "claimed" /\ ~fresh)
        /\ Answer200(d)
        /\ UNCHANGED <<row, fresh, owner, stolen>>
  /\ UNCHANGED <<overlapped, handled>>

\* processWebhook returns.
Process(d) ==
  /\ pc[d] = "process"
  /\ handled' = TRUE
  /\ Goto(d, "complete")
  /\ UNCHANGED <<row, fresh, acked, owner, stolen, overlapped>>

ThrowIntoComplete(d) ==
  /\ "throws" \in Faults
  /\ pc[d] = "process"
  /\ Goto(d, "complete")
  /\ UNCHANGED <<row, fresh, acked, history>>

\* processWebhook throws.
Throw(d) ==
  /\ "throws" \in Faults
  /\ pc[d] = "process"
  /\ Goto(d, "release")
  /\ UNCHANGED <<row, fresh, acked, history>>

\* The two closing writes name the event and 'claimed', not whose claim it is.
CloseClaim(to) ==
  \/ row' = IF row = "claimed" THEN to ELSE row
  \/ "db" \in Faults /\ UNCHANGED row

KeepClaim(d) ==
  /\ pc[d] = "release"
  /\ Answer200(d)
  /\ UNCHANGED <<row, fresh, history>>

ReleaseClaim(d) ==
  /\ pc[d] = "release"
  /\ CloseClaim("none") /\ Answer500(d)
  /\ UNCHANGED <<fresh, history>>

CompleteClaim(d) ==
  /\ pc[d] = "complete"
  /\ CloseClaim("processed") /\ Answer200(d)
  /\ UNCHANGED <<fresh, history>>

\* The process dies with the delivery unanswered; the row stays.
Die(d) ==
  /\ "dies" \in Faults
  /\ pc[d] # "idle"
  /\ Answer500(d)
  /\ UNCHANGED <<row, fresh, history>>

Run(d) ==
  InsertClaim(d) \/ StealClaim(d) \/ Process(d) \/ ReleaseClaim(d) \/ CompleteClaim(d)

Next ==
  \/ \E d \in Deliveries : Deliver(d) \/ Run(d) \/ Throw(d) \/ Die(d)
  \/ ClaimGoesStale

Spec == Init /\ [][Next]_vars

-----------------------------------------------------------------------------
Handling == {"process", "release", "complete"}

\* Until a claim has been stolen, at most one delivery is inside the handler,
\* however many arrive together: "two deliveries of the SAME event arriving at
\* once" must not both run it.
OneHandler ==
  ~stolen => \A d, e \in Deliveries : pc[d] \in Handling /\ pc[e] \in Handling => d = e

\* A row is only ever marked processed once a run of the handler has finished,
\* so a redelivery that is skipped as processed skips nothing.
ProcessedWasHandled == row = "processed" => handled

\* As long as deliveries come one at a time, the next after the claim of a dead one
\* has gone stale, Stripe never gets a 200 for an event no run of the handler has
\* finished or is still going to.
AckedIsHandled ==
  acked /\ ~overlapped /\ (\A d \in Deliveries : pc[d] = "idle") => handled

\* No 200 and no processed row stands for an event that nobody handled.
NothingIsSkipped == ProcessedWasHandled /\ AckedIsHandled

\* Stripe delivers until it has a 200, some delivery runs on, claims grow old, and no
\* step that keeps being reached throws or dies there every time.
Close(d) == ReleaseClaim(d) \/ CompleteClaim(d)
Fairness ==
  /\ SF_vars(\E d \in Deliveries : Deliver(d))
  /\ SF_vars(\E d \in Deliveries : InsertClaim(d))
  /\ SF_vars(\E d \in Deliveries : StealClaim(d))
  /\ SF_vars(\E d \in Deliveries : Process(d))
  /\ WF_vars(\E d \in Deliveries : Close(d))
  /\ WF_vars(ClaimGoesStale)

LiveSpec == Spec /\ Fairness

\* No event is wedged by a handler that died or threw: once it has arrived it is
\* handled in the end, unless deliveries overlapped.
EventIsHandled == (\E d \in Deliveries : pc[d] # "idle") ~> (handled \/ overlapped)
=============================================================================
