------------------------------- MODULE MCTrade -------------------------------
(* The money of an order's price and the queue of its prices, in a run that is   *)
(* of the one or of the other: what must happen in the end, whatever the        *)
(* customers and inspectors do.  The component that is not on stays in its       *)
(* initial state, where nothing it must do is enabled.                          *)
EXTENDS CounterHandover

CONSTANTS Inspectors, NoOne, Overlaps, QueueHandlers

VARIABLES which, order, search, offer, busy, pc, job

Queue == INSTANCE CounterOffers WITH Handlers <- QueueHandlers

queueState == <<order, search, offer, busy, pc, job>>
tradeVars == <<which, vars, queueState>>

\* An action of the one, the other standing still.
InMoney(A) == which = "money" /\ A /\ UNCHANGED <<which, queueState>>
InQueue(A) == which = "queue" /\ A /\ UNCHANGED <<which, vars>>

MoneyNext == which = "money" /\ Next /\ UNCHANGED <<which, queueState>>
QueueNext == which = "queue" /\ Queue!Next /\ UNCHANGED <<which, vars>>
TradeNext == MoneyNext \/ QueueNext

\* The fairness of both, a condition of the one paired with one of the other:
\* which never changes, so each pair says of a behaviour what its half says.
Run(t) == InQueue(Queue!Continue(t)) \/ InMoney(Continue(t))
Sweep(t) == InQueue(Queue!SweepExpired(t)) \/ InMoney(SweepExpired(t))
Lapse == InQueue(Queue!PaymentLapses) \/ InMoney(PaymentLapses)

TradeFairness ==
  /\ \A t \in Tasks :
       /\ WF_tradeVars(Run(t)) /\ SF_tradeVars(Sweep(t))
       /\ SF_tradeVars(InMoney(Webhooks(t)))
       /\ SF_tradeVars(InMoney(ExpireUnfilledSearches(t)))
       /\ SF_tradeVars(InMoney(Stranded(t)))
       /\ SF_tradeVars(InMoney(Reconcile(t)))
       /\ SF_tradeVars(InMoney(HoldIsLetGo(t)))
       /\ SF_tradeVars(InMoney(ReleaseGoesThrough(t)))
  /\ WF_tradeVars(Lapse)
  /\ WF_tradeVars(InQueue(Queue!OfferLapses)) /\ WF_tradeVars(InQueue(Queue!CollectionEnds))

TradeInit == which \in {"money", "queue"} /\ Init /\ Queue!Init

TradeSpec == TradeInit /\ [][TradeNext]_tradeVars /\ TradeFairness

\* Neither a waiting price nor the customer before a dead one is left standing.
QueueMovesOn == Queue!QueueIsServed /\ Queue!ScreenIsCleared
=============================================================================
