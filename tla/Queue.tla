-------------------------------- MODULE Queue --------------------------------
(***************************************************************************)
(* The order of the prices that wait for one customer, and what each inspector *)
(* is told of it: how many are in front, counted once in the database and once  *)
(* in memory over the rows of a list.                                        *)
(*                                                                          *)
(* The steps are those of CounterOffers, each in one: there the prices have no  *)
(* amounts, here nothing overlaps.                                           *)
(***************************************************************************)
EXTENDS Naturals, FiniteSets

CONSTANTS
  Bidders,    \* inspectors
  Asked,      \* prices they may name
  MaxNamed    \* bound on the prices named

VARIABLES
  priced,   \* the OrderCounterOffer row of each inspector
  named     \* how many were named: the clock of createdAt

queueVars == <<priced, named>>

NoPrice == [st |-> "none", cents |-> 0, nr |-> 0, shown |-> FALSE]
Init == priced = [i \in Bidders |-> NoPrice] /\ named = 0

TypeOK ==
  /\ priced \in [Bidders -> [st : {"none", "PENDING", "ACCEPTING", "DECLINED", "WITHDRAWN"},
                             cents : Asked \cup {0}, nr : 0 .. MaxNamed, shown : BOOLEAN]]
  /\ named \in 0 .. MaxNamed

InPlay(i) == priced[i].st \in {"PENDING", "ACCEPTING"}
Waits(i) == priced[i].st = "PENDING" /\ ~priced[i].shown

\* pendingForCustomer, the card above the list, and currentForCustomer, the panel.
OnCard(i) == priced[i].st = "PENDING" /\ priced[i].shown
OnPanel(i) == InPlay(i) /\ priced[i].shown

\* QUEUE_ORDER: by price, then by age.
Before(i, k) == \/ priced[i].cents < priced[k].cents
                \/ priced[i].cents = priced[k].cents /\ priced[i].nr < priced[k].nr

\* queuePositionOf.
PositionByPrice(i) ==
  IF priced[i].st # "PENDING" THEN 0
  ELSE IF priced[i].shown THEN 1
  ELSE 1 + Cardinality({k \in Bidders \ {i} : InPlay(k) /\ Before(k, i)})
Position(i) ==
  IF priced[i].st # "PENDING" THEN 0
  ELSE IF priced[i].shown THEN 1
  ELSE 1 + Cardinality({k \in Bidders \ {i} : InPlay(k) /\ (priced[k].shown \/ Before(k, i))})

\* listOpenForInspector: of one's own waiting price those in front, of none all of them.
QueuedAhead(i) ==
  LET queue == {k \in Bidders : InPlay(k)}
  IN IF priced[i].st = "PENDING"
     THEN Cardinality({k \in queue \ {i} : priced[k].shown \/ Before(k, i)})
     ELSE Cardinality(queue)

\* A price that is named again, as it may be while it waits, keeps its createdAt; withdrawn
\* ones may be named again.
Name(i) ==
  /\ priced[i].st \in {"none", "PENDING", "WITHDRAWN"}
  /\ named < MaxNamed /\ named' = named + 1
  /\ \E c \in Asked :
       priced' = [priced EXCEPT ![i] = [st |-> "PENDING", cents |-> c, shown |-> FALSE,
         nr |-> IF @.st = "none" THEN named + 1 ELSE @.nr]]

Withdraw(i) ==
  /\ priced[i].st = "PENDING"
  /\ priced' = [priced EXCEPT ![i].st = "WITHDRAWN"]
  /\ UNCHANGED named

Promote ==
  /\ ~\E i \in Bidders : OnPanel(i)
  /\ \E i \in Bidders : /\ Waits(i) /\ \A k \in Bidders \ {i} : Waits(k) => Before(i, k)
                        /\ priced' = [priced EXCEPT ![i].shown = TRUE]
  /\ UNCHANGED named

\* The customer accepts, or declines, or does not pay in the end and is asked again.
AnswerPrice(i) ==
  /\ \/ OnCard(i) /\ \E st \in {"ACCEPTING", "DECLINED"} :
          priced' = [priced EXCEPT ![i].st = st]
     \/ priced[i].st = "ACCEPTING" /\ priced' = [priced EXCEPT ![i].st = "PENDING"]
  /\ UNCHANGED named

Next == Promote \/ \E i \in Bidders : Name(i) \/ Withdraw(i) \/ AnswerPrice(i)

Spec == Init /\ [][Next]_queueVars

-----------------------------------------------------------------------------
\* What an inspector is told of the queue comes true: no two are told the same place, who
\* is said to be next is whom the customer is asked about next, and the list says the same
\* as the answer to a price.
PlacesAreHonest ==
  /\ \A i, k \in Bidders : Position(i) = Position(k) /\ Position(i) # 0 => i = k
  /\ \A i \in Bidders : Waits(i) =>
       /\ (Position(i) = 1 + Cardinality({k \in Bidders : OnPanel(k)})
            <=> \A k \in Bidders \ {i} : Waits(k) => Before(i, k))
       /\ QueuedAhead(i) + 1 = Position(i)
=============================================================================
