--------------------------------- MODULE Sale ---------------------------------
(* What the customer of one order is promised, whatever the price, the inspector *)
(* and the way to them: the card is charged once at most and only while the      *)
(* order is being sold, the order is sold for the amount that was charged, and    *)
(* an order that is cancelled was never charged.  CounterHandover implements it. *)
EXTENDS Naturals

CONSTANTS
  Tariff,   \* the price the order was created with
  Holds,    \* the authorizations the card may carry
  Amounts   \* what they may be for

VARIABLES
  state,    \* "open", "sold" or "cancelled"
  charged,  \* the holds that were captured, each with its amount
  total     \* what the order says it is worth

saleVars == <<state, charged, total>>

SaleInit == state = "open" /\ charged = {} /\ total = Tariff

Charge ==
  /\ state = "open" /\ charged = {}
  /\ \E h \in Holds, a \in Amounts : charged' = {[hold |-> h, amount |-> a]}
  /\ UNCHANGED <<state, total>>

\* The order is worth what was charged.
Agree ==
  /\ state = "open"
  /\ \E c \in charged : total' = c.amount
  /\ UNCHANGED <<state, charged>>

Sell ==
  /\ state = "open" /\ \E c \in charged : c.amount = total
  /\ state' = "sold"
  /\ UNCHANGED <<charged, total>>

Cancel ==
  /\ state = "open" /\ charged = {}
  /\ state' = "cancelled"
  /\ UNCHANGED <<charged, total>>

SaleSpec == SaleInit /\ [][Charge \/ Agree \/ Sell \/ Cancel]_saleVars
=============================================================================
