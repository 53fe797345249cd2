---------------------------- MODULE OrderStates ----------------------------
(***************************************************************************)
(* The order lifecycle of src/orders/order-state-machine.ts: the statuses,  *)
(* the table of allowed edges, and the groups of statuses that              *)
(* orders.service.ts tests for.  Constant level: every module that moves an *)
(* order shares this one.                                                   *)
(***************************************************************************)

\* enum OrderStatus of prisma/schema.prisma.
Statuses == {"CREATED", "PAID", "UNASSIGNED", "ASSIGNED", "EN_ROUTE",
             "IN_PROGRESS", "SUBMITTED", "APPROVED", "COMPLETED", "DISPUTED",
             "CANCELLED", "REFUNDED"}

\* ORDER_TRANSITIONS: where an order may go from each status.
OrderTransitions ==
  [s \in Statuses |->
     CASE s = "CREATED"     -> {"PAID", "CANCELLED"}
       [] s = "PAID"        -> {"ASSIGNED", "UNASSIGNED", "CANCELLED"}
       [] s = "UNASSIGNED"  -> {"ASSIGNED", "CANCELLED"}
       [] s = "ASSIGNED"    -> {"EN_ROUTE", "CANCELLED"}
       [] s = "EN_ROUTE"    -> {"IN_PROGRESS", "CANCELLED"}
       [] s = "IN_PROGRESS" -> {"SUBMITTED", "DISPUTED", "CANCELLED"}
       [] s = "SUBMITTED"   -> {"APPROVED", "DISPUTED"}
       [] s = "APPROVED"    -> {"COMPLETED"}
       [] s = "DISPUTED"    -> {"REFUNDED", "APPROVED", "COMPLETED"}
       [] s = "CANCELLED"   -> {"REFUNDED"}
       [] OTHER             -> {}]

CanTransition(from, to) == to \in OrderTransitions[from]

\* Still looking for an inspector: acceptOffer, dispatch and the search sweep
\* all test for exactly these two.
Pool == {"PAID", "UNASSIGNED"}

\* The statuses in which the reconciler advances a payment.
PreAssignment == {"CREATED"} \cup Pool

\* `declinable` of declineByInspector, and the statuses a report attaches to.
Declinable == {"ASSIGNED", "EN_ROUTE", "IN_PROGRESS"}
Attachable == {"ASSIGNED", "EN_ROUTE", "IN_PROGRESS"}

\* The statuses sweepAbandonedInspections may claim: IN_PROGRESS is never swept.
Sweepable == {"ASSIGNED", "EN_ROUTE"}

\* An order somebody is working on, or has worked on, for the held money.
Working == {"ASSIGNED", "EN_ROUTE", "IN_PROGRESS", "SUBMITTED"}
=============================================================================
