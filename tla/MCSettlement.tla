---------------------------- MODULE MCSettlement ----------------------------
(* Settlement on small instances: one or two running handlers, a cap of two or *)
(* three attempts, and a second transfer only under a key Stripe has forgotten. *)
EXTENDS Settlement, TLC

\* Everything but the operator's bank transfer, of which no code knows whether it
\* was made, and the reversals that have a run of their own.
Releasing == HandlerNames \ {"adminMarkPayoutPaid", "failTransfer"}
Symmetry == Permutations(Tasks)
=============================================================================
