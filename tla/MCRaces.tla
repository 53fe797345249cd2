------------------------------- MODULE MCRaces -------------------------------
(* The queue of an order's prices and the money of one of them, in a run that is *)
(* of the one or of the other, with two functions at a time.  The component that *)
(* is not on stays in its initial state.                                        *)
EXTENDS CounterOffers, TLC

CONSTANTS Replacements, Prices, Tariff, MoneyHandlers, MoneyFaults

VARIABLES which, sale, ended, screen, pay, intent, events, at, my

Money == INSTANCE CounterHandover WITH
  Handlers <- MoneyHandlers, Faults <- MoneyFaults

ASSUME ReplacementsAssumption == Replacements \subseteq Nat \ {0}
ASSUME MoneyPricesAssumption == Tariff \in Nat /\ Prices \subseteq Nat
ASSUME MoneyFaultsAssumption == MoneyFaults \subseteq Money!FaultKinds

moneyState == <<sale, ended, screen, pay, intent, events, at, my>>
racesVars == <<which, vars, moneyState>>

QueueNext == which = "queue" /\ Next /\ UNCHANGED <<which, moneyState>>
MoneyNext == which = "money" /\ Money!Next /\ UNCHANGED <<which, vars>>
RacesNext == QueueNext \/ MoneyNext

RacesInit == which \in {"queue", "money"} /\ Init /\ Money!Init

RacesSpec == RacesInit /\ [][RacesNext]_racesVars

Symmetry == Permutations(Tasks) \cup Permutations(Inspectors)

\* What the two halves promise.
RacesTypeOK == TypeOK /\ Money!TypeOK
SaleKept == Money!SaleKept
=============================================================================
