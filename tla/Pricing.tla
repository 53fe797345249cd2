-------------------------------- MODULE Pricing --------------------------------
(* What one order costs, from the quote to the capture: the tariff of the country it *)
(* lies in, the cheapest of the inspectors in reach, the price each of them is asked  *)
(* at, the price one of them names instead, and what the card is charged.  An operator *)
(* may change the settings, and an inspector their base fee, between any two of these. *)
(*                                                                                    *)
(* Money is in cents and distance in hundredths of a kilometre, unless a comment says   *)
(* otherwise; factors are in tenths.  Math.round is exact here, where the code rounds   *)
(* the binary fraction nearest to the same number: the two differ at ties alone.        *)
EXTENDS Integers, Sequences, TLC

CONSTANTS
  Settings,   \* what the settings may be: [global, zone, country: tariffs, cap]
  Lines,      \* the straight lines to the inspectors in reach, the nearest first
  Bases,      \* the base fees they may state; 0 is none
  Routes,     \* what the routing may answer for the nearest: <<distance, minutes>>
  Detour,     \* orderDetourFactor, in tenths
  Multiplier  \* counterOfferMaxMultiplier, in tenths

VARIABLES
  settings, \* the settings in force
  stated,   \* the base fee that each inspector states
  edited,   \* whether any of the two has been changed since the order was priced
  fare,     \* the money columns and the trip columns of the order's row
  held,     \* what the card is authorised for
  offer,    \* the pool's offer to one of the inspectors
  ask       \* the price that one of them has named

pricingVars == <<settings, stated, edited, fare, held, offer, ask>>

Candidates == 1..Len(Lines)
None == [who |-> 0]
Silent == -1
Overridable == {"base", "perKm", "perMin", "minimum", "factor", "cap"}

\* Math.round of n/d.
Rounded(n, d) == (2 * n + d) \div (2 * d)
Larger(a, b) == IF a > b THEN a ELSE b
Smaller(a, b) == IF a < b THEN a ELSE b

\* The country's word, or else that of its band, or else the global setting.
Resolve(s) ==
  [f \in DOMAIN s.global |->
     IF f \in Overridable /\ s.country[f] # Silent THEN s.country[f]
     ELSE IF f \in Overridable /\ s.zone[f] # Silent THEN s.zone[f]
     ELSE s.global[f]]

\* A cap refuses only when somebody has set one.
ExceedsCap(distance, cap) == cap > 0 /\ distance > cap

\* The base fee to price an inspector with: their own, inside the bounds, or the platform's.
EffectiveBase(base, platform) ==
  IF base = 0 THEN platform ELSE Smaller(50000, Larger(500, base))

ComputePrice(trip, tariff) ==
  LET factor == Larger(10, tariff.factor)
      chargeable == Rounded(trip.distance, 10)               \* tenths of a kilometre
      billed == Rounded(chargeable * factor, 10)
      minutes == Rounded(trip.minutes * factor, 10)
      subtotal == tariff.base + Rounded(billed * tariff.perKm, 10) + minutes * tariff.perMin
      share == Larger(Rounded(subtotal * tariff.surge, 10), tariff.minimum)
      fee == Rounded(share * tariff.pct, 100)
  IN [total |-> share + fee, fee |-> fee, share |-> share,
      base |-> tariff.base, billed |-> billed, factor |-> factor, minutes |-> minutes]

\* What a reading of the row would be that forgets the way back.
StoredTripBothWays(row) == [distance |-> 10 * row.billed, minutes |-> row.minutes]

\* The trip that a row was priced on, out of what was billed.
StoredTrip(row) ==
  [distance |-> 10 * Rounded(row.billed * 10, row.factor),
   minutes |-> Rounded(row.minutes * 10, row.factor)]

\* A drive nobody has routed: the straight line with a detour, and minutes in proportion.
ScaledTrip(trip, line) ==
  LET road == (line * Larger(10, Detour)) \div 10
  IN [distance |-> road,
      minutes |-> IF trip.distance > 0 THEN Rounded(trip.minutes * road, trip.distance)
                  ELSE trip.minutes]

TripFor(i, route) == IF Lines[i] <= Lines[1] THEN route ELSE ScaledTrip(route, Lines[i])

TariffFor(i, tariff) == [tariff EXCEPT !.base = EffectiveBase(stated[i], @)]

\* The quotes of those inside the cap, each on their own base fee and their own drive.
QuotesFor(route, tariff) ==
  {ComputePrice(TripFor(i, route), TariffFor(i, tariff)) :
     i \in {j \in Candidates : ~ExceedsCap(TripFor(j, route).distance, tariff.cap)}}

\* What this order costs with an inspector of the pool, on the trip that its row remembers.
OwnPrice(i) == ComputePrice(StoredTrip(fare), TariffFor(i, Resolve(settings)))

\* What it would have cost if this inspector had been the nearest.
FairPrice(i) ==
  ComputePrice(ScaledTrip(StoredTrip(fare), Lines[i]), TariffFor(i, Resolve(settings)))

---------------------------------------------------------------------------
\* The arithmetic of a price that an inspector names.

CeilingOf(i) == Rounded(FairPrice(i).total * Larger(10, Multiplier), 10)
Pct == Resolve(settings).pct

TotalFromPayout(payout) == payout + Rounded(payout * Pct, 100)
PayoutFromTotal(total) == Rounded(total * 100, 100 + Pct)

\* From the rounded inverse downwards until the price fits; two cents are enough.
MaxPayout(ceiling) ==
  LET first == PayoutFromTotal(ceiling)
      fits == {p \in Larger(0, first - 2)..first : TotalFromPayout(p) <= ceiling}
  IN CHOOSE p \in fits : \A q \in fits : q <= p

PriceError(price, ceiling) == price <= 0 \/ price <= fare.total \/ price > ceiling

---------------------------------------------------------------------------
PricingInit ==
  /\ settings \in Settings
  /\ stated \in [Candidates -> Bases]
  /\ edited = FALSE
  /\ fare = None /\ held = 0 /\ offer = None /\ ask = None

Priced == fare # None
Open == Priced /\ fare.who = 0

\* priceQuote and createOrder: refused past the cap of the nearest; else the lowest total.
CreateOrder ==
  /\ ~Priced
  /\ \E r \in Routes :
       LET route == [distance |-> r[1], minutes |-> r[2]]
           tariff == Resolve(settings)
           quotes == QuotesFor(route, tariff)
           lowest == CHOOSE q \in quotes : \A other \in quotes : q.total <= other.total
       IN /\ ~ExceedsCap(route.distance, tariff.cap)
          /\ fare' = [who |-> 0] @@ lowest
          /\ held' = lowest.total
  /\ edited' = FALSE
  /\ UNCHANGED <<settings, stated, offer, ask>>

\* An operator changes the tariff; an inspector states another base fee.  What they change
\* before the order is another initial state, and after it is assigned nothing is priced.
EditSettings ==
  /\ Open
  /\ settings' \in Settings \ {settings}
  /\ edited' = TRUE
  /\ UNCHANGED <<stated, fare, held, offer, ask>>

StateBase ==
  /\ Open
  /\ \E i \in Candidates, b \in Bases :
       stated[i] # b /\ stated' = [stated EXCEPT ![i] = b]
  /\ edited' = TRUE
  /\ UNCHANGED <<settings, fare, held, offer, ask>>

Distance(a, b) == IF a < b THEN b - a ELSE a - b

\* What the offer would be at the inspector's own price, whatever has been authorised.
OfferOwnPrice(i) ==
  LET own == OwnPrice(i)
  IN [who |-> i, price |-> own.total, fee |-> own.fee, share |-> own.share]

\* The price one inspector is asked at: their own, or the authorised one when theirs is more.
OfferPrice(i) ==
  LET own == OwnPrice(i)
      price == IF own.total <= fare.total THEN own ELSE fare
  IN [who |-> i, price |-> price.total, fee |-> price.fee, share |-> price.share]

\* dispatch, of those whom it may still ask: the smallest concession, then the nearest.
DispatchOffer ==
  /\ Open /\ offer = None
  /\ \E asked \in SUBSET Candidates \ {{}} :
       LET concession(i) == Distance(OwnPrice(i).total, fare.total)
           best == CHOOSE i \in asked : \A j \in asked :
                     \/ concession(i) < concession(j)
                     \/ concession(i) = concession(j) /\ i <= j
       IN offer' = OfferPrice(best)
  /\ UNCHANGED <<settings, stated, edited, fare, held, ask>>

\* The offer is declined or lapses.
OfferGoes == offer # None /\ Open /\ offer' = None
             /\ UNCHANGED <<settings, stated, edited, fare, held, ask>>

\* What acceptOffer would be if it lowered the total and left the split.
AcceptLeavesSplit ==
  /\ Open /\ offer # None
  /\ fare' = [fare EXCEPT !.who = offer.who, !.total = Smaller(offer.price, @)]
  /\ UNCHANGED <<settings, stated, edited, held, offer, ask>>

\* acceptOffer: the card is charged the offer's price, and the row says so.
AcceptOffer ==
  /\ Open /\ offer # None
  /\ LET charge == Smaller(offer.price, fare.total)
     IN fare' = [fare EXCEPT !.who = offer.who, !.total = charge,
                   !.fee = IF charge # fare.total THEN offer.fee ELSE @,
                   !.share = IF charge # fare.total THEN offer.share ELSE @]
  /\ UNCHANGED <<settings, stated, edited, held, offer, ask>>

\* An inspector names what they want to be paid: the most they are told, a cent more,
\* what the order pays, or a cent more than that.
NamePrice ==
  /\ Open
  /\ \E i \in Candidates :
       LET ceiling == CeilingOf(i)
           typed == {MaxPayout(ceiling), MaxPayout(ceiling) + 1, fare.share, fare.share + 1}
       IN \E payout \in typed :
            LET price == TotalFromPayout(payout)
            IN /\ ~PriceError(price, ceiling)
               /\ ask' = [who |-> i, price |-> price, fee |-> price - payout,
                          share |-> payout, ceiling |-> ceiling]
  /\ UNCHANGED <<settings, stated, edited, fare, held, offer>>

\* The customer takes that price: the second hold is of it, and so is the row.
AcceptPrice ==
  /\ Open /\ ask # None
  /\ fare' = [fare EXCEPT !.who = ask.who, !.total = ask.price, !.fee = ask.fee,
                          !.share = ask.share]
  /\ held' = ask.price
  /\ UNCHANGED <<settings, stated, edited, offer, ask>>

PricingNext == \/ CreateOrder \/ EditSettings \/ StateBase \/ DispatchOffer \/ OfferGoes
               \/ AcceptOffer \/ NamePrice \/ AcceptPrice

PricingSpec == PricingInit /\ [][PricingNext]_pricingVars

---------------------------------------------------------------------------
PriceBreakdown(r) == r.who \in 0..Len(Lines) /\ (r # None => r.fee \in Nat /\ r.share \in Nat)

TypeOK ==
  /\ settings \in Settings
  /\ stated \in [Candidates -> Bases]
  /\ edited \in BOOLEAN
  /\ held \in Nat
  /\ PriceBreakdown(fare) /\ PriceBreakdown(offer) /\ PriceBreakdown(ask)

\* A quote is a price that somebody takes: as long as nothing has been edited, one of the
\* inspectors in reach, priced anew on the trip that the order's row remembers, costs what
\* the customer has authorised to the cent (tariffForStoredOrder; DEN-358).
QuoteStands ==
  Open /\ ~edited => \E i \in Candidates : OwnPrice(i).total = fare.total

\* Nothing the customer is asked for exceeds what the card is authorised for, and every
\* price is the platform's fee and the inspector's share to the cent, whatever has been
\* edited since (bestPoolCandidate's ceiling; the commission on top, DEN-350).
AddsUp(total, r) == r.fee + r.share = total
WithinTheHold ==
  /\ Priced => fare.total <= held /\ AddsUp(fare.total, fare)
  /\ Open /\ offer # None => offer.price <= held /\ AddsUp(offer.price, offer)
  /\ ask # None => AddsUp(ask.price, ask) /\ ask.price <= ask.ceiling

\* The inspector who takes the job at a price below the authorised one, or at their own, is
\* paid the share they were promised (acceptOffer's last write).  An
\* offer whose total happens to be the authorised one is left to the order's own split.
PromiseKept ==
  /\ Priced /\ fare.who # 0 /\ held # fare.total => fare.share = offer.share
  /\ Open /\ offer # None /\ offer.price = held /\ ~edited => offer.share = fare.share

\* A price is one price, from the quote to the payout.
PricesHold == QuoteStands /\ WithinTheHold /\ PromiseKept
=============================================================================
