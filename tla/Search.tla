-------------------------------- MODULE Search --------------------------------
(***************************************************************************)
(* What the showroom answers: the filters, the order of the cards, the pages   *)
(* they are cut into, the spellings a city is found by, and what a card says    *)
(* of the report behind it.  A reader turns the pages of one search over a      *)
(* table that stands still.                                                  *)
(*                                                                          *)
(* Abstracted: of the filters there is one of a kind - a city, a bound, a flag;  *)
(* a spelling is told by its place and its form, and found as a whole word.     *)
(***************************************************************************)
EXTENDS Integers, Sequences, FiniteSets

CONSTANTS
  Tables,      \* the advert tables searched: functions from ids to rows
  Queries,     \* what is asked of them
  PageSize

VARIABLES
  table, query,
  page,       \* the page that is asked for next
  answered    \* the ids on the pages so far, in order

searchVars == <<table, query, page, answered>>

None == -1     \* a bound that was not given; a column that is NULL.  A city not given: "".
Forms == {"umlaut", "expanded", "english", "cyrillic"}
\* The places of CITY_ALIAS_GROUPS; there is none for the others.
Grouped == {"munchen"}
Keys == {"plain", "expanded", "english", "transliterated"}

-----------------------------------------------------------------------------
\* normalizeSearchText: marks are dropped and the script is made Latin.
Normalize(form) ==
  CASE form = "umlaut" -> "plain" [] form = "expanded" -> "expanded"
    [] form = "english" -> "english" [] OTHER -> "transliterated"

\* citySearchKeys: the fold, the expansion of the umlauts and the reverse, and the other
\* words for the place.
Collapse(key) == IF key = "expanded" THEN "plain" ELSE key
Folded(form) == {Normalize(form), Collapse(Normalize(form))}
                  \cup (IF form = "umlaut" THEN {"expanded"} ELSE {})
AliasesAsWritten(place, key) ==
  IF place \in Grouped /\ key # "transliterated" THEN Keys \ {"transliterated"} ELSE {}
Aliases(place, key) == IF place \in Grouped THEN Keys ELSE {}
CitySearchKeys(city) ==
  LET keys == Folded(city.form) IN keys \cup UNION {Aliases(city.place, k) : k \in keys}

\* Numbers are tested for null, never for truth: a bound of zero is a question.
AskedTruthy(bound) == bound \notin {None, 0}
Given(bound) == bound # None

\* The where of searchListings.  A row that does not say is not among the answers.
Matches(l, q) ==
  /\ l.active
  /\ q.city.place = "" \/ (l.city.place = q.city.place
                         /\ Normalize(l.city.form) \in CitySearchKeys(q.city))
  /\ Given(q.priceTo) => l.price <= q.priceTo
  /\ Given(q.yearFrom) => l.year # None /\ l.year >= q.yearFrom
  /\ q.verifiedOnly => l.source = "report" /\ l.report # "gone"

Found == {i \in DOMAIN table : Matches(table[i], query)}

\* orderFor: gold first in every order, rows that do not say last in either direction, and
\* the id last of all.
Key(i) ==
  LET l == table[i] IN
  CASE query.sort = "price_asc" -> l.price
    [] query.sort = "price_desc" -> 100 - l.price
    [] query.sort = "year_asc" -> IF l.year = None THEN 1000 ELSE l.year
    [] OTHER -> IF l.year = None THEN 1000 ELSE 100 - l.year
Ahead(i, k) == \/ table[i].gold /\ ~table[k].gold
               \/ table[i].gold = table[k].gold /\ Key(i) < Key(k)
Ties(i, k) == table[i].gold = table[k].gold /\ Key(i) = Key(k)
MayPrecedeUntied(i, k) == Ahead(i, k) \/ Ties(i, k)
MayPrecede(i, k) == Ahead(i, k) \/ (Ties(i, k) /\ i < k)

\* The database may answer a page from any order that the ORDER BY allows.
Orders == {f \in [1 .. Cardinality(Found) -> Found] :
             \A a, b \in DOMAIN f : a < b => f[a] # f[b] /\ MayPrecede(f[a], f[b])}
Least(a, b) == IF a < b THEN a ELSE b
Pages == (Cardinality(Found) + PageSize - 1) \div PageSize

-----------------------------------------------------------------------------
\* inspectionOf: the badge of a card.  Erasing a report takes it away at once.
Inspected(l) == l.source = "report" /\ l.report # "gone"
\* reportFull: the gate is a listing on the market, with a report that was not removed.
ReportOpens(l) == l.active /\ l.source = "report" /\ l.report = "kept"

\* ListingQueryDto: a city as it was spelt, a bound of either side, a flag, and an order.
ListingQuery ==
  [city : [place : STRING, form : Forms], priceTo : Int, yearFrom : Int,
   verifiedOnly : BOOLEAN, sort : {"price_asc", "price_desc", "year_asc", "year_desc"}]

Init ==
  /\ table \in Tables /\ query \in Queries
  /\ page = 1 /\ answered = <<>>

SearchListings ==
  /\ page <= Pages
  /\ \E f \in Orders :
       answered' = answered \o SubSeq(f, (page - 1) * PageSize + 1,
                                      Least(page * PageSize, Cardinality(Found)))
  /\ page' = page + 1
  /\ UNCHANGED <<table, query>>

Spec == Init /\ [][SearchListings]_searchVars

TypeOK ==
  /\ table \in Tables /\ query \in ListingQuery
  /\ page \in 1 .. Pages + 1 /\ answered \in Seq(DOMAIN table)

-----------------------------------------------------------------------------
\* Whoever turns the pages to the end has seen every match and none twice, the paid ones
\* first and the ones that do not say last of theirs, in every one of the orders.
PagesAreWhole ==
  /\ \A a, b \in DOMAIN answered : a # b => answered[a] # answered[b]
  /\ page > Pages => {answered[a] : a \in DOMAIN answered} = Found
  /\ \A a, b \in DOMAIN answered : a < b => ~Ahead(answered[b], answered[a])

\* A city in the list is found whichever way the seller and the buyer spell it; the others
\* whether the umlaut is written or expanded.
CityIsFound ==
  query.city.place # "" =>
    \A i \in DOMAIN table : LET l == table[i] IN
      /\ l.active /\ l.city.place = query.city.place
      /\ l.city.place \in Grouped \/ {l.city.form, query.city.form} \subseteq {"umlaut", "expanded"}
      /\ Given(query.priceTo) => l.price <= query.priceTo
      /\ ~Given(query.yearFrom) /\ ~query.verifiedOnly
      => i \in Found

\* A bound that was given holds of every card, the bound of zero too; and who asks for
\* inspected cars is shown those whose card has the badge, and all of them.
AnswerIsAsked ==
  /\ \A i \in Found : /\ query.priceTo # None => table[i].price <= query.priceTo
                      /\ query.verifiedOnly => Inspected(table[i])
  /\ \A i \in Found : ReportOpens(table[i]) => Inspected(table[i])
SearchHolds == PagesAreWhole /\ CityIsFound /\ AnswerIsAsked
=============================================================================
