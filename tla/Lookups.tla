-------------------------------- MODULE Lookups --------------------------------
(* What the backend looks up and keeps for a while: the route to an inspector and   *)
(* the country of an address (Mapbox, kept in Redis or in the process), the data of a *)
(* VIN (NHTSA, kept in a table), and a platform setting (its own table, kept by each   *)
(* process for thirty seconds).  A behaviour is of one of them: they share nothing.   *)
(*                                                                                  *)
(* A task is one lookup or one edit; an action runs from an await to the next, since   *)
(* what a process does between two of them no other request of it can interrupt.      *)
EXTENDS Integers, Sequences, FiniteSets, TLC

CONSTANTS
  Tasks, Servers,
  Points,   \* places, [cell, land]: the keys of both caches round to the cell
  Typed,    \* the numbers that are typed in, [vin, small]
  RouteTtl,     \* how long a route is kept
  SettingsTtl,  \* how long a process keeps the settings
  MaxTime, MaxEdits

VARIABLES
  topic,     \* what this behaviour is of
  wired,     \* [mapbox, redis]: whether there is a token, and a Redis
  cache,     \* Redis, or else the map of one process: [key, val, until]
  vinCache,  \* VinCache: [vin, data]
  key, row,  \* a setting, and what its row has held: [val, at], the last one now
  held,      \* SettingsService.cache of each process: a version of the row, and until when
  sure,      \* history: a version that each process is not to fall behind
  said,      \* history: the last answer
  time, pc, job

settingsState == <<key, row, held, sure>>
vars == <<topic, wired, cache, vinCache, settingsState, said, time, pc, job>>

DEFAULT_COUNTRY_CODE == "DE"

\* Two settings: one of which 0 is a lever, and one of which it would stop the dispatch.
PLATFORM_SETTING_DEFAULTS == [orderCapKm |-> 300, offerTimeoutMinutes |-> 60]
SETTING_LIMITS == [orderCapKm |-> [min |-> 0, max |-> 1000],
                   offerTimeoutMinutes |-> [min |-> 5, max |-> 1440]]
SETTING_KEYS == DOMAIN PLATFORM_SETTING_DEFAULTS
Numbers == {0, 60, 3900}
Missing == -1

SettingValueError(k, value) ==
  value < SETTING_LIMITS[k].min \/ value > SETTING_LIMITS[k].max

Nobody == [op |-> "none"]
NotHeld == [ver |-> 0, until |-> 0]
Nothing == [source |-> "none"]

Init ==
  /\ topic \in {"route", "country", "vin", "setting"}
  /\ IF topic \in {"route", "country"} THEN wired \in [mapbox : BOOLEAN, redis : BOOLEAN]
                                       ELSE wired = [mapbox |-> FALSE, redis |-> FALSE]
  /\ cache = {} /\ vinCache = {}
  /\ key \in SETTING_KEYS /\ (topic # "setting" => key = "orderCapKm")
  /\ row = <<[val |-> Missing, at |-> 0]>>
  /\ held = [s \in Servers |-> NotHeld]
  /\ sure = [s \in Servers |-> 1]
  /\ said = Nothing
  /\ time = 0
  /\ pc = [t \in Tasks |-> "idle"] /\ job = [t \in Tasks |-> Nobody]

Begin(t, label, its) ==
  /\ pc[t] = "idle"
  /\ pc' = [pc EXCEPT ![t] = label] /\ job' = [job EXCEPT ![t] = its]
  /\ said' = Nothing
Go(t, label, its) ==
  pc' = [pc EXCEPT ![t] = label] /\ job' = [job EXCEPT ![t] = its] /\ said' = Nothing
Answer(t, answer) ==
  /\ said' = answer
  /\ pc' = [pc EXCEPT ![t] = "idle"] /\ job' = [job EXCEPT ![t] = Nobody]

---------------------------------------------------------------------------
\* RoutingService and GeocodingService.  A reply of Mapbox is told by what was asked, and when.

\* What it would be if a way were as long as the way back.
CacheKeyEitherWay(from, to) == {from.cell, to.cell}

\* The way from one cell to another is not the way back; a country is of one cell.
CacheKey(from, to) ==
  IF topic = "route" THEN <<from.cell, to.cell>> ELSE <<from.cell>>

\* As long as a setting says for a route, thirty days for a country.
KeptFor == IF topic = "route" THEN RouteTtl ELSE MaxTime + 1

\* haversineEstimate, or the null that the caller takes for the default country.
Fallback(its) == [source |-> "own", from |-> its.from, to |-> its.to, at |-> time,
                  land |-> DEFAULT_COUNTRY_CODE, quiet |-> its.quiet]
OfMapbox(its, val) ==
  [source |-> "mapbox", from |-> its.from, to |-> its.to, at |-> time, val |-> val,
   land |-> val.from.land]

ReadCache(its) ==
  {e \in cache : e.key = CacheKey(its.from, its.to) /\ time < e.until}

\* estimate, countryCodeFor: without a token there is the fallback; what is kept is the
\* answer; a Redis that does not answer keeps nothing.
Lookup(t) ==
  /\ topic \in {"route", "country"} /\ pc[t] = "idle"
  /\ \E from \in Points, to \in Points, fails \in BOOLEAN :
       LET its == [op |-> topic, from |-> from, to |-> to, at |-> time,
                   quiet |-> wired.mapbox]
       IN /\ topic = "route" => from # to /\ "sea" \notin {from.land, to.land}
          /\ topic = "country" => from = to
          /\ fails => wired.redis
          /\ IF ~wired.mapbox THEN Answer(t, Fallback(its))
             ELSE IF fails \/ ReadCache(its) = {} THEN Begin(t, "fetch", its)
             ELSE \E e \in ReadCache(its) : Answer(t, OfMapbox(its, e.val))
  /\ UNCHANGED <<topic, wired, cache, vinCache, settingsState, time>>

\* No answer in time, a refusal, or one that names no route and no country.
FetchFails(t) ==
  /\ pc[t] = "fetch"
  /\ Answer(t, Fallback([job[t] EXCEPT !.quiet = FALSE]))
  /\ UNCHANGED <<topic, wired, cache, vinCache, settingsState, time>>

\* There is no country at sea.
Fetch(t) ==
  /\ pc[t] = "fetch"
  /\ IF topic = "country" /\ job[t].from.land = "sea" THEN Answer(t, Fallback(job[t]))
     ELSE Go(t, "write", job[t] @@ [val |-> [from |-> job[t].from, to |-> job[t].to, when |-> time]])
  /\ UNCHANGED <<topic, wired, cache, vinCache, settingsState, time>>

\* What it would be without an expiry.
WriteCacheForGood(t) ==
  /\ pc[t] = "write"
  /\ LET its == job[t]
         mine == CacheKey(its.from, its.to)
     IN /\ cache' = {e \in cache : e.key # mine}
                      \cup {[key |-> mine, val |-> its.val, until |-> MaxTime + 1]}
        /\ Answer(t, OfMapbox(its, its.val))
  /\ UNCHANGED <<topic, wired, vinCache, settingsState, time>>

\* writeCache: a Redis that refuses it changes no answer.
WriteCache(t) ==
  /\ pc[t] = "write"
  /\ LET its == job[t]
         mine == CacheKey(its.from, its.to)
     IN /\ \/ cache' = {e \in cache : e.key # mine}
                         \cup {[key |-> mine, val |-> its.val, until |-> time + KeptFor]}
           \/ wired.redis /\ UNCHANGED cache
        /\ Answer(t, OfMapbox(its, its.val))
  /\ UNCHANGED <<topic, wired, vinCache, settingsState, time>>

---------------------------------------------------------------------------
\* VinService: what NHTSA says of a number may be nothing, or differ the next time.
NormalizeVin(typed) == typed.vin
RowsOf(vin) == {r \in vinCache : r.vin = vin}
HasMeaningfulData(data) == "year" \in data

Decode(t) ==
  /\ topic = "vin" /\ pc[t] = "idle"
  /\ \E typed \in Typed :
       LET vin == NormalizeVin(typed)
       IN IF RowsOf(vin) = {} THEN Begin(t, "ask", [op |-> "vin", vin |-> vin, at |-> time])
          ELSE \E r \in RowsOf(vin) :
                 Answer(t, [source |-> "vin", vin |-> vin, data |-> r.data])
  /\ UNCHANGED <<topic, wired, cache, vinCache, settingsState, time>>

\* fetchFromNhtsa: asked once more when it fails, and then an error.
NhtsaFails(t) ==
  /\ pc[t] \in {"ask", "askAgain"}
  /\ IF pc[t] = "ask" THEN Go(t, "askAgain", job[t])
     ELSE Answer(t, [source |-> "error", vin |-> job[t].vin])
  /\ UNCHANGED <<topic, wired, cache, vinCache, settingsState, time>>

NhtsaSays(t) ==
  /\ pc[t] \in {"ask", "askAgain"}
  /\ \E data \in SUBSET {"year", "plant"} :
       IF HasMeaningfulData(data) THEN Go(t, "create", job[t] @@ [data |-> data])
       ELSE Answer(t, [source |-> "unknown", vin |-> job[t].vin])
  /\ UNCHANGED <<topic, wired, cache, vinCache, settingsState, time>>

\* What it would be if a number could have two rows.
CreateVinAgain(t) ==
  /\ pc[t] = "create"
  /\ LET its == [vin |-> job[t].vin, data |-> job[t].data]
     IN vinCache' = vinCache \cup {its} /\ Answer(t, [source |-> "vin"] @@ its)
  /\ UNCHANGED <<topic, wired, cache, settingsState, time>>

\* vinCache.create: a second row of one number is refused, and so is the request.
CreateVin(t) ==
  /\ pc[t] = "create"
  /\ LET its == [vin |-> job[t].vin, data |-> job[t].data]
     IN IF RowsOf(its.vin) = {}
        THEN vinCache' = vinCache \cup {its} /\ Answer(t, [source |-> "vin"] @@ its)
        ELSE UNCHANGED vinCache /\ Answer(t, [source |-> "conflict", vin |-> its.vin])
  /\ UNCHANGED <<topic, wired, cache, settingsState, time>>

---------------------------------------------------------------------------
\* SettingsService, and the admin's PATCH of one setting.
Current == Len(row)
Fresh(s) == time < held[s].until

\* A row that is missing has its default.
GetNumber(ver) ==
  IF row[ver].val = Missing THEN PLATFORM_SETTING_DEFAULTS[key] ELSE row[ver].val
Read(its, ver) == [source |-> "setting", value |-> GetNumber(ver), ver |-> ver,
                   least |-> its.least, at |-> time]

\* load: what is kept is used; otherwise the table is read, and kept when the rows arrive.
GetSetting(t) ==
  /\ topic = "setting" /\ pc[t] = "idle"
  /\ \E s \in Servers :
       LET its == [op |-> "get", server |-> s, at |-> time, least |-> sure[s]]
       IN IF Fresh(s) THEN Answer(t, Read(its, held[s].ver)) ELSE Begin(t, "load", its)
  /\ UNCHANGED <<topic, wired, cache, vinCache, settingsState, time>>

FindMany(t) ==
  /\ pc[t] = "load"
  /\ Go(t, "rows", job[t] @@ [ver |-> Current])
  /\ UNCHANGED <<topic, wired, cache, vinCache, settingsState, time>>

LoadEnds(t) ==
  /\ pc[t] = "rows"
  /\ held' = [held EXCEPT ![job[t].server] = [ver |-> job[t].ver, until |-> time + SettingsTtl]]
  /\ IF job[t].op = "get" THEN Answer(t, Read(job[t], job[t].ver)) ELSE Go(t, "upsert", job[t])
  /\ UNCHANGED <<topic, wired, cache, vinCache, key, row, sure, time>>

\* update: out of its range a number is refused; the value before it is read as any other.
UpdateSetting(t) ==
  /\ topic = "setting" /\ pc[t] = "idle" /\ Current <= MaxEdits
  /\ \E s \in Servers, value \in Numbers :
       /\ ~SettingValueError(key, value)
       /\ Begin(t, IF Fresh(s) THEN "upsert" ELSE "load",
                [op |-> "set", server |-> s, at |-> time, value |-> value])
  /\ UNCHANGED <<topic, wired, cache, vinCache, settingsState, time>>

Upsert(t) ==
  /\ pc[t] = "upsert"
  /\ row' = Append(row, [val |-> job[t].value, at |-> time])
  /\ Go(t, "drop", job[t] @@ [wrote |-> Current + 1])
  /\ UNCHANGED <<topic, wired, cache, vinCache, key, held, sure, time>>

\* Rows that were read before the edit and are still under way will be kept after it: of
\* those, the code promises nothing.
Overtaken(s, ver) ==
  \E t \in Tasks : pc[t] = "rows" /\ job[t].server = s /\ job[t].ver < ver

\* What it would be if an edit left the cache to expire.
InvalidateNothing(t) ==
  /\ pc[t] = "drop"
  /\ LET s == job[t].server
     IN sure' = [sure EXCEPT ![s] =
                   IF Overtaken(s, job[t].wrote) \/ job[t].wrote < @ THEN @ ELSE job[t].wrote]
  /\ pc' = [pc EXCEPT ![t] = "idle"] /\ job' = [job EXCEPT ![t] = Nobody] /\ said' = Nothing
  /\ UNCHANGED <<topic, wired, cache, vinCache, key, row, held, time>>

\* invalidate, after the row is written: the next read of this process loads again.
Invalidate(t) ==
  /\ pc[t] = "drop"
  /\ LET s == job[t].server
     IN /\ held' = [held EXCEPT ![s] = NotHeld]
        /\ sure' = [sure EXCEPT ![s] =
                      IF Overtaken(s, job[t].wrote) \/ job[t].wrote < @ THEN @ ELSE job[t].wrote]
  /\ pc' = [pc EXCEPT ![t] = "idle"] /\ job' = [job EXCEPT ![t] = Nobody]
  /\ said' = Nothing
  /\ UNCHANGED <<topic, wired, cache, vinCache, key, row, time>>

---------------------------------------------------------------------------
\* A call takes less than the time between two ticks.  What is kept for no longer goes.
Tick ==
  /\ time < MaxTime
  /\ \A t \in Tasks : pc[t] # "idle" => job[t].at = time
  /\ time' = time + 1 /\ said' = Nothing
  /\ cache' = {e \in cache : time' < e.until}
  /\ held' = [s \in Servers |-> IF time' < held[s].until THEN held[s] ELSE NotHeld]
  /\ UNCHANGED <<topic, wired, vinCache, key, row, sure, pc, job>>

\* A process that is started anew has kept nothing of its own; its requests are gone.
RestartLookups ==
  /\ topic \in {"route", "country"} /\ ~wired.redis
  /\ \A t \in Tasks : pc[t] = "idle"
  /\ cache # {} /\ cache' = {} /\ said' = Nothing
  /\ UNCHANGED <<topic, wired, vinCache, settingsState, time, pc, job>>

RestartSettings(s) ==
  /\ topic = "setting"
  /\ \A t \in Tasks : pc[t] # "idle" => job[t].server # s
  /\ held' = [held EXCEPT ![s] = NotHeld] /\ said' = Nothing
  /\ UNCHANGED <<topic, wired, cache, vinCache, key, row, sure, time, pc, job>>

Next ==
  \/ \E t \in Tasks :
       \/ Lookup(t) \/ FetchFails(t) \/ Fetch(t) \/ WriteCache(t)
       \/ Decode(t) \/ NhtsaFails(t) \/ NhtsaSays(t) \/ CreateVin(t)
       \/ GetSetting(t) \/ FindMany(t) \/ LoadEnds(t)
       \/ UpdateSetting(t) \/ Upsert(t) \/ Invalidate(t)
  \/ Tick \/ RestartLookups \/ \E s \in Servers : RestartSettings(s)

Spec == Init /\ [][Next]_vars

---------------------------------------------------------------------------
TypeOK ==
  /\ wired \in [mapbox : BOOLEAN, redis : BOOLEAN]
  /\ \A e \in cache : e.val.from \in Points /\ e.until \in Nat
  /\ \A r \in vinCache : r.data \subseteq {"year", "plant"}
  /\ key \in SETTING_KEYS /\ row \in Seq([val : Int, at : 0 .. MaxTime])
  /\ held \in [Servers -> [ver : 0 .. Current, until : Nat]]
  /\ sure \in [Servers -> 1 .. Current]
  /\ time \in 0 .. MaxTime /\ DOMAIN job = Tasks
  /\ pc \in [Tasks -> {"idle", "fetch", "write", "ask", "askAgain", "create", "load", "rows",
                       "upsert", "drop"}]

\* A number that is said to be Mapbox's is what Mapbox said of these two cells in this order,
\* and a route is not older than it may be kept; an estimate of ours is never kept, and an
\* address is in another country than its cell only when nobody knew (estimate's `source`,
\* which the customer is shown; countryCodeFor, by which the tariff is chosen).
PlacesHold ==
  said.source \in {"mapbox", "own"} =>
    LET a == said
        lands == {p.land : p \in {q \in Points : q.cell = a.from.cell}} \ {"sea"}
    IN /\ a.source = "mapbox" =>
            /\ a.val.from.cell = a.from.cell /\ a.val.to.cell = a.to.cell
            /\ topic = "route" => a.at <= a.val.when + RouteTtl
       /\ topic = "country" /\ a.source = "mapbox" => a.land \in lands
       /\ topic = "country" /\ a.source = "own" /\ a.quiet => a.from.land = "sea"

\* A number has one row, with something in it, and whoever was shown its data was shown that
\* of the row; a request that was refused for the row of another finds it there.
VinsHold ==
  /\ \A r \in vinCache : RowsOf(r.vin) = {r} /\ HasMeaningfulData(r.data)
  /\ said.source = "vin" => [vin |-> said.vin, data |-> said.data] \in vinCache
  /\ said.source = "conflict" => RowsOf(said.vin) # {}

\* A setting in use is within its range, was replaced no longer ago than a process may keep
\* it, and is none older than what this process has set itself, unless rows were under way.
SettingsHold ==
  said.source = "setting" =>
    /\ ~SettingValueError(key, said.value)
    /\ said.ver = Current \/ said.at <= row[said.ver + 1].at + SettingsTtl
    /\ said.ver >= said.least
=============================================================================
