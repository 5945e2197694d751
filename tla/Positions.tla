------------------------------- MODULE Positions -------------------------------
(***************************************************************************)
(* Devices and positions over HTTP: DevicesService, PositionsService, the   *)
(* client of Traccar's REST interface, and the interceptor that keeps the   *)
(* answers about past positions in Redis for two minutes.                   *)
(*                                                                         *)
(* A request stops at its calls to Redis, to Traccar and, for positions     *)
(* without an address, to Mapbox (GeoCache).  An answer that was not cached *)
(* goes out before it is stored, so that requests overlap there too.  Of a  *)
(* position its device, time, place and address are kept; of a timestamp,   *)
(* how often it has been shifted; of a list, which Traccar gives in the     *)
(* order of time, the set of what is in it.                                 *)
(***************************************************************************)
EXTENDS Integers, FiniteSets

CONSTANTS
    Devices,        \* the devices of Traccar
    Fixes,          \* positions that Traccar may record (a bound)
    Requests,       \* requests under way at a time (a bound)
    Asks,           \* what each of them may ask (a bound)
    Threshold,      \* 0.00001 degrees, in units of the model
    None            \* no device, no entry, no status

Fix == [device : Devices, time : Nat, latitude : Int, longitude : Int, address : BOOLEAN]

(* A question about a device, about a position, or about neither; None stands *)
(* also for an id that nothing has.                                         *)
Ask == [url : {"devices?uniqueId", "devices/id", "devices/id/positions",
               "devices/id/past-positions", "positions?deviceId"},
        of : Devices \cup {None}, from : Nat, to : Nat]
       \cup [url : {"positions/id"}, of : Fixes \cup {None}, from : Nat, to : Nat]
       \cup [url : {"devices", "positions", "positions/latest", "positions/history"},
             of : {None}, from : Nat, to : Nat]

ASSUME PositionsAssumption ==
    /\ Fixes \subseteq Fix /\ IsFiniteSet(Fixes)
    /\ \A f, g \in Fixes : f.time = g.time => f = g
    /\ Asks \in [Requests -> SUBSET Ask]
    /\ Threshold \in Nat \ {0}
    /\ Devices \cap Fixes = {}
    /\ None \notin Devices \cup Fixes \cup [data : SUBSET [fix : Fixes, shifts : Nat], ttl : BOOLEAN]

VARIABLES
    track,      \* the positions Traccar has recorded
    cache,      \* Redis: for each key nothing, or an answer and whether it has a time to live
    requests    \* the requests, each at a call, or answered

vars == <<track, cache, requests>>

(* Only past positions are asked for through the interceptor.               *)
Cacheable(ask) == ask.url = "devices/id/past-positions"

(* Mutant of Key: the query is left out. *)
KeyOfPath(ask) == [ask EXCEPT !.from = 0, !.to = 0]

(* The key names the method, the url, the query, the body and the user: users *)
(* do not share entries, and differ in nothing else here.                    *)
Key(ask) == ask

Keys == {Key(ask) : ask \in {a \in UNION {Asks[r] : r \in Requests} : Cacheable(a)}}

Position == [fix : Fixes, shifts : Nat]
Entry    == [data : SUBSET Position, ttl : BOOLEAN]
Idle     == [step |-> "idle"]

(* A request that waits: for Redis or Traccar; for the addresses that its    *)
(* positions lack; for nothing but to be sent; or, when it has been answered  *)
(* past the cache, to be stored there.  "read" is what Traccar gave, some of  *)
(* which is dropped.                                                        *)
Request == [step : {"cache", "traccar"}, ask : Ask]
           \cup [step : {"addresses"}, ask : Ask, data : SUBSET Position, missing : Nat \ {0}]
           \cup [step : {"answered"}, ask : Ask, status : {200, 404, 500}, data : SUBSET Position]
           \cup [step : {"to store"}, ask : Ask, data : SUBSET Position, read : SUBSET Fixes]

TypeOK ==
    /\ track \subseteq Fixes
    /\ cache \in [Keys -> Entry \cup {None}]
    /\ requests \in [Requests -> Request \cup {Idle}]
    /\ \A r \in Requests :
          /\ requests[r].step # "idle" => requests[r].ask \in Asks[r]
          /\ requests[r].step \in {"cache", "to store"} => Cacheable(requests[r].ask)

Init ==
    /\ track = {}
    /\ cache = [k \in Keys |-> None]
    /\ requests = [r \in Requests |-> Idle]

-----------------------------------------------------------------------------
(* What the services make of Traccar's positions. *)

(* normalizePositionTimestamps: a copy, its three times three hours later.   *)
NormalizePositionTimestamps(position) == [position EXCEPT !.shifts = @ + 1]

Normalized(fixes) ==
    {NormalizePositionTimestamps([fix |-> f, shifts |-> 0]) : f \in fixes}

AbsDiff(a, b) == IF a < b THEN b - a ELSE a - b
AreAround(f, g) == /\ AbsDiff(f.latitude, g.latitude) < Threshold
                   /\ AbsDiff(f.longitude, g.longitude) < Threshold

Earlier(data, p) == {q \in data : q.fix.time < p.fix.time}

(* Mutants of Apart: compared with the position just before only; and        *)
(* dropped for one that comes later, too.                                   *)
ApartFromLast(data) ==
    {p \in data : \A q \in Earlier(data, p) :
        AreAround(q.fix, p.fix) => \E x \in Earlier(data, p) : x.fix.time > q.fix.time}
ApartFromAll(data) ==
    {p \in data : \A q \in data \ {p} : ~ AreAround(q.fix, p.fix)}

(* The filter of getPositionsInTimeRange: the first position around a place  *)
(* stays.  It is looked for among all, not among those that stay.           *)
Apart(data) == {p \in data : \A q \in Earlier(data, p) : ~ AreAround(q.fix, p.fix)}

-----------------------------------------------------------------------------
(* Traccar, as the client asks it. *)

(* Which positions a question is about.                                     *)
Asked(ask) ==
    CASE ask.url \in {"devices/id/positions", "positions?deviceId"} -> {f \in track : f.device = ask.of}
      [] Cacheable(ask) -> {f \in track : f.device = ask.of /\ f.time \in ask.from..ask.to}
      [] ask.url = "positions/id" -> track \cap {ask.of}
      [] ask.url = "positions" -> track
      [] OTHER -> {}

(* The routes of latest and history come after that of an id, which takes    *)
(* their requests and asks for a position with no number.                   *)
Handler(url) == IF url \in {"positions/latest", "positions/history"} THEN "positions/id" ELSE url

IsThere(ask) ==
    CASE ask.url \in {"devices/id", "devices?uniqueId"} -> ask.of \in Devices
      [] Handler(ask.url) = "positions/id" -> Asked(ask) # {}
      [] OTHER -> TRUE

(* Traccar records a position, in whatever order devices report them.       *)
TraccarRecords(f) ==
    /\ f \notin track
    /\ track' = track \cup {f}
    /\ UNCHANGED <<cache, requests>>

-----------------------------------------------------------------------------
(* Requests. *)

At(r, step) == requests[r].step = step

GoOn(r, request) == requests' = [requests EXCEPT ![r] = request]

Answered(r, status, data) ==
    GoOn(r, [step |-> "answered", ask |-> requests[r].ask, status |-> status, data |-> data])

Send(r, ask) ==
    /\ At(r, "idle")
    /\ GoOn(r, [step |-> IF Cacheable(ask) THEN "cache" ELSE "traccar", ask |-> ask])
    /\ UNCHANGED <<track, cache>>

(* Mutant of ReadCache: what was cached is normalized on its way out. *)
ReadCacheNormalized(r) ==
    LET k == Key(requests[r].ask) IN
    /\ At(r, "cache")
    /\ IF cache[k] # None
       THEN Answered(r, 200, {NormalizePositionTimestamps(p) : p \in cache[k].data})
       ELSE GoOn(r, [step |-> "traccar", ask |-> requests[r].ask])
    /\ UNCHANGED <<track, cache>>

ReadCache(r) ==
    LET k == Key(requests[r].ask) IN
    /\ At(r, "cache")
    /\ IF cache[k] # None
       THEN Answered(r, 200, cache[k].data)
       ELSE GoOn(r, [step |-> "traccar", ask |-> requests[r].ask])
    /\ UNCHANGED <<track, cache>>

(* An error of Redis counts as a miss; an answer that cannot be stored is     *)
(* not stored.                                                              *)
RedisFails(r) ==
    /\ \/ At(r, "cache") /\ GoOn(r, [step |-> "traccar", ask |-> requests[r].ask])
       \/ At(r, "to store") /\ GoOn(r, Idle)
    /\ UNCHANGED <<track, cache>>

(* Traccar's answer, and what the service makes of it before the next call.   *)
TraccarAnswers(r) ==
    LET ask     == requests[r].ask
        data    == Normalized(Asked(ask))
        missing == Cardinality({p \in data : ~ p.fix.address}) IN
    /\ At(r, "traccar")
    /\ IF ~ IsThere(ask) THEN Answered(r, 404, {})
       ELSE IF ask.url = "devices/id/positions" /\ missing > 0
       THEN GoOn(r, [step |-> "addresses", ask |-> ask, data |-> data, missing |-> missing])
       ELSE IF Cacheable(ask) THEN
            GoOn(r, [step |-> "to store", ask |-> ask, data |-> Apart(data), read |-> Asked(ask)])
       ELSE Answered(r, 200, data)
    /\ UNCHANGED <<track, cache>>

(* The client makes every error an HttpException; the interceptor stores      *)
(* none.                                                                    *)
TraccarFails(r) ==
    /\ At(r, "traccar")
    /\ Answered(r, 500, {})
    /\ UNCHANGED <<track, cache>>

(* Mutant of AddressFound: one look-up more than there are addresses missing. *)
AddressFoundOneMore(r) ==
    LET p == requests[r] IN
    /\ At(r, "addresses")
    /\ IF p.missing > 0
       THEN GoOn(r, [p EXCEPT !.missing = @ - 1])
       ELSE Answered(r, 200, p.data)
    /\ UNCHANGED <<track, cache>>

AddressFound(r) ==
    LET p == requests[r] IN
    /\ At(r, "addresses")
    /\ IF p.missing > 1
       THEN GoOn(r, [p EXCEPT !.missing = @ - 1])
       ELSE Answered(r, 200, p.data)
    /\ UNCHANGED <<track, cache>>

(* One place that Mapbox has no address for, and there are no positions.      *)
AddressFails(r) ==
    /\ At(r, "addresses")
    /\ \E status \in {404, 500} : Answered(r, status, {})
    /\ UNCHANGED <<track, cache>>

(* Mutant of Store: without a time to live. *)
StoreForGood(r) ==
    /\ At(r, "to store")
    /\ cache' = [cache EXCEPT ![Key(requests[r].ask)] = [data |-> requests[r].data, ttl |-> FALSE]]
    /\ GoOn(r, Idle)
    /\ UNCHANGED track

(* RedisCacheTTL(120).  Also an empty list is stored.                        *)
Store(r) ==
    /\ At(r, "to store")
    /\ cache' = [cache EXCEPT ![Key(requests[r].ask)] = [data |-> requests[r].data, ttl |-> TRUE]]
    /\ GoOn(r, Idle)
    /\ UNCHANGED track

(* Nothing is left to do but to send the answer.                             *)
Close(r) ==
    /\ At(r, "answered")
    /\ GoOn(r, Idle)
    /\ UNCHANGED <<track, cache>>

Expire(k) ==
    /\ cache[k] # None /\ cache[k].ttl
    /\ cache' = [cache EXCEPT ![k] = None]
    /\ UNCHANGED <<track, requests>>

Continue(r) ==
    \/ ReadCache(r) \/ RedisFails(r) \/ TraccarAnswers(r) \/ TraccarFails(r)
    \/ AddressFound(r) \/ AddressFails(r) \/ Store(r) \/ Close(r)

Next ==
    \/ \E r \in Requests : Continue(r) \/ \E ask \in Asks[r] : Send(r, ask)
    \/ \E k \in Keys : Expire(k)
    \/ \E f \in Fixes : TraccarRecords(f)

(* Calls come back, and Redis drops what has expired.                        *)
GoesOn(r)   == WF_vars(Continue(r))
GoesAway(k) == WF_vars(Expire(k))

Fairness == (\A r \in Requests : GoesOn(r)) /\ (\A k \in Keys : GoesAway(k))

Spec == Init /\ [][Next]_vars /\ Fairness

-----------------------------------------------------------------------------
(* Properties. *)

Out(r) == At(r, "to store") \/ (At(r, "answered") /\ requests[r].status = 200)

(* On every path to a client, through the cache or not, a position's times   *)
(* are shifted once: normalizing makes a copy each time it is called, and    *)
(* nothing tells a time that was shifted from one that was not (utils.ts).   *)
ShiftedOnce ==
    \A r \in Requests : Out(r) => \A p \in requests[r].data : p.shifts = 1

(* Past positions are pairwise apart, also those that an answer of another   *)
(* request left in the cache: "filter out locations that are around the same *)
(* location" (devices.service.ts, line 89).                                 *)
PastPairwiseApart ==
    \A r \in Requests : Out(r) /\ Cacheable(requests[r].ask) =>
        \A p, q \in requests[r].data : p # q => ~ AreAround(p.fix, q.fix)

(* The filter takes no stretch of the way out altogether: of any positions    *)
(* of Traccar's answer that no others are around, one stays.  (One may stay  *)
(* for a long way: of a slow drive, each step within the threshold, only the *)
(* start does.)                                                             *)
NoStretchVanishes ==
    \A r \in Requests : At(r, "to store") =>
        \A S \in SUBSET requests[r].read :
            S # {} /\ (\A f \in S, g \in requests[r].read \ S : ~ AreAround(f, g))
            => \E p \in requests[r].data : p.fix \in S

(* What is answered belongs to what was asked, cached or not: no other       *)
(* device's positions, and none outside of the range (getCacheKey).          *)
AnswersFit ==
    \A r \in Requests : Out(r) =>
        LET ask == requests[r].ask IN
        \A p \in requests[r].data :
            /\ ask.of \in Devices => p.fix.device = ask.of
            /\ ask.of \in Fixes => p.fix = ask.of
            /\ Cacheable(ask) => p.fix.time \in ask.from..ask.to

(* When Traccar records nothing more, the cache comes to hold only what it    *)
(* would answer now, and holds no other from then on: no order in which      *)
(* overlapping requests store what they read keeps an old answer alive.      *)
StaleDataGoes ==
    <>[](\A k \in Keys : cache[k] # None => cache[k].data = Apart(Normalized(Asked(k))))
=============================================================================
