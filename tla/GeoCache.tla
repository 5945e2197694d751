------------------------------- MODULE GeoCache -------------------------------
(***************************************************************************)
(* Look-ups of addresses and routes behind a cache:                         *)
(* src/common/services/mapbox.service.ts over redis-cache.service.ts.       *)
(*                                                                         *)
(* A look-up of coordinates tries the key of those coordinates, then the    *)
(* key of any coordinates nearby, then Mapbox, whose answer it stores.      *)
(* Searches for addresses and routes do without the second.  Keys expire    *)
(* between any two calls, and an error of Redis counts as a miss.           *)
(***************************************************************************)
EXTENDS Integers

CONSTANTS
    Places,     \* coordinates that are looked up (a bound)
    Queries,    \* searches for an address or a route, each with its key (a bound)
    Lookups,    \* look-ups that may be in flight together (a bound)
    Threshold,  \* COORDINATE_THRESHOLD, in units of the grid of Places
    None        \* no value

Keys == Places \cup Queries

ASSUME GeoCacheAssumption ==
    /\ Places \subseteq [latitude : Int, longitude : Int]
    /\ Threshold \in Nat
    /\ Places \cap Queries = {}
    /\ None \notin Keys

VARIABLES
    cache,      \* in Redis: of each key, the key whose result it holds
    lookups,    \* look-ups, each at an await
    answered,   \* history: the query answered last and the key whose result it got
    excused     \* history: look-ups for which something near was not cached all the time

vars == <<cache, lookups, answered, excused>>

-----------------------------------------------------------------------------
Abs(n) == IF n < 0 THEN -n ELSE n

AreNearby(p, q) ==
    /\ Abs(p.latitude - q.latitude) <= Threshold
    /\ Abs(p.longitude - q.longitude) <= Threshold

(* The keys whose value may answer a look-up. *)
Answering(k) == IF k \in Places THEN {p \in Places : AreNearby(k, p)} ELSE {k}

Cached(ks) == {k \in ks : cache[k] # None}

Idle == [step |-> "idle"]

(* The call a look-up awaits: get of its own key, keys, get of a key nearby, *)
(* Mapbox, set.                                                             *)
Lookup == [step : {"exact", "mapbox"}, ask : Keys]
          \cup [step : {"keys"}, ask : Places]
          \cup [step : {"nearby"}, ask : Places, key : Places]
          \cup [step : {"store"}, ask : Keys, got : Keys]

TypeOK ==
    /\ cache \in [Keys -> Keys \cup {None}]
    /\ lookups \in [Lookups -> Lookup \cup {Idle}]
    /\ answered \in (Keys \X Keys) \cup {None}
    /\ excused \subseteq Lookups

Init ==
    /\ cache = [k \in Keys |-> None]
    /\ lookups = [l \in Lookups |-> Idle]
    /\ answered = None
    /\ excused = {}

-----------------------------------------------------------------------------
At(l, step) == lookups[l].step = step

GoOn(l, r) == lookups' = [lookups EXCEPT ![l] = r] /\ UNCHANGED answered

End(l, result) ==
    /\ lookups' = [lookups EXCEPT ![l] = Idle]
    /\ answered' = IF result = None THEN answered ELSE <<lookups[l].ask, result>>

AskMapbox(l) == GoOn(l, [step |-> "mapbox", ask |-> lookups[l].ask])

Ask(l, k) ==
    /\ At(l, "idle")
    /\ GoOn(l, [step |-> "exact", ask |-> k])
    /\ excused' = IF Cached(Answering(k)) = {} THEN excused \cup {l} ELSE excused \ {l}
    /\ UNCHANGED cache

(* A miss of the own key: look for others, or go to Mapbox. *)
Missed(l) ==
    IF lookups[l].ask \in Places
    THEN GoOn(l, [step |-> "keys", ask |-> lookups[l].ask])
    ELSE AskMapbox(l)

ReadExact(l) ==
    LET k == lookups[l].ask IN
    /\ At(l, "exact")
    /\ IF cache[k] # None THEN End(l, cache[k]) ELSE Missed(l)
    /\ UNCHANGED <<cache, excused>>

(* Mutant of ListKeys: a key that is not nearby ends the search. *)
ListFirstKey(l) ==
    LET k == lookups[l].ask
        keys == Cached(Places) IN
    /\ At(l, "keys")
    /\ \/ \E p \in keys : IF AreNearby(k, p)
                          THEN GoOn(l, [step |-> "nearby", ask |-> k, key |-> p])
                          ELSE AskMapbox(l)
       \/ keys = {} /\ AskMapbox(l)
    /\ UNCHANGED <<cache, excused>>

(* The first key nearby, in whatever order Redis lists them. *)
ListKeys(l) ==
    LET k == lookups[l].ask
        nearby == Cached({p \in Places : AreNearby(k, p)}) IN
    /\ At(l, "keys")
    /\ \/ \E p \in nearby : GoOn(l, [step |-> "nearby", ask |-> k, key |-> p])
       \/ nearby = {} /\ AskMapbox(l)
    /\ UNCHANGED <<cache, excused>>

(* Mutant of ReadNearby: what was found is stored under the own key as well. *)
ReadNearbyAndKeep(l) ==
    LET p == lookups[l].key IN
    /\ At(l, "nearby")
    /\ IF cache[p] # None
       THEN GoOn(l, [step |-> "store", ask |-> lookups[l].ask, got |-> cache[p]])
       ELSE AskMapbox(l)
    /\ UNCHANGED <<cache, excused>>

(* Mutant of ReadNearby: when the key has expired, the keys are listed again. *)
ReadNearbyOrList(l) ==
    LET p == lookups[l].key IN
    /\ At(l, "nearby")
    /\ IF cache[p] # None
       THEN End(l, cache[p])
       ELSE GoOn(l, [step |-> "keys", ask |-> lookups[l].ask])
    /\ UNCHANGED <<cache, excused>>

(* No other key is tried when this one has expired. *)
ReadNearby(l) ==
    LET p == lookups[l].key IN
    /\ At(l, "nearby")
    /\ IF cache[p] # None THEN End(l, cache[p]) ELSE AskMapbox(l)
    /\ UNCHANGED <<cache, excused>>

(* RedisCacheService catches every error: get answers null, keys an empty    *)
(* list, and set nothing.                                                   *)
RedisFails(l) ==
    /\ \/ At(l, "exact") /\ Missed(l)
       \/ (At(l, "keys") \/ At(l, "nearby")) /\ AskMapbox(l)
       \/ At(l, "store") /\ End(l, lookups[l].got)
    /\ excused' = excused \cup {l}
    /\ UNCHANGED cache

(* Mutant of MapboxAnswers: an empty list of features is not looked for. *)
MapboxAnswersAnything(l) ==
    /\ At(l, "mapbox")
    /\ \E got \in {lookups[l].ask, None} :
          GoOn(l, [step |-> "store", ask |-> lookups[l].ask, got |-> got])
    /\ UNCHANGED <<cache, excused>>

MapboxAnswers(l) ==
    /\ At(l, "mapbox")
    /\ GoOn(l, [step |-> "store", ask |-> lookups[l].ask, got |-> lookups[l].ask])
    /\ UNCHANGED <<cache, excused>>

(* Mapbox fails or finds nothing: an error, or an empty list. *)
MapboxFails(l) ==
    /\ At(l, "mapbox")
    /\ End(l, None)
    /\ UNCHANGED <<cache, excused>>

Store(l) ==
    /\ At(l, "store")
    /\ cache' = [cache EXCEPT ![lookups[l].ask] = lookups[l].got]
    /\ End(l, lookups[l].got)
    /\ UNCHANGED excused

(* The time to live of a key has passed. *)
Expire(k) ==
    /\ cache[k] # None
    /\ cache' = [cache EXCEPT ![k] = None]
    /\ excused' = excused \cup {l \in Lookups : ~ At(l, "idle") /\ k \in Answering(lookups[l].ask)}
    /\ UNCHANGED <<lookups, answered>>

Continue(l) ==
    \/ ReadExact(l) \/ ListKeys(l) \/ ReadNearby(l) \/ RedisFails(l)
    \/ MapboxAnswers(l) \/ MapboxFails(l) \/ Store(l)

Next ==
    \/ \E l \in Lookups : Continue(l) \/ \E k \in Keys : Ask(l, k)
    \/ \E k \in Keys : Expire(k)

(* Every call comes back: ioredis gives up after its retries, axios when the  *)
(* connection ends.                                                         *)
GoesOn(l) == WF_vars(Continue(l))

Fairness == \A l \in Lookups : GoesOn(l)

Spec == Init /\ [][Next]_vars /\ Fairness

-----------------------------------------------------------------------------
(* Properties. *)

(* What a look-up returns is the result of its own query, or the address of  *)
(* coordinates within the threshold of those asked for, however long         *)
(* addresses have gone from one look-up to the next through the cache: an    *)
(* address found nearby is not stored again, or it would drift by one        *)
(* threshold each time (mapbox.service.ts, lines 42-106).                    *)
AnswersAreNear ==
    answered # None => answered[2] \in Answering(answered[1])

(* Mapbox, which costs money, is asked only when at some moment of the       *)
(* look-up nothing that answers it was cached, a key that does expired, or   *)
(* Redis failed: "If no cached result found, fetch from API" (line 60).      *)
MapboxIsLastResort ==
    \A l \in Lookups : At(l, "mapbox") => l \in excused

(* Every look-up comes to an end, Redis or no Redis: the gateway awaits one  *)
(* for each position it sends (devices.gateway.ts, lines 178, 221-247).      *)
LookupsEnd ==
    \A l \in Lookups : ~ At(l, "idle") ~> At(l, "idle")
=============================================================================
