---------------------------- MODULE GeoCacheProofs ----------------------------
(* Theorems about GeoCache, for any places, queries, threshold and number of   *)
(* look-ups in flight.                                                        *)
EXTENDS GeoCache, TLAPS

(* A key holds nothing but the result of its own query. *)
OwnResults == \A k \in Keys : cache[k] \in {k, None}

(* A look-up reads only keys that may answer it, and stores what Mapbox said. *)
LookupsNear ==
    \A l \in Lookups :
        /\ At(l, "nearby") => lookups[l].key \in Answering(lookups[l].ask)
        /\ At(l, "store") => lookups[l].got = lookups[l].ask

NearInv == TypeOK /\ OwnResults /\ LookupsNear /\ AnswersAreNear

LEMMA InitNear == Init => NearInv
  BY GeoCacheAssumption
  DEF Init, NearInv, TypeOK, OwnResults, LookupsNear, AnswersAreNear, Idle, At

(* A result may answer its own query. *)
LEMMA OwnAnswer == \A k \in Keys : k \in Answering(k)
  BY GeoCacheAssumption DEF Answering, AreNearby, Abs, Keys

(* The steps that give a look-up its next call keep the invariant when they   *)
(* give it one that is well formed.                                          *)
LEMMA GoOnNear ==
    ASSUME NearInv, NEW l \in Lookups, NEW r \in Lookup,
           r.step = "nearby" => r.key \in Answering(r.ask),
           r.step = "store" => r.got = r.ask,
           GoOn(l, r), UNCHANGED cache, excused' \subseteq Lookups
    PROVE  NearInv'
<1>1. lookups' \in [Lookups -> Lookup \cup {Idle}]
  BY DEF GoOn, NearInv, TypeOK
<1>2. LookupsNear'
  BY DEF GoOn, NearInv, TypeOK, LookupsNear, At
<1> QED
  BY <1>1, <1>2 DEF GoOn, NearInv, TypeOK, OwnResults, AnswersAreNear

(* So do those that end it with a result that may answer it, or with none. *)
LEMMA EndNear ==
    ASSUME NearInv, NEW l \in Lookups, lookups[l] # Idle, NEW result,
           result # None => result \in Answering(lookups[l].ask),
           End(l, result), cache' \in [Keys -> Keys \cup {None}], OwnResults',
           excused' \subseteq Lookups
    PROVE  NearInv'
<1>1. lookups[l].ask \in Keys
  BY DEF NearInv, TypeOK, Lookup, Keys
<1>2. Answering(lookups[l].ask) \subseteq Keys
  BY <1>1 DEF Answering, Keys
<1>3. lookups' \in [Lookups -> Lookup \cup {Idle}] /\ answered' \in (Keys \X Keys) \cup {None}
  BY <1>1, <1>2 DEF End, NearInv, TypeOK
<1>4. LookupsNear'
  BY DEF End, NearInv, TypeOK, LookupsNear, At, Idle
<1>5. AnswersAreNear'
  BY DEF End, NearInv, AnswersAreNear
<1> QED
  BY <1>3, <1>4, <1>5 DEF NearInv, TypeOK

LEMMA StepNear == NearInv /\ [Next]_vars => NearInv'
<1> SUFFICES ASSUME NearInv, [Next]_vars PROVE NearInv'
  OBVIOUS
<1> USE DEF At
<1>t. ASSUME NEW l \in Lookups, lookups[l].step # "idle"
      PROVE  /\ lookups[l] # Idle
             /\ lookups[l].ask \in Keys
             /\ lookups[l].step = "keys" => lookups[l].ask \in Places
             /\ lookups[l].step = "nearby" => lookups[l].ask \in Places /\ lookups[l].key \in Places
  BY <1>t DEF NearInv, TypeOK, Lookup, Idle, Keys
<1>k. \A k \in Keys : cache[k] \in {k, None} /\ k \in Answering(k)
  BY OwnAnswer DEF NearInv, OwnResults
<1>c. UNCHANGED cache => cache' \in [Keys -> Keys \cup {None}] /\ OwnResults'
  BY DEF NearInv, TypeOK, OwnResults
<1>e. excused \subseteq Lookups
  BY DEF NearInv, TypeOK
<1>m. ASSUME NEW l \in Lookups, lookups[l].step # "idle", AskMapbox(l),
             UNCHANGED cache, excused' \subseteq Lookups
      PROVE  NearInv'
  <2> DEFINE r == [step |-> "mapbox", ask |-> lookups[l].ask]
  <2>1. r \in Lookup
    BY <1>m, <1>t DEF Lookup
  <2>2. GoOn(l, r)
    BY <1>m DEF AskMapbox
  <2>3. r.step # "nearby" /\ r.step # "store"
    OBVIOUS
  <2> HIDE DEF r
  <2> QED
    BY <1>m, <2>1, <2>2, <2>3, GoOnNear
<1>d. ASSUME NEW l \in Lookups, lookups[l].step # "idle", Missed(l),
             UNCHANGED cache, excused' \subseteq Lookups
      PROVE  NearInv'
  <2>1. CASE lookups[l].ask \in Places
    <3> DEFINE r == [step |-> "keys", ask |-> lookups[l].ask]
    <3>1. r \in Lookup
      BY <2>1 DEF Lookup
    <3>2. GoOn(l, r)
      BY <1>d, <2>1 DEF Missed
    <3>3. r.step # "nearby" /\ r.step # "store"
      OBVIOUS
    <3> HIDE DEF r
    <3> QED
      BY <1>d, <3>1, <3>2, <3>3, GoOnNear
  <2>2. CASE lookups[l].ask \notin Places
    BY <1>d, <1>m, <2>2 DEF Missed
  <2> QED
    BY <2>1, <2>2
<1>1. ASSUME NEW l \in Lookups, NEW k \in Keys, Ask(l, k)
      PROVE  NearInv'
  <2> DEFINE r == [step |-> "exact", ask |-> k]
  <2>1. r \in Lookup
    BY DEF Lookup
  <2>2. GoOn(l, r) /\ UNCHANGED cache /\ excused' \subseteq Lookups
    BY <1>1, <1>e DEF Ask
  <2>3. r.step # "nearby" /\ r.step # "store"
    OBVIOUS
  <2> HIDE DEF r
  <2> QED
    BY <2>1, <2>2, <2>3, GoOnNear
<1>2. ASSUME NEW l \in Lookups, ReadExact(l)
      PROVE  NearInv'
  <2> DEFINE k == lookups[l].ask
  <2>1. lookups[l].step # "idle" /\ UNCHANGED <<cache, excused>>
    BY <1>2 DEF ReadExact
  <2>2. CASE cache[k] # None
    <3>1. End(l, cache[k]) /\ cache[k] \in Answering(k)
      BY <1>2, <2>1, <2>2, <1>t, <1>k DEF ReadExact
    <3> QED
      BY <2>1, <3>1, <1>t, <1>c, <1>e, EndNear
  <2>3. CASE cache[k] = None
    BY <1>2, <2>1, <2>3, <1>d, <1>e DEF ReadExact
  <2> QED
    BY <2>2, <2>3
<1>3. ASSUME NEW l \in Lookups, ListKeys(l)
      PROVE  NearInv'
  <2> DEFINE k == lookups[l].ask
  <2>1. lookups[l].step = "keys" /\ UNCHANGED <<cache, excused>>
    BY <1>3 DEF ListKeys
  <2>2. k \in Places
    BY <2>1, <1>t
  <2>3. ASSUME NEW p \in Places, AreNearby(k, p),
               GoOn(l, [step |-> "nearby", ask |-> k, key |-> p])
        PROVE  NearInv'
    <3> DEFINE r == [step |-> "nearby", ask |-> k, key |-> p]
    <3>1. r \in Lookup
      BY <2>2 DEF Lookup
    <3>2. r.key \in Answering(r.ask) /\ r.step # "store"
      BY <2>2, <2>3 DEF Answering
    <3>3. GoOn(l, r)
      BY <2>3
    <3> HIDE DEF r
    <3> QED
      BY <2>1, <3>1, <3>2, <3>3, <1>e, GoOnNear
  <2>4. \/ \E p \in Places : AreNearby(k, p) /\ GoOn(l, [step |-> "nearby", ask |-> k, key |-> p])
        \/ AskMapbox(l)
    BY <1>3 DEF ListKeys, Cached
  <2> QED
    BY <2>1, <2>3, <2>4, <1>m, <1>e
<1>4. ASSUME NEW l \in Lookups, ReadNearby(l)
      PROVE  NearInv'
  <2> DEFINE p == lookups[l].key
  <2>1. lookups[l].step = "nearby" /\ UNCHANGED <<cache, excused>>
    BY <1>4 DEF ReadNearby
  <2>2. p \in Keys /\ p \in Answering(lookups[l].ask)
    BY <2>1, <1>t DEF NearInv, LookupsNear, Keys
  <2>3. CASE cache[p] # None
    <3>1. End(l, cache[p]) /\ cache[p] \in Answering(lookups[l].ask)
      BY <1>4, <2>2, <2>3, <1>k DEF ReadNearby
    <3> QED
      BY <2>1, <3>1, <1>t, <1>c, <1>e, EndNear
  <2>4. CASE cache[p] = None
    BY <1>4, <2>1, <2>4, <1>m, <1>e DEF ReadNearby
  <2> QED
    BY <2>3, <2>4
<1>5. ASSUME NEW l \in Lookups, RedisFails(l)
      PROVE  NearInv'
  <2>1. UNCHANGED cache /\ excused' \subseteq Lookups
    BY <1>5, <1>e DEF RedisFails
  <2>2. CASE lookups[l].step = "store" /\ End(l, lookups[l].got)
    <3>1. lookups[l].got \in Answering(lookups[l].ask)
      BY <2>2, <1>t, <1>k DEF NearInv, LookupsNear
    <3> QED
      BY <2>1, <2>2, <3>1, <1>t, <1>c, EndNear
  <2> QED
    BY <1>5, <2>1, <2>2, <1>m, <1>d DEF RedisFails
<1>6. ASSUME NEW l \in Lookups, MapboxAnswers(l)
      PROVE  NearInv'
  <2> DEFINE r == [step |-> "store", ask |-> lookups[l].ask, got |-> lookups[l].ask]
  <2>1. r \in Lookup
    BY <1>6, <1>t DEF MapboxAnswers, Lookup
  <2>2. GoOn(l, r) /\ UNCHANGED <<cache, excused>>
    BY <1>6 DEF MapboxAnswers
  <2>3. r.step # "nearby" /\ r.got = r.ask
    OBVIOUS
  <2> HIDE DEF r
  <2> QED
    BY <2>1, <2>2, <2>3, <1>e, GoOnNear
<1>7. ASSUME NEW l \in Lookups, MapboxFails(l)
      PROVE  NearInv'
  BY <1>7, <1>t, <1>c, <1>e, EndNear DEF MapboxFails
<1>8. ASSUME NEW l \in Lookups, Store(l)
      PROVE  NearInv'
  <2>1. /\ lookups[l].step = "store" /\ End(l, lookups[l].got) /\ UNCHANGED excused
        /\ cache' = [cache EXCEPT ![lookups[l].ask] = lookups[l].got]
    BY <1>8 DEF Store
  <2>2. lookups[l].got = lookups[l].ask /\ lookups[l].ask \in Keys
    BY <2>1, <1>t DEF NearInv, LookupsNear
  <2>3. cache' \in [Keys -> Keys \cup {None}] /\ OwnResults'
    BY <2>1, <2>2 DEF NearInv, TypeOK, OwnResults
  <2> QED
    BY <2>1, <2>2, <2>3, <1>t, <1>k, <1>e, EndNear
<1>9. ASSUME NEW k \in Keys, Expire(k)
      PROVE  NearInv'
  BY <1>9 DEF Expire, NearInv, TypeOK, OwnResults, LookupsNear, AnswersAreNear
<1>10. CASE UNCHANGED vars
  BY <1>10 DEF vars, NearInv, TypeOK, OwnResults, LookupsNear, AnswersAreNear
<1> QED
  BY <1>1, <1>2, <1>3, <1>4, <1>5, <1>6, <1>7, <1>8, <1>9, <1>10 DEF Next, Continue

(* Every state is well typed: the cache, the look-ups and the two histories    *)
(* (mapbox.service.ts, lines 42-208).                                         *)
THEOREM TypeCorrect == Spec => []TypeOK
<1>1. NearInv => TypeOK
  BY DEF NearInv
<1> QED
  BY InitNear, StepNear, <1>1, PTL DEF Spec

(* What a look-up returns answers it: an address never drifts by more than     *)
(* one threshold (mapbox.service.ts, lines 42-106).                            *)
THEOREM AnswersNear == Spec => []AnswersAreNear
<1>1. NearInv => AnswersAreNear
  BY DEF NearInv
<1> QED
  BY InitNear, StepNear, <1>1, PTL DEF Spec

(* Until a look-up is excused, what it has yet to read holds a value. *)
Unexcused(l) ==
    /\ At(l, "exact") \/ At(l, "keys") => Cached(Answering(lookups[l].ask)) # {}
    /\ At(l, "nearby") => cache[lookups[l].key] # None
    /\ ~ At(l, "mapbox")

ResortInv == NearInv /\ \A l \in Lookups : l \in excused \/ Unexcused(l)

LEMMA InitResort == Init => ResortInv
  BY InitNear DEF Init, ResortInv, Unexcused, At, Idle

(* A step of one look-up that takes no value out of the cache leaves the       *)
(* others as they are.                                                        *)
LEMMA OthersUnexcused ==
    ASSUME ResortInv, NearInv', NEW l \in Lookups, NEW r,
           lookups' = [lookups EXCEPT ![l] = r],
           \A k \in Keys : cache[k] # None => cache'[k] # None,
           excused \ {l} \subseteq excused',
           l \in excused' \/ Unexcused(l)'
    PROVE  ResortInv'
<1> SUFFICES ASSUME NEW m \in Lookups, m # l, m \notin excused'
             PROVE  Unexcused(m)'
  BY DEF ResortInv
<1>1. lookups'[m] = lookups[m] /\ Unexcused(m) /\ lookups[m] \in Lookup \cup {Idle}
  BY DEF ResortInv, NearInv, TypeOK
<1>2. lookups[m].step = "nearby" => lookups[m].key \in Keys
  BY <1>1 DEF Lookup, Idle, Keys
<1>3. lookups[m].step # "idle" => lookups[m].ask \in Keys
  BY <1>1 DEF Lookup, Idle, Keys
<1>4. ASSUME lookups[m].step = "exact" \/ lookups[m].step = "keys"
      PROVE  Cached(Answering(lookups[m].ask))' # {}
  <2>1. Answering(lookups[m].ask) \subseteq Keys
    BY <1>3, <1>4 DEF Answering, Keys
  <2>2. PICK k \in Answering(lookups[m].ask) : cache[k] # None
    BY <1>1, <1>4 DEF Unexcused, At, Cached
  <2> QED
    BY <2>1, <2>2, <1>1 DEF Cached, Answering
<1> QED
  BY <1>1, <1>2, <1>4 DEF Unexcused, At

LEMMA StepResort == ResortInv /\ [Next]_vars => ResortInv'
<1> SUFFICES ASSUME ResortInv, [Next]_vars PROVE ResortInv'
  OBVIOUS
<1>n. NearInv /\ NearInv'
  BY StepNear DEF ResortInv
<1>t. ASSUME NEW l \in Lookups
      PROVE  /\ lookups[l] \in Lookup \cup {Idle}
             /\ l \in DOMAIN lookups
             /\ l \in excused \/ Unexcused(l)
  BY DEF ResortInv, NearInv, TypeOK
(* One look-up moves, and stays excused or has its next value cached. *)
<1>o. ASSUME NEW l \in Lookups, NEW r,
             lookups' = [lookups EXCEPT ![l] = r],
             \A k \in Keys : cache[k] # None => cache'[k] # None,
             excused \ {l} \subseteq excused',
             \/ l \in excused'
             \/ r.step = "idle" \/ r.step = "store"
             \/ r.step \in {"exact", "keys"} /\ (\E j \in Answering(r.ask) : cache'[j] # None)
             \/ r.step = "nearby" /\ cache'[r.key] # None
      PROVE  ResortInv'
  <2>1. lookups'[l] = r
    BY <1>o, <1>t
  <2>2. l \in excused' \/ Unexcused(l)'
    BY <1>o, <2>1 DEF Unexcused, At, Cached, Answering
  <2> QED
    BY <1>o, <1>n, <2>2, OthersUnexcused
<1>1. ASSUME NEW l \in Lookups, NEW k \in Keys, Ask(l, k)
      PROVE  ResortInv'
  <2> DEFINE r == [step |-> "exact", ask |-> k]
  <2>1. lookups' = [lookups EXCEPT ![l] = r] /\ cache' = cache /\ excused \ {l} \subseteq excused'
    BY <1>1 DEF Ask, GoOn
  <2>2. l \in excused' \/ (\E j \in Answering(r.ask) : cache'[j] # None)
    BY <1>1, <2>1 DEF Ask, Cached, Answering
  <2>3. r.step = "exact"
    OBVIOUS
  <2> HIDE DEF r
  <2> QED
    BY <2>1, <2>2, <2>3, <1>o
<1>2. ASSUME NEW l \in Lookups, ReadExact(l)
      PROVE  ResortInv'
  <2> DEFINE k == lookups[l].ask
  <2>1. lookups[l].step = "exact" /\ UNCHANGED <<cache, excused>>
    BY <1>2 DEF ReadExact, At
  <2>2. CASE cache[k] # None
    <3>1. lookups' = [lookups EXCEPT ![l] = Idle]
      BY <1>2, <2>2 DEF ReadExact, End
    <3> QED
      BY <2>1, <3>1, <1>o DEF Idle
  <2>3. CASE cache[k] = None /\ k \in Places
    <3> DEFINE r == [step |-> "keys", ask |-> k]
    <3>1. lookups' = [lookups EXCEPT ![l] = r]
      BY <1>2, <2>3 DEF ReadExact, Missed, GoOn
    <3>2. l \in excused' \/ (\E j \in Answering(r.ask) : cache'[j] # None)
      BY <2>1, <1>t DEF Unexcused, At, Cached, Answering
    <3>3. r.step = "keys"
      OBVIOUS
    <3> HIDE DEF r
    <3> QED
      BY <2>1, <3>1, <3>2, <3>3, <1>o
  <2>4. CASE cache[k] = None /\ k \notin Places
    <3> DEFINE r == [step |-> "mapbox", ask |-> k]
    <3>1. lookups' = [lookups EXCEPT ![l] = r]
      BY <1>2, <2>4 DEF ReadExact, Missed, AskMapbox, GoOn
    <3>2. l \in excused'
      BY <2>1, <2>4, <1>t DEF Unexcused, At, Cached, Answering
    <3> HIDE DEF r
    <3> QED
      BY <2>1, <3>1, <3>2, <1>o
  <2> QED
    BY <2>2, <2>3, <2>4
<1>3. ASSUME NEW l \in Lookups, ListKeys(l)
      PROVE  ResortInv'
  <2> DEFINE k == lookups[l].ask
             r(p) == [step |-> "nearby", ask |-> k, key |-> p]
             m == [step |-> "mapbox", ask |-> k]
  <2>1. lookups[l].step = "keys" /\ UNCHANGED <<cache, excused>>
    BY <1>3 DEF ListKeys, At
  <2>2. k \in Places
    BY <2>1, <1>t DEF Lookup, Idle
  <2>3. ASSUME NEW p \in Places, cache[p] # None, GoOn(l, r(p))
        PROVE  ResortInv'
    <3>1. lookups' = [lookups EXCEPT ![l] = r(p)]
      BY <2>3 DEF GoOn
    <3>2. r(p).step = "nearby" /\ cache'[r(p).key] # None
      BY <2>1, <2>3
    <3> HIDE DEF r
    <3> QED
      BY <2>1, <3>1, <3>2, <1>o
  <2>4. ASSUME Cached({p \in Places : AreNearby(k, p)}) = {}, AskMapbox(l)
        PROVE  ResortInv'
    <3>1. lookups' = [lookups EXCEPT ![l] = m]
      BY <2>4 DEF AskMapbox, GoOn
    <3>2. l \in excused'
      BY <2>1, <2>2, <2>4, <1>t DEF Unexcused, At, Answering
    <3> HIDE DEF m
    <3> QED
      BY <2>1, <3>1, <3>2, <1>o
  <2> QED
    BY <1>3, <2>3, <2>4 DEF ListKeys, Cached
<1>4. ASSUME NEW l \in Lookups, ReadNearby(l)
      PROVE  ResortInv'
  <2> DEFINE p == lookups[l].key
             m == [step |-> "mapbox", ask |-> lookups[l].ask]
  <2>1. lookups[l].step = "nearby" /\ UNCHANGED <<cache, excused>>
    BY <1>4 DEF ReadNearby, At
  <2>2. CASE cache[p] # None
    <3>1. lookups' = [lookups EXCEPT ![l] = Idle]
      BY <1>4, <2>2 DEF ReadNearby, End
    <3> QED
      BY <2>1, <3>1, <1>o DEF Idle
  <2>3. CASE cache[p] = None
    <3>1. lookups' = [lookups EXCEPT ![l] = m]
      BY <1>4, <2>3 DEF ReadNearby, AskMapbox, GoOn
    <3>2. l \in excused'
      BY <2>1, <2>3, <1>t DEF Unexcused, At
    <3> HIDE DEF m
    <3> QED
      BY <2>1, <3>1, <3>2, <1>o
  <2> QED
    BY <2>2, <2>3
<1>5. ASSUME NEW l \in Lookups, RedisFails(l)
      PROVE  ResortInv'
  <2>1. UNCHANGED cache /\ excused \subseteq excused' /\ l \in excused'
    BY <1>5 DEF RedisFails
  <2>2. \E r : lookups' = [lookups EXCEPT ![l] = r]
    BY <1>5 DEF RedisFails, Missed, AskMapbox, GoOn, End
  <2> QED
    BY <2>1, <2>2, <1>o
<1>6. ASSUME NEW l \in Lookups, MapboxAnswers(l)
      PROVE  ResortInv'
  <2> DEFINE r == [step |-> "store", ask |-> lookups[l].ask, got |-> lookups[l].ask]
  <2>1. lookups' = [lookups EXCEPT ![l] = r] /\ UNCHANGED <<cache, excused>>
    BY <1>6 DEF MapboxAnswers, GoOn
  <2>2. r.step = "store"
    OBVIOUS
  <2> HIDE DEF r
  <2> QED
    BY <2>1, <2>2, <1>o
<1>7. ASSUME NEW l \in Lookups, MapboxFails(l)
      PROVE  ResortInv'
  <2>1. lookups' = [lookups EXCEPT ![l] = Idle] /\ UNCHANGED <<cache, excused>>
    BY <1>7 DEF MapboxFails, End
  <2> QED
    BY <2>1, <1>o DEF Idle
<1>8. ASSUME NEW l \in Lookups, Store(l)
      PROVE  ResortInv'
  <2>1. /\ lookups' = [lookups EXCEPT ![l] = Idle] /\ UNCHANGED excused
        /\ cache' = [cache EXCEPT ![lookups[l].ask] = lookups[l].got]
        /\ lookups[l].step = "store"
    BY <1>8 DEF Store, End, At
  <2>2. lookups[l].got # None
    BY <2>1, <1>t, GeoCacheAssumption DEF Lookup, Idle
  <2>3. \A k \in Keys : cache[k] # None => cache'[k] # None
    BY <2>1, <2>2, <1>n DEF NearInv, TypeOK
  <2> QED
    BY <2>1, <2>3, <1>o DEF Idle
<1>9. ASSUME NEW k \in Keys, Expire(k)
      PROVE  ResortInv'
  <2> SUFFICES ASSUME NEW l \in Lookups, l \notin excused'
               PROVE  Unexcused(l)'
    BY <1>n DEF ResortInv
  <2>1. /\ lookups' = lookups /\ Unexcused(l)
        /\ lookups[l].step = "idle" \/ k \notin Answering(lookups[l].ask)
        /\ \A j \in Keys : j # k => cache'[j] = cache[j]
    BY <1>9, <1>t, <1>n DEF Expire, At, NearInv, TypeOK
  <2>2. lookups[l].step = "nearby" =>
          lookups[l].key \in Keys /\ lookups[l].key \in Answering(lookups[l].ask)
    BY <1>t, <1>n DEF Lookup, Idle, Keys, NearInv, LookupsNear, At
  <2>3. ASSUME lookups[l].step = "exact" \/ lookups[l].step = "keys"
        PROVE  Cached(Answering(lookups[l].ask))' # {}
    <3>1. lookups[l].ask \in Keys
      BY <2>3, <1>t DEF Lookup, Idle, Keys
    <3>2. Answering(lookups[l].ask) \subseteq Keys
      BY <3>1 DEF Answering, Keys
    <3>3. PICK j \in Answering(lookups[l].ask) : cache[j] # None
      BY <2>1, <2>3 DEF Unexcused, At, Cached
    <3> QED
      BY <2>1, <2>3, <3>2, <3>3 DEF Cached, Answering
  <2> QED
    BY <2>1, <2>2, <2>3 DEF Unexcused, At
<1>10. CASE UNCHANGED vars
  BY <1>10, <1>n DEF vars, ResortInv, Unexcused, At, Cached, Answering
<1> QED
  BY <1>1, <1>2, <1>3, <1>4, <1>5, <1>6, <1>7, <1>8, <1>9, <1>10 DEF Next, Continue

(* Mapbox is asked only when something near was missing or Redis failed        *)
(* (mapbox.service.ts, lines 42-60 and 86-106).                                *)
THEOREM LastResort == Spec => []MapboxIsLastResort
<1>1. ResortInv => MapboxIsLastResort
  BY DEF ResortInv, Unexcused, MapboxIsLastResort
<1> QED
  BY InitResort, StepResort, <1>1, PTL DEF Spec
-----------------------------------------------------------------------------
(* Look-ups come to an end. *)

(* The look-up can take its next step whenever it is under way: its call      *)
(* returns, with a value or with an error.  It is a hypothesis of the theorem *)
(* below, for the provers know nothing of ENABLED; in the model it is true of *)
(* every state, since each call may return an error at least.                 *)
CanGoOn(l) == [](~ At(l, "idle") => ENABLED <<Continue(l)>>_vars)

LEMMA StepNames ==
    ASSUME TypeOK, NEW l \in Lookups
    PROVE  \/ At(l, "idle") \/ At(l, "exact") \/ At(l, "keys")
           \/ At(l, "nearby") \/ At(l, "mapbox") \/ At(l, "store")
<1>1. lookups[l] \in Lookup \cup {Idle}
  BY DEF TypeOK
<1> QED
  BY <1>1 DEF Lookup, Idle, At

(* The calls of a look-up come in one order, and none is made twice.          *)
Onward(l) ==
    /\ At(l, "exact")  => At(l, "keys")' \/ At(l, "mapbox")' \/ At(l, "idle")'
    /\ At(l, "keys")   => At(l, "nearby")' \/ At(l, "mapbox")'
    /\ At(l, "nearby") => At(l, "mapbox")' \/ At(l, "idle")'
    /\ At(l, "mapbox") => At(l, "store")' \/ At(l, "idle")'
    /\ At(l, "store")  => At(l, "idle")'

LEMMA GoesOnward ==
    ASSUME TypeOK, NEW l \in Lookups, Continue(l)
    PROVE  Onward(l)
<1>1. ASSUME NEW r, GoOn(l, r) PROVE lookups'[l] = r
  BY <1>1 DEF GoOn, TypeOK
<1>2. ASSUME NEW result, End(l, result) PROVE At(l, "idle")'
  BY <1>2 DEF End, TypeOK, At, Idle
<1>3. AskMapbox(l) => At(l, "mapbox")'
  BY <1>1 DEF AskMapbox, At
<1>4. Missed(l) => At(l, "keys")' \/ At(l, "mapbox")'
  BY <1>1, <1>3 DEF Missed, At
<1>5. CASE ReadExact(l)
  BY <1>2, <1>4, <1>5 DEF ReadExact, Onward, At
<1>6. CASE ListKeys(l)
  <2>1. At(l, "nearby")' \/ At(l, "mapbox")'
    <3>1. ASSUME NEW p, GoOn(l, [step |-> "nearby", ask |-> lookups[l].ask, key |-> p])
          PROVE  At(l, "nearby")'
      BY <1>1, <3>1 DEF At
    <3> QED
      BY <1>3, <1>6, <3>1 DEF ListKeys
  <2> QED
    BY <1>6, <2>1 DEF ListKeys, Onward, At
<1>7. CASE ReadNearby(l)
  BY <1>2, <1>3, <1>7 DEF ReadNearby, Onward, At
<1>8. CASE RedisFails(l)
  BY <1>2, <1>3, <1>4, <1>8 DEF RedisFails, Onward, At
<1>9. CASE MapboxAnswers(l)
  BY <1>1, <1>9 DEF MapboxAnswers, Onward, At
<1>10. CASE MapboxFails(l)
  BY <1>2, <1>10 DEF MapboxFails, Onward, At
<1>11. CASE Store(l)
  BY <1>2, <1>11 DEF Store, Onward, At
<1> QED
  BY <1>5, <1>6, <1>7, <1>8, <1>9, <1>10, <1>11 DEF Continue

(* Nothing else moves a look-up that is under way.                            *)
LEMMA OnlyOnward ==
    ASSUME TypeOK, NEW l \in Lookups, [Next]_vars, ~ At(l, "idle")
    PROVE  Continue(l) \/ lookups'[l] = lookups[l]
<1>1. CASE UNCHANGED vars
  BY <1>1 DEF vars
<1>2. ASSUME NEW m \in Lookups, m # l, Continue(m) \/ \E k \in Keys : Ask(m, k)
      PROVE  lookups'[l] = lookups[l]
  <2>1. \E r : lookups' = [lookups EXCEPT ![m] = r]
    BY <1>2 DEF Continue, ReadExact, ListKeys, ReadNearby, RedisFails, MapboxAnswers,
       MapboxFails, Store, Ask, Missed, AskMapbox, GoOn, End
  <2> QED
    BY <1>2, <2>1 DEF TypeOK
<1>3. ASSUME NEW k \in Keys, Ask(l, k) PROVE FALSE
  BY <1>3 DEF Ask
<1>4. ASSUME NEW k \in Keys, Expire(k) PROVE lookups'[l] = lookups[l]
  BY <1>4 DEF Expire
<1> QED
  BY <1>1, <1>2, <1>3, <1>4 DEF Next

LEMMA GoesOnFairly ==
    ASSUME NEW l \in Lookups
    PROVE  Spec => GoesOn(l)
  BY DEF Spec, Fairness

(* Of the six places a look-up can be at, each is left for good.              *)
LEMMA OneLookupEnds ==
    ASSUME NEW l \in Lookups
    PROVE  Spec /\ CanGoOn(l) => (~ At(l, "idle") ~> At(l, "idle"))
<1> DEFINE Free   == At(l, "idle")
           Exact  == At(l, "exact")
           Listed == At(l, "keys")
           Near   == At(l, "nearby")
           Mapbox == At(l, "mapbox")
           Stored == At(l, "store")
<1>1. TypeOK => Free \/ Exact \/ Listed \/ Near \/ Mapbox \/ Stored
  BY StepNames
<1>2. TypeOK /\ [Next]_vars =>
         /\ Exact  => Exact' \/ Listed' \/ Mapbox' \/ Free'
         /\ Listed => Listed' \/ Near' \/ Mapbox'
         /\ Near   => Near' \/ Mapbox' \/ Free'
         /\ Mapbox => Mapbox' \/ Stored' \/ Free'
         /\ Stored => Stored' \/ Free'
  <2>1. TypeOK /\ [Next]_vars /\ ~ Free => Onward(l) \/ lookups'[l] = lookups[l]
    BY OnlyOnward, GoesOnward
  <2> QED
    BY <2>1 DEF Onward, At
<1>3. TypeOK /\ <<Continue(l)>>_vars =>
         /\ Exact  => Listed' \/ Mapbox' \/ Free'
         /\ Listed => Near' \/ Mapbox'
         /\ Near   => Mapbox' \/ Free'
         /\ Mapbox => Stored' \/ Free'
         /\ Stored => Free'
  BY GoesOnward DEF Onward
<1>4. /\ Free => ~ Exact /\ ~ Listed /\ ~ Near /\ ~ Mapbox /\ ~ Stored
      /\ Exact => ~ Listed /\ ~ Near /\ ~ Mapbox /\ ~ Stored
      /\ Listed => ~ Near /\ ~ Mapbox /\ ~ Stored
      /\ Near => ~ Mapbox /\ ~ Stored
      /\ Mapbox => ~ Stored
  BY DEF At
<1> HIDE DEF Free, Exact, Listed, Near, Mapbox, Stored
<1>5. CanGoOn(l) /\ GoesOn(l) => []<>Free \/ []<><<Continue(l)>>_vars
  BY PTL DEF CanGoOn, GoesOn, Free
<1>6. Spec /\ CanGoOn(l) => (~ Free ~> Free)
  BY <1>1, <1>2, <1>3, <1>4, <1>5, TypeCorrect, GoesOnFairly, PTL DEF Spec
<1> QED
  BY <1>6 DEF Free

(* Every look-up comes to an end, whatever Redis holds, drops and fails and   *)
(* however look-ups overlap, when each of its calls returns                   *)
(* (mapbox.service.ts, lines 42-106): it makes at most five.                  *)
THEOREM LookupsComeToAnEnd == Spec /\ (\A l \in Lookups : CanGoOn(l)) => LookupsEnd
  BY OneLookupEnds DEF LookupsEnd
=============================================================================
