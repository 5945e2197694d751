---------------------------- MODULE PositionsProofs ----------------------------
(* Theorems about Positions, for any devices, positions, questions, number of  *)
(* requests under way and threshold.                                          *)
EXTENDS Positions, FiniteSetTheorems, WellFoundedInduction, TLAPS

(* What may stand in an answer to a question, be it cached, under way or out.  *)
Belongs(ask, f) ==
    /\ ask.of \in Devices => f.device = ask.of
    /\ ask.of \in Fixes => f = ask.of
    /\ Cacheable(ask) => f.time \in ask.from..ask.to

Good(ask, data) ==
    /\ \A p \in data : p.shifts = 1 /\ Belongs(ask, p.fix)
    /\ Cacheable(ask) => \A p, q \in data : p # q => ~ AreAround(p.fix, q.fix)

Inv ==
    /\ TypeOK
    /\ \A k \in Keys : cache[k] # None => Good(k, cache[k].data)
    /\ \A r \in Requests :
          /\ At(r, "addresses") => Good(requests[r].ask, requests[r].data)
          /\ At(r, "answered") => Good(requests[r].ask, requests[r].data)
          /\ At(r, "to store") => /\ Good(requests[r].ask, requests[r].data)
                                  /\ requests[r].data = Apart(Normalized(requests[r].read))

(* The questions are those of the clients, and make sense: a device with its   *)
(* positions, a position by itself.                                           *)
LEMMA AskFacts ==
    ASSUME NEW r \in Requests, NEW ask \in Asks[r]
    PROVE  ask \in Ask /\ (Cacheable(ask) => ask \in Keys /\ Key(ask) = ask)
  BY PositionsAssumption DEF Keys, Key

LEMMA InitInv == Init => Inv
<1> SUFFICES ASSUME Init PROVE Inv
  OBVIOUS
<1>1. /\ track \subseteq Fixes
      /\ cache \in [Keys -> Entry \cup {None}]
      /\ requests \in [Requests -> Request \cup {Idle}]
      /\ \A k \in Keys : cache[k] = None
  BY DEF Init
<1>2. \A r \in Requests : requests[r].step = "idle"
  BY DEF Init, Idle
<1> QED
  BY <1>1, <1>2 DEF Inv, TypeOK, At

(* A copy of each position, its times shifted once.                           *)
LEMMA NormalizedFacts ==
    ASSUME NEW S \in SUBSET Fixes
    PROVE  Normalized(S) = {[fix |-> f, shifts |-> 1] : f \in S}
<1>1. \A f \in S : NormalizePositionTimestamps([fix |-> f, shifts |-> 0]) = [fix |-> f, shifts |-> 1]
  BY DEF NormalizePositionTimestamps
<1> QED
  BY <1>1 DEF Normalized
(* To be around is mutual.                                                    *)
LEMMA AroundIsMutual ==
    ASSUME NEW f \in Fixes, NEW g \in Fixes, AreAround(f, g)
    PROVE  AreAround(g, f)
<1>1. f \in Fix /\ g \in Fix
  BY PositionsAssumption
<1>2. \A a, b \in Int : AbsDiff(a, b) = AbsDiff(b, a)
  BY DEF AbsDiff
<1>3. f.latitude \in Int /\ f.longitude \in Int /\ g.latitude \in Int /\ g.longitude \in Int
  BY <1>1 DEF Fix
<1>4. /\ AbsDiff(f.latitude, g.latitude) = AbsDiff(g.latitude, f.latitude)
      /\ AbsDiff(f.longitude, g.longitude) = AbsDiff(g.longitude, f.longitude)
  BY <1>2, <1>3
<1> QED
  BY <1>4 DEF AreAround

(* Of two positions that the filter leaves, one is the earlier, and would have *)
(* taken the other's place.                                                   *)
LEMMA ApartFacts ==
    ASSUME NEW S \in SUBSET Fixes,
           NEW p \in Apart(Normalized(S)), NEW q \in Apart(Normalized(S)), p # q
    PROVE  ~ AreAround(p.fix, q.fix)
<1> DEFINE D == Normalized(S)
<1>1. /\ p \in D /\ q \in D
      /\ \A x \in Earlier(D, p) : ~ AreAround(x.fix, p.fix)
      /\ \A x \in Earlier(D, q) : ~ AreAround(x.fix, q.fix)
  BY DEF Apart
<1>2. D = {[fix |-> f, shifts |-> 1] : f \in S}
  BY NormalizedFacts
<1>3. p.fix \in S /\ q.fix \in S /\ p.fix # q.fix
  BY <1>1, <1>2
<1>4. p.fix \in Fixes /\ q.fix \in Fixes
  BY <1>3
<1>5. p.fix.time # q.fix.time /\ p.fix.time \in Nat /\ q.fix.time \in Nat
  BY <1>3, <1>4, PositionsAssumption DEF Fix
<1>6. CASE p.fix.time < q.fix.time
  BY <1>1, <1>6 DEF Earlier
<1>7. CASE q.fix.time < p.fix.time
  <2>1. ~ AreAround(q.fix, p.fix)
    BY <1>1, <1>7 DEF Earlier
  <2> QED
    BY <2>1, <1>4, AroundIsMutual
<1> QED
  BY <1>5, <1>6, <1>7

(* The earliest of some positions that no others are around stays.            *)
LEMMA EarliestStays ==
    ASSUME NEW R \in SUBSET Fixes, NEW S \in SUBSET R, S # {},
           \A f \in S, g \in R \ S : ~ AreAround(f, g)
    PROVE  \E p \in Apart(Normalized(R)) : p.fix \in S
<1> DEFINE T == {f.time : f \in S}
<1>1. \A f \in Fixes : f.time \in Nat
  BY PositionsAssumption DEF Fix
<1>2. T \subseteq Nat /\ T # {}
  BY <1>1
<1>3. PICK m \in T : \A t \in T : <<t, m>> \notin OpToRel(<, Nat)
  BY <1>2, WFMin, NatLessThanWellFounded, Zenon
<1>4. PICK f \in S : f.time = m
  BY <1>3
<1>5. ASSUME NEW g \in S PROVE ~ (g.time < m)
  <2>1. g.time \in T /\ g.time \in Nat /\ m \in Nat
    BY <1>1, <1>2
  <2>2. <<g.time, m>> \notin OpToRel(<, Nat)
    BY <1>3, <2>1
  <2> QED
    BY <2>1, <2>2, Zenon DEF OpToRel
<1> DEFINE p == [fix |-> f, shifts |-> 1]
           D == Normalized(R)
<1>6. D = {[fix |-> g, shifts |-> 1] : g \in R}
  BY NormalizedFacts
<1>7. p \in D
  BY <1>6
<1>8. ASSUME NEW q \in Earlier(D, p) PROVE ~ AreAround(q.fix, p.fix)
  <2>1. q.fix \in R /\ q.fix.time < m
    BY <1>4, <1>6, <1>8 DEF Earlier
  <2>2. q.fix \notin S
    BY <1>5, <2>1
  <2>3. ~ AreAround(f, q.fix)
    BY <2>1, <2>2
  <2> QED
    BY <2>1, <2>3, AroundIsMutual
<1>9. p \in Apart(D)
  BY <1>7, <1>8 DEF Apart
<1> QED
  BY <1>9

(* What Traccar gives for a question belongs to it.                            *)
LEMMA AskedFacts ==
    ASSUME TypeOK, NEW r \in Requests, NEW ask \in Asks[r]
    PROVE  Asked(ask) \in SUBSET Fixes /\ \A f \in Asked(ask) : Belongs(ask, f)
<1>1. ask \in Ask
  BY AskFacts
<1>2. track \subseteq Fixes
  BY DEF TypeOK
<1>3. ASSUME NEW f \in Asked(ask) PROVE f \in Fixes /\ Belongs(ask, f)
  <2>1. CASE ask.url \in {"devices/id/positions", "positions?deviceId"}
    <3>1. f \in track /\ f.device = ask.of
      BY <1>3, <2>1 DEF Asked
    <3>2. ask.of \in Devices \cup {None} /\ ~ Cacheable(ask)
      BY <1>1, <2>1 DEF Ask, Cacheable
    <3> QED
      BY <1>2, <3>1, <3>2, PositionsAssumption DEF Belongs
  <2>2. CASE Cacheable(ask)
    <3>1. f \in track /\ f.device = ask.of /\ f.time \in ask.from..ask.to
      BY <1>3, <2>2 DEF Asked, Cacheable
    <3>2. ask.of \in Devices \cup {None}
      BY <1>1, <2>2 DEF Ask, Cacheable
    <3> QED
      BY <1>2, <3>1, <3>2, PositionsAssumption DEF Belongs
  <2>3. CASE ask.url = "positions/id"
    <3>1. f \in track /\ f = ask.of
      BY <1>3, <2>3 DEF Asked, Cacheable
    <3>2. ~ Cacheable(ask)
      BY <2>3 DEF Cacheable
    <3> QED
      BY <1>2, <3>1, <3>2, PositionsAssumption DEF Belongs
  <2>4. CASE ask.url = "positions"
    <3>1. f \in track /\ ask.of = None /\ ~ Cacheable(ask)
      BY <1>1, <1>3, <2>4 DEF Asked, Ask, Cacheable
    <3> QED
      BY <1>2, <3>1, PositionsAssumption DEF Belongs
  <2>5. CASE ~ Cacheable(ask) /\ ask.url \notin {"devices/id/positions", "positions?deviceId",
                                               "positions/id", "positions"}
    BY <1>3, <2>5 DEF Asked, Cacheable
  <2> QED
    BY <2>1, <2>2, <2>3, <2>4, <2>5
<1> QED
  BY <1>3

(* So do the answers that are made of it.                                      *)
LEMMA FreshFacts ==
    ASSUME TypeOK, NEW r \in Requests, NEW ask \in Asks[r]
    PROVE  /\ Normalized(Asked(ask)) \in SUBSET Position
           /\ ~ Cacheable(ask) => Good(ask, Normalized(Asked(ask)))
           /\ Apart(Normalized(Asked(ask))) \in SUBSET Position
           /\ Good(ask, Apart(Normalized(Asked(ask))))
<1> DEFINE S == Asked(ask)
           D == Normalized(S)
<1>1. S \in SUBSET Fixes /\ \A f \in S : Belongs(ask, f)
  BY AskedFacts
<1>2. D = {[fix |-> f, shifts |-> 1] : f \in S}
  BY <1>1, NormalizedFacts
<1>3. D \in SUBSET Position /\ \A p \in D : p.shifts = 1 /\ Belongs(ask, p.fix)
  BY <1>1, <1>2 DEF Position
<1>4. Apart(D) \subseteq D
  BY DEF Apart
<1>5. \A p, q \in Apart(D) : p # q => ~ AreAround(p.fix, q.fix)
  BY <1>1, ApartFacts
<1> QED
  BY <1>3, <1>4, <1>5 DEF Good

-----------------------------------------------------------------------------
(* One request goes on; the cache stays.                                       *)
LEMMA OneGoesOn ==
    ASSUME Inv, NEW r \in Requests, NEW q \in Request \cup {Idle},
           requests' = [requests EXCEPT ![r] = q], UNCHANGED cache, track' \subseteq Fixes,
           q.step # "idle" => q.ask \in Asks[r],
           q.step \in {"cache", "to store"} => Cacheable(q.ask),
           q.step \in {"addresses", "answered", "to store"} => Good(q.ask, q.data),
           q.step = "to store" => q.data = Apart(Normalized(q.read))
    PROVE  Inv'
<1>1. requests' \in [Requests -> Request \cup {Idle}]
  BY DEF Inv, TypeOK
<1>2. \A x \in Requests : requests'[x] = IF x = r THEN q ELSE requests[x]
  BY DEF Inv, TypeOK
<1>3. TypeOK'
  BY <1>1, <1>2 DEF Inv, TypeOK
<1>4. (\A k \in Keys : cache[k] # None => Good(k, cache[k].data))'
  BY DEF Inv
<1>5. ASSUME NEW x \in Requests
      PROVE  /\ At(x, "addresses")' => Good(requests'[x].ask, requests'[x].data)
             /\ At(x, "answered")' => Good(requests'[x].ask, requests'[x].data)
             /\ At(x, "to store")' =>
                   /\ Good(requests'[x].ask, requests'[x].data)
                   /\ requests'[x].data = Apart(Normalized(requests'[x].read))
  BY <1>2 DEF Inv, At
<1> QED
  BY <1>3, <1>4, <1>5 DEF Inv

LEMMA IdleFacts == Idle.step = "idle" /\ Idle \in Request \cup {Idle}
  BY DEF Idle

LEMMA InvFacts ==
    ASSUME Inv
    PROVE  /\ track \subseteq Fixes
           /\ requests \in [Requests -> Request \cup {Idle}]
           /\ \A r \in Requests : requests[r].step # "idle" => requests[r].ask \in Asks[r]
  BY DEF Inv, TypeOK

(* What is known of a request by its step.                                    *)
LEMMA RequestFacts ==
    ASSUME NEW p \in Request \cup {Idle}
    PROVE  /\ p.step = "addresses" =>
                p \in [step : {"addresses"}, ask : Ask, data : SUBSET Position, missing : Nat \ {0}]
           /\ p.step = "to store" => p.data \in SUBSET Position /\ p.read \in SUBSET Fixes
<1> DEFINE Known ==
        /\ p.step = "addresses" =>
              p \in [step : {"addresses"}, ask : Ask, data : SUBSET Position, missing : Nat \ {0}]
        /\ p.step = "to store" => p.data \in SUBSET Position /\ p.read \in SUBSET Fixes
       Reads   == [step : {"cache", "traccar"}, ask : Ask]
       Looks   == [step : {"addresses"}, ask : Ask, data : SUBSET Position, missing : Nat \ {0}]
       Answers == [step : {"answered"}, ask : Ask, status : {200, 404, 500}, data : SUBSET Position]
       Stores  == [step : {"to store"}, ask : Ask, data : SUBSET Position, read : SUBSET Fixes]
<1> SUFFICES Known
  OBVIOUS
<1>1. CASE p \in Reads
  <2>1. p.step \in {"cache", "traccar"}
    BY <1>1
  <2> QED
    BY <2>1
<1>2. CASE p \in Looks
  <2>1. p.step = "addresses"
    BY <1>2
  <2> QED
    BY <1>2, <2>1
<1>3. CASE p \in Answers
  <2>1. p.step = "answered"
    BY <1>3
  <2> QED
    BY <2>1
<1>4. CASE p \in Stores
  <2>1. p.step = "to store" /\ p.data \in SUBSET Position /\ p.read \in SUBSET Fixes
    BY <1>4
  <2> QED
    BY <2>1
<1>5. CASE p = Idle
  <2>1. p.step = "idle"
    BY <1>5, IdleFacts
  <2> QED
    BY <2>1
<1>6. Request = Reads \cup Looks \cup Answers \cup Stores
  BY Zenon DEF Request
<1> HIDE DEF Known, Reads, Looks, Answers, Stores
<1> QED
  BY <1>1, <1>2, <1>3, <1>4, <1>5, <1>6

(* An answer that is not to be stored.                                        *)
LEMMA AnswerFacts ==
    ASSUME NEW ask \in Ask, NEW status \in {200, 404, 500}, NEW data \in SUBSET Position,
           NEW q, q = [step |-> "answered", ask |-> ask, status |-> status, data |-> data]
    PROVE  q \in Request /\ q.step = "answered" /\ q.ask = ask /\ q.data = data
<1>1. q \in [step : {"answered"}, ask : Ask, status : {200, 404, 500}, data : SUBSET Position]
  OBVIOUS
<1> QED
  BY <1>1 DEF Request

LEMMA AnsweredInv ==
    ASSUME Inv, NEW r \in Requests, requests[r].step # "idle",
           NEW q \in Request, q.step = "answered", q.ask = requests[r].ask, Good(q.ask, q.data),
           requests' = [requests EXCEPT ![r] = q], UNCHANGED <<track, cache>>
    PROVE  Inv'
<1>1. q.ask \in Asks[r]
  BY InvFacts
<1>2. track' \subseteq Fixes /\ UNCHANGED cache
  BY InvFacts
<1> QED
  BY <1>1, <1>2, OneGoesOn

LEMMA NothingFacts ==
    ASSUME NEW ask \in Ask, NEW status \in {200, 404, 500},
           NEW q, q = [step |-> "answered", ask |-> ask, status |-> status, data |-> {}]
    PROVE  q \in Request /\ q.step = "answered" /\ q.ask = ask /\ Good(q.ask, q.data)
<1>1. q \in Request /\ q.step = "answered" /\ q.ask = ask /\ q.data = {}
  BY AnswerFacts
<1> QED
  BY <1>1 DEF Good

(* Back to Traccar, past the cache.                                            *)
LEMMA ToTraccar ==
    ASSUME Inv, NEW r \in Requests, At(r, "cache"),
           GoOn(r, [step |-> "traccar", ask |-> requests[r].ask]), UNCHANGED <<track, cache>>
    PROVE  Inv'
<1> DEFINE q == [step |-> "traccar", ask |-> requests[r].ask]
<1>1. requests[r].ask \in Asks[r]
  BY InvFacts DEF At
<1>2. requests[r].ask \in Ask
  BY <1>1, AskFacts
<1>3. q \in Request
  BY <1>2, ZenonT(20) DEF Request
<1>4. requests' = [requests EXCEPT ![r] = q] /\ track' \subseteq Fixes
  BY InvFacts DEF GoOn
<1>5. q.step = "traccar" /\ q.ask \in Asks[r]
  BY <1>1
<1> HIDE DEF q
<1> QED
  BY <1>3, <1>4, <1>5, OneGoesOn

(* A request ends.                                                             *)
LEMMA Ends ==
    ASSUME Inv, NEW r \in Requests, GoOn(r, Idle), UNCHANGED <<track, cache>>
    PROVE  Inv'
<1> DEFINE q == Idle
<1>1. requests' = [requests EXCEPT ![r] = q] /\ track' \subseteq Fixes
  BY InvFacts DEF GoOn
<1>2. q \in Request \cup {Idle} /\ q.step = "idle"
  BY IdleFacts
<1> HIDE DEF q
<1> QED
  BY <1>1, <1>2, OneGoesOn

-----------------------------------------------------------------------------
(* Every step keeps the invariant.                                             *)
LEMMA SendInv ==
    ASSUME Inv, NEW r \in Requests, NEW ask \in Asks[r], Send(r, ask)
    PROVE  Inv'
<1> DEFINE q == [step |-> IF Cacheable(ask) THEN "cache" ELSE "traccar", ask |-> ask]
<1>1. q \in Request
  BY AskFacts, ZenonT(30) DEF Request
<1>2. requests' = [requests EXCEPT ![r] = q] /\ UNCHANGED cache /\ track' \subseteq Fixes
  BY DEF Send, GoOn, Inv, TypeOK
<1>3. /\ q.ask = ask /\ q.step \in {"cache", "traccar"}
      /\ q.step = "cache" => Cacheable(ask)
  OBVIOUS
<1> HIDE DEF q
<1> QED
  BY <1>1, <1>2, <1>3, OneGoesOn

LEMMA ReadCacheInv ==
    ASSUME Inv, NEW r \in Requests, ReadCache(r)
    PROVE  Inv'
<1> DEFINE ask == requests[r].ask
<1>1. ask \in Asks[r] /\ Cacheable(ask)
  BY DEF ReadCache, At, Inv, TypeOK
<1>2. ask \in Keys /\ Key(ask) = ask
  BY <1>1, AskFacts
<1>3. CASE cache[ask] # None
  <2>1. cache[ask].data \in SUBSET Position /\ Good(ask, cache[ask].data)
    BY <1>2, <1>3 DEF Inv, TypeOK, Entry
  <2> DEFINE q == [step |-> "answered", ask |-> ask, status |-> 200, data |-> cache[ask].data]
  <2>2. requests' = [requests EXCEPT ![r] = q]
    BY <1>2, <1>3 DEF ReadCache, Answered, GoOn
  <2>3. requests[r].step # "idle" /\ UNCHANGED <<track, cache>>
    BY DEF ReadCache, At
  <2>4. q \in Request /\ q.step = "answered" /\ q.ask = ask /\ q.data = cache[ask].data
    BY <1>1, <2>1, AskFacts, AnswerFacts
  <2>5. Good(q.ask, q.data)
    BY <2>1, <2>4
  <2> HIDE DEF q
  <2> QED
    BY <2>2, <2>3, <2>4, <2>5, AnsweredInv
<1>4. CASE cache[ask] = None
  BY <1>2, <1>4, ToTraccar DEF ReadCache
<1> QED
  BY <1>3, <1>4

LEMMA RedisFailsInv ==
    ASSUME Inv, NEW r \in Requests, RedisFails(r)
    PROVE  Inv'
  BY ToTraccar, Ends DEF RedisFails

LEMMA TraccarAnswersInv ==
    ASSUME Inv, NEW r \in Requests, TraccarAnswers(r)
    PROVE  Inv'
<1> DEFINE ask     == requests[r].ask
           data    == Normalized(Asked(ask))
           missing == Cardinality({p \in data : ~ p.fix.address})
<1>1. ask \in Asks[r] /\ requests[r].step = "traccar"
  BY DEF TraccarAnswers, At, Inv, TypeOK
<1>2. ask \in Ask /\ Asked(ask) \in SUBSET Fixes
  BY <1>1, AskFacts, AskedFacts DEF Inv
<1>3. /\ data \in SUBSET Position
      /\ ~ Cacheable(ask) => Good(ask, data)
      /\ Apart(data) \in SUBSET Position
      /\ Good(ask, Apart(data))
  BY <1>1, FreshFacts DEF Inv
<1>4. missing \in Nat
  <2>1. IsFiniteSet(Asked(ask))
    BY <1>2, FS_Subset, PositionsAssumption
  <2>2. IsFiniteSet(data)
    <3> DEFINE f == [x \in Asked(ask) |-> [fix |-> x, shifts |-> 1]]
    <3>1. data = {f[x] : x \in Asked(ask)}
      BY <1>2, NormalizedFacts
    <3>2. f \in Surjection(Asked(ask), data)
      BY <3>1, Zenon DEF Surjection
    <3> QED
      BY <2>1, <3>2, FS_Surjection
  <2>3. IsFiniteSet({p \in data : ~ p.fix.address})
    BY <2>2, FS_Subset
  <2> QED
    BY <2>3, FS_CardinalityType
<1> HIDE DEF data, missing
<1>5. CASE Answered(r, 404, {})
  <2> DEFINE q == [step |-> "answered", ask |-> ask, status |-> 404, data |-> {}]
  <2>1. requests' = [requests EXCEPT ![r] = q] /\ UNCHANGED <<track, cache>>
    BY <1>5 DEF TraccarAnswers, Answered, GoOn
  <2>2. q \in Request /\ q.step = "answered" /\ q.ask = ask /\ Good(q.ask, q.data)
    BY <1>2, NothingFacts
  <2> HIDE DEF q
  <2> QED
    BY <1>1, <2>1, <2>2, AnsweredInv
<1>6. CASE /\ ask.url = "devices/id/positions" /\ missing > 0
           /\ GoOn(r, [step |-> "addresses", ask |-> ask, data |-> data, missing |-> missing])
  <2> DEFINE q == [step |-> "addresses", ask |-> ask, data |-> data, missing |-> missing]
  <2>1. q \in Request
    BY <1>2, <1>3, <1>4, <1>6 DEF Request
  <2>2. q.step = "addresses" /\ q.ask = ask /\ q.data = data
    OBVIOUS
  <2>3. requests' = [requests EXCEPT ![r] = q] /\ UNCHANGED cache /\ track' \subseteq Fixes
    BY <1>6 DEF GoOn, TraccarAnswers, Inv, TypeOK
  <2>4. Good(q.ask, q.data) /\ q.ask \in Asks[r]
    BY <1>1, <1>3, <1>6, <2>2 DEF Cacheable
  <2> HIDE DEF q
  <2> QED
    BY <2>1, <2>2, <2>3, <2>4, OneGoesOn
<1>7. CASE /\ Cacheable(ask)
           /\ GoOn(r, [step |-> "to store", ask |-> ask, data |-> Apart(data), read |-> Asked(ask)])
  <2> DEFINE q == [step |-> "to store", ask |-> ask, data |-> Apart(data), read |-> Asked(ask)]
  <2>1. q \in Request
    BY <1>2, <1>3, ZenonT(20) DEF Request
  <2>2. q.step = "to store" /\ q.ask = ask /\ q.data = Apart(data) /\ q.read = Asked(ask)
    OBVIOUS
  <2>3. requests' = [requests EXCEPT ![r] = q] /\ UNCHANGED cache /\ track' \subseteq Fixes
    BY <1>7 DEF GoOn, TraccarAnswers, Inv, TypeOK
  <2>4. q.data = Apart(Normalized(q.read))
    BY <2>2 DEF data
  <2>5. q.ask \in Asks[r] /\ Cacheable(q.ask) /\ Good(q.ask, q.data)
    BY <1>1, <1>3, <1>7, <2>2
  <2> HIDE DEF q
  <2> QED
    BY <2>1, <2>2, <2>3, <2>4, <2>5, OneGoesOn
<1>8. CASE ~ Cacheable(ask) /\ Answered(r, 200, data)
  <2> DEFINE q == [step |-> "answered", ask |-> ask, status |-> 200, data |-> data]
  <2>1. requests' = [requests EXCEPT ![r] = q] /\ UNCHANGED <<track, cache>>
    BY <1>8 DEF TraccarAnswers, Answered, GoOn
  <2>2. q \in Request /\ q.step = "answered" /\ q.ask = ask /\ q.data = data
    BY <1>2, <1>3, AnswerFacts
  <2>3. Good(q.ask, q.data)
    BY <1>3, <1>8, <2>2
  <2> HIDE DEF q
  <2> QED
    BY <1>1, <2>1, <2>2, <2>3, AnsweredInv
<1> QED
  BY <1>5, <1>6, <1>7, <1>8 DEF TraccarAnswers, data, missing

LEMMA FailsInv ==
    ASSUME Inv, NEW r \in Requests, TraccarFails(r) \/ AddressFails(r)
    PROVE  Inv'
<1>1. requests[r].step # "idle" /\ UNCHANGED <<track, cache>>
  BY DEF TraccarFails, AddressFails, At
<1>2. PICK status \in {404, 500} : Answered(r, status, {})
  BY DEF TraccarFails, AddressFails
<1> DEFINE q == [step |-> "answered", ask |-> requests[r].ask, status |-> status, data |-> {}]
<1>3. requests' = [requests EXCEPT ![r] = q]
  BY <1>2 DEF Answered, GoOn
<1>4. requests[r].ask \in Ask
  BY <1>1, InvFacts, AskFacts
<1>5. q \in Request /\ q.step = "answered" /\ q.ask = requests[r].ask /\ Good(q.ask, q.data)
  <2>1. status \in {200, 404, 500}
    OBVIOUS
  <2> HIDE DEF q
  <2>2. q = [step |-> "answered", ask |-> requests[r].ask, status |-> status, data |-> {}]
    BY DEF q
  <2> QED
    BY <1>4, <2>1, <2>2, NothingFacts
<1> HIDE DEF q
<1> QED
  BY <1>1, <1>3, <1>5, AnsweredInv, ZenonT(20)

LEMMA AddressFoundInv ==
    ASSUME Inv, NEW r \in Requests, AddressFound(r)
    PROVE  Inv'
<1> DEFINE p == requests[r]
<1>1. p \in [step : {"addresses"}, ask : Ask, data : SUBSET Position, missing : Nat \ {0}]
  <2>1. p.step = "addresses" /\ p \in Request \cup {Idle}
    BY InvFacts DEF AddressFound, At
  <2> QED
    BY <2>1, RequestFacts
<1>2. p.ask \in Asks[r] /\ Good(p.ask, p.data)
  BY <1>1 DEF Inv, TypeOK, At
<1>3. CASE p.missing > 1
  <2> DEFINE q == [p EXCEPT !.missing = @ - 1]
  <2>1. q \in Request /\ q.step = "addresses" /\ q.ask = p.ask /\ q.data = p.data
    <3>1. p.missing - 1 \in Nat \ {0}
      BY <1>1, <1>3
    <3>3. q \in [step : {"addresses"}, ask : Ask, data : SUBSET Position, missing : Nat \ {0}]
      BY <1>1, <3>1
    <3>2. q.step = "addresses" /\ q.ask = p.ask /\ q.data = p.data
      BY <1>1
    <3> QED
      BY <3>2, <3>3, ZenonT(30) DEF Request
  <2>2. requests' = [requests EXCEPT ![r] = q] /\ UNCHANGED cache /\ track' \subseteq Fixes
    BY <1>3, InvFacts DEF AddressFound, GoOn
  <2> HIDE DEF q
  <2> QED
    BY <1>2, <2>1, <2>2, OneGoesOn
<1>4. CASE ~ (p.missing > 1)
  <2> DEFINE q == [step |-> "answered", ask |-> p.ask, status |-> 200, data |-> p.data]
  <2>1. requests' = [requests EXCEPT ![r] = q] /\ UNCHANGED <<track, cache>>
    BY <1>4 DEF AddressFound, Answered, GoOn
  <2>2. p.data \in SUBSET Position /\ p.step # "idle"
    BY <1>1
  <2>3. q \in Request /\ q.step = "answered" /\ q.ask = p.ask /\ q.data = p.data
    BY <1>1, <2>2, AnswerFacts
  <2>4. Good(q.ask, q.data)
    BY <1>2, <2>3
  <2> HIDE DEF q
  <2> QED
    BY <2>1, <2>2, <2>3, <2>4, AnsweredInv
<1> QED
  BY <1>3, <1>4

LEMMA StoreInv ==
    ASSUME Inv, NEW r \in Requests, Store(r)
    PROVE  Inv'
<1> DEFINE ask   == requests[r].ask
           entry == [data |-> requests[r].data, ttl |-> TRUE]
<1>1. ask \in Asks[r] /\ Cacheable(ask) /\ Good(ask, requests[r].data)
  BY DEF Store, At, Inv, TypeOK
<1>2. ask \in Keys /\ Key(ask) = ask
  BY <1>1, AskFacts
<1>3. requests[r].data \in SUBSET Position
  <2>1. requests[r].step = "to store" /\ requests[r] \in Request \cup {Idle}
    BY InvFacts DEF Store, At
  <2> QED
    BY <2>1, RequestFacts
<1>4. entry \in Entry /\ entry.data = requests[r].data
  BY <1>3 DEF Entry
<1>5. /\ cache' = [cache EXCEPT ![ask] = entry]
      /\ requests' = [requests EXCEPT ![r] = Idle] /\ UNCHANGED track
  BY <1>2 DEF Store, GoOn
<1> HIDE DEF entry
<1>6. TypeOK'
  BY <1>2, <1>4, <1>5, IdleFacts DEF Inv, TypeOK
<1>7. ASSUME NEW k \in Keys, cache'[k] # None PROVE Good(k, cache'[k].data)
  BY <1>1, <1>2, <1>4, <1>5, <1>7 DEF Inv, TypeOK
<1>8. ASSUME NEW x \in Requests
      PROVE  /\ At(x, "addresses")' => Good(requests'[x].ask, requests'[x].data)
             /\ At(x, "answered")' => Good(requests'[x].ask, requests'[x].data)
             /\ At(x, "to store")' =>
                   /\ Good(requests'[x].ask, requests'[x].data)
                   /\ requests'[x].data = Apart(Normalized(requests'[x].read))
  BY <1>5, IdleFacts DEF Inv, TypeOK, At
<1> QED
  BY <1>6, <1>7, <1>8 DEF Inv

LEMMA ExpireInv ==
    ASSUME Inv, NEW k \in Keys, Expire(k)
    PROVE  Inv'
<1>1. TypeOK'
  BY DEF Expire, Inv, TypeOK
<1>2. (\A x \in Keys : cache[x] # None => Good(x, cache[x].data))'
  BY DEF Expire, Inv, TypeOK
<1> QED
  BY <1>1, <1>2 DEF Expire, Inv, At

LEMMA RecordsInv ==
    ASSUME Inv, NEW f \in Fixes, TraccarRecords(f)
    PROVE  Inv'
<1>1. TypeOK'
  BY DEF TraccarRecords, Inv, TypeOK
<1> QED
  BY <1>1 DEF TraccarRecords, Inv, At

LEMMA NextInv == Inv /\ [Next]_vars => Inv'
<1> SUFFICES ASSUME Inv, [Next]_vars PROVE Inv'
  OBVIOUS
<1>1. CASE UNCHANGED vars
  BY <1>1 DEF vars, Inv, TypeOK, At
<1>2. ASSUME NEW r \in Requests, Continue(r) PROVE Inv'
  <2>1. CASE Close(r)
    BY <2>1, Ends DEF Close
  <2> QED
    BY <1>2, <2>1, ReadCacheInv, RedisFailsInv, TraccarAnswersInv, FailsInv, AddressFoundInv,
       StoreInv DEF Continue
<1>3. ASSUME NEW r \in Requests, NEW ask \in Asks[r], Send(r, ask) PROVE Inv'
  BY <1>3, SendInv
<1> QED
  BY <1>1, <1>2, <1>3, ExpireInv, RecordsInv DEF Next

-----------------------------------------------------------------------------
(* Whatever is on its way out is good.                                         *)
LEMMA OutIsGood ==
    ASSUME Inv, NEW r \in Requests, Out(r)
    PROVE  Good(requests[r].ask, requests[r].data)
  BY DEF Inv, Out

LEMMA AlwaysInv == Spec => []Inv
  BY InitInv, NextInv, PTL DEF Spec

(* Types, for any number of requests and positions.                            *)
THEOREM TypeCorrect == Spec => []TypeOK
<1>1. Inv => TypeOK
  BY DEF Inv
<1> QED
  BY <1>1, AlwaysInv, PTL

(* No path to a client shifts a time twice, or not at all.                     *)
THEOREM TimesShiftedOnce == Spec => []ShiftedOnce
<1>1. ASSUME Inv, NEW r \in Requests, Out(r) PROVE \A p \in requests[r].data : p.shifts = 1
  BY <1>1, OutIsGood DEF Good
<1>2. Inv => ShiftedOnce
  BY <1>1 DEF ShiftedOnce
<1> QED
  BY <1>2, AlwaysInv, PTL

(* Past positions answered, cached or not, are pairwise apart.                 *)
THEOREM PastIsApart == Spec => []PastPairwiseApart
<1>1. ASSUME Inv, NEW r \in Requests, Out(r), Cacheable(requests[r].ask)
      PROVE  \A p, q \in requests[r].data : p # q => ~ AreAround(p.fix, q.fix)
  BY <1>1, OutIsGood DEF Good
<1>2. Inv => PastPairwiseApart
  BY <1>1 DEF PastPairwiseApart
<1> QED
  BY <1>2, AlwaysInv, PTL

(* The filter takes no stretch out altogether: the earliest position of it     *)
(* stays.                                                                     *)
THEOREM StretchesStay == Spec => []NoStretchVanishes
<1>1. Inv => NoStretchVanishes
  <2> SUFFICES ASSUME Inv, NEW r \in Requests, At(r, "to store"),
                      NEW S \in SUBSET requests[r].read, S # {},
                      \A f \in S, g \in requests[r].read \ S : ~ AreAround(f, g)
               PROVE  \E p \in requests[r].data : p.fix \in S
    BY DEF NoStretchVanishes
  <2>1. requests[r].read \in SUBSET Fixes
    <3>1. requests[r].step = "to store" /\ requests[r] \in Request \cup {Idle}
      BY InvFacts DEF At
    <3> QED
      BY <3>1, RequestFacts
  <2>2. requests[r].data = Apart(Normalized(requests[r].read))
    BY DEF Inv
  <2> QED
    BY <2>1, <2>2, EarliestStays
<1> QED
  BY <1>1, AlwaysInv, PTL

(* What is answered, from whatever request's entry, belongs to what was asked. *)
THEOREM AnswersBelong == Spec => []AnswersFit
<1>1. ASSUME Inv, NEW r \in Requests, Out(r)
      PROVE  \A p \in requests[r].data : Belongs(requests[r].ask, p.fix)
  BY <1>1, OutIsGood DEF Good
<1>2. Inv => AnswersFit
  BY <1>1 DEF AnswersFit, Belongs
<1> QED
  BY <1>2, AlwaysInv, PTL
-----------------------------------------------------------------------------
(* Old data leaves the cache. *)

(* A request can go on whenever it is under way, and an entry can expire: of   *)
(* these two facts about ENABLED the proofs below make hypotheses.             *)
CanGoOn(r) == [](~ At(r, "idle") => ENABLED <<Continue(r)>>_vars)
Empty(k)   == cache[k] = None
CanGo(k)   == [](~ Empty(k) => ENABLED <<Expire(k)>>_vars)

(* What would be answered now, were it not cached.                             *)
Now(ask) == Apart(Normalized(Asked(ask)))

Current(k)  == Empty(k) \/ cache[k].data = Now(k)
HoldsOld(r) == At(r, "to store") /\ requests[r].data # Now(requests[r].ask)

NothingRecorded == UNCHANGED track

LEMMA NowStays ==
    ASSUME NothingRecorded, NEW ask
    PROVE  Now(ask)' = Now(ask)
<1>1. Asked(ask)' = Asked(ask)
  BY DEF NothingRecorded, Asked
<1> QED
  BY <1>1 DEF Now, Apart, Normalized, Earlier

LEMMA OthersStay ==
    ASSUME Inv, [Next]_vars, NEW r \in Requests
    PROVE  Continue(r) \/ (\E ask \in Asks[r] : Send(r, ask)) \/ requests'[r] = requests[r]
<1>1. CASE UNCHANGED vars
  BY <1>1 DEF vars
<1>2. ASSUME NEW x \in Requests, x # r, Continue(x) \/ \E ask \in Asks[x] : Send(x, ask)
      PROVE  requests'[r] = requests[r]
  <2>1. \E q : requests' = [requests EXCEPT ![x] = q]
    <3>1. CASE \E ask \in Asks[x] : Send(x, ask)
      BY <3>1 DEF Send, GoOn
    <3>2. CASE ReadCache(x) \/ RedisFails(x)
      BY <3>2 DEF ReadCache, RedisFails, Answered, GoOn
    <3>3. CASE TraccarAnswers(x)
      BY <3>3, Zenon DEF TraccarAnswers, Answered, GoOn
    <3>4. CASE TraccarFails(x) \/ AddressFails(x)
      BY <3>4 DEF TraccarFails, AddressFails, Answered, GoOn
    <3>5. CASE AddressFound(x)
      BY <3>5, Zenon DEF AddressFound, Answered, GoOn
    <3>6. CASE Store(x) \/ Close(x)
      BY <3>6 DEF Store, Close, GoOn
    <3> QED
      BY <1>2, <3>1, <3>2, <3>3, <3>4, <3>5, <3>6 DEF Continue
  <2> QED
    BY <1>2, <2>1 DEF Inv, TypeOK
<1>3. (\E k \in Keys : Expire(k)) \/ (\E f \in Fixes : TraccarRecords(f)) => requests' = requests
  BY DEF Expire, TraccarRecords
<1> QED
  BY <1>1, <1>2, <1>3 DEF Next

(* What is read while Traccar records nothing is what would be answered now.   *)
LEMMA ReadIsNow ==
    ASSUME Inv, [Next]_vars, NothingRecorded, NEW r \in Requests, HoldsOld(r)'
    PROVE  HoldsOld(r) /\ ~ Continue(r)
<1>1. ASSUME NEW q, GoOn(r, q) PROVE requests'[r] = q
  BY <1>1 DEF GoOn, Inv, TypeOK
<1>2. PICK new : new = requests'[r]
  OBVIOUS
<1>3. new.step = "to store" /\ new.data # Now(new.ask)'
  BY <1>2 DEF HoldsOld, At
<1>4. new.data # Now(new.ask)
  BY <1>3, NowStays
<1>5. ASSUME Continue(r) PROVE FALSE
  <2>1. ASSUME NEW q, GoOn(r, q) PROVE q.step = "to store" /\ q.data # Now(q.ask)
    BY <1>1, <1>2, <1>3, <1>4, <2>1
  <2>2. ASSUME NEW status, NEW data, Answered(r, status, data) PROVE FALSE
    <3> DEFINE q == [step |-> "answered", ask |-> requests[r].ask, status |-> status,
                     data |-> data]
    <3>1. GoOn(r, q)
      BY <2>2 DEF Answered
    <3>2. q.step = "answered"
      OBVIOUS
    <3> HIDE DEF q
    <3> QED
      BY <2>1, <3>1, <3>2
  <2>3. ASSUME NEW ask, GoOn(r, [step |-> "traccar", ask |-> ask]) PROVE FALSE
    <3> DEFINE q == [step |-> "traccar", ask |-> ask]
    <3>1. GoOn(r, q)
      BY <2>3
    <3>2. q.step = "traccar"
      OBVIOUS
    <3> HIDE DEF q
    <3> QED
      BY <2>1, <3>1, <3>2
  <2>4. ~ GoOn(r, Idle)
    BY <2>1, IdleFacts
  <2>5. ~ ReadCache(r)
    BY <2>2, <2>3 DEF ReadCache
  <2>6. ~ RedisFails(r)
    BY <2>3, <2>4 DEF RedisFails
  <2>7. ~ TraccarAnswers(r)
    <3> SUFFICES ASSUME TraccarAnswers(r) PROVE FALSE
      OBVIOUS
    <3> DEFINE ask == requests[r].ask
               looks == [step |-> "addresses", ask |-> ask, data |-> Normalized(Asked(ask)),
                         missing |-> Cardinality({p \in Normalized(Asked(ask)) : ~ p.fix.address})]
               stores == [step |-> "to store", ask |-> ask, data |-> Now(ask), read |-> Asked(ask)]
    <3>1. ~ GoOn(r, looks)
      <4>1. looks.step = "addresses"
        OBVIOUS
      <4> HIDE DEF looks
      <4> QED
        BY <2>1, <4>1
    <3>2. stores.ask = ask /\ stores.data = Now(ask)
      OBVIOUS
    <3>3. ~ GoOn(r, stores)
      BY <2>1, <3>2
    <3> QED
      BY <2>2, <3>1, <3>3, Zenon DEF TraccarAnswers, Now
  <2>8. ~ AddressFound(r)
    <3> SUFFICES ASSUME AddressFound(r) PROVE FALSE
      OBVIOUS
    <3> DEFINE p == requests[r]
               q == [p EXCEPT !.missing = @ - 1]
    <3>1. p.step = "addresses" /\ p \in Request \cup {Idle}
      BY DEF AddressFound, At, Inv, TypeOK
    <3>2. p \in [step : {"addresses"}, ask : Ask, data : SUBSET Position, missing : Nat \ {0}]
      BY <3>1, RequestFacts
    <3>3. q.step = "addresses"
      BY <3>2
    <3>4. ~ GoOn(r, q)
      BY <2>1, <3>3
    <3> QED
      BY <2>2, <3>4, Zenon DEF AddressFound
  <2>9. ~ TraccarFails(r) /\ ~ AddressFails(r)
    BY <2>2 DEF TraccarFails, AddressFails
  <2>10. ~ Store(r) /\ ~ Close(r)
    BY <2>4 DEF Store, Close
  <2> QED
    BY <1>5, <2>5, <2>6, <2>7, <2>8, <2>9, <2>10 DEF Continue
<1>6. ASSUME NEW ask \in Asks[r], Send(r, ask) PROVE FALSE
  <2> DEFINE q == [step |-> IF Cacheable(ask) THEN "cache" ELSE "traccar", ask |-> ask]
  <2>1. requests'[r] = q
    BY <1>1, <1>6 DEF Send
  <2>2. q.step \in {"cache", "traccar"}
    OBVIOUS
  <2> QED
    BY <1>2, <1>3, <2>1, <2>2
<1>7. requests'[r] = requests[r]
  BY <1>5, <1>6, OthersStay
<1> QED
  BY <1>2, <1>3, <1>4, <1>5, <1>7 DEF HoldsOld, At

LEMMA RequestsGoOn ==
    ASSUME NEW r \in Requests
    PROVE  Spec => GoesOn(r)
  BY DEF Spec, Fairness

LEMMA EntriesGo ==
    ASSUME NEW k \in Keys
    PROVE  Spec => GoesAway(k)
  BY DEF Spec, Fairness

(* Once Traccar records nothing more, no request is left with older data to    *)
(* store, and none gets any (redis-cache.interceptor.ts).                      *)
THEOREM OldReadsEnd ==
    ASSUME NEW r \in Requests
    PROVE  Spec /\ CanGoOn(r) /\ <>[][NothingRecorded]_vars => <>[]~HoldsOld(r)
<1> DEFINE Holds == HoldsOld(r)
           Free  == At(r, "idle")
<1>1. Inv /\ [Next]_vars /\ [NothingRecorded]_vars => (Holds' => Holds)
  BY ReadIsNow DEF vars, NothingRecorded
<1>2. Inv /\ [Next]_vars /\ [NothingRecorded]_vars /\ <<Continue(r)>>_vars => ~ Holds'
  BY ReadIsNow DEF vars, NothingRecorded
<1>3. Holds => ~ Free
  BY DEF HoldsOld, At
<1> HIDE DEF Holds, Free
<1>4. CanGoOn(r) /\ GoesOn(r) => []<>Free \/ []<><<Continue(r)>>_vars
  BY PTL DEF CanGoOn, GoesOn, Free
<1>5. Spec /\ CanGoOn(r) /\ <>[][NothingRecorded]_vars => <>[]~Holds
  BY <1>1, <1>2, <1>3, <1>4, AlwaysInv, RequestsGoOn, PTL DEF Spec
<1> QED
  BY <1>5 DEF Holds

LEMMA EntryStays ==
    ASSUME Inv, [Next]_vars, NothingRecorded, NEW k \in Keys, ~ Current(k)',
           \A r \in Requests : ~ HoldsOld(r)
    PROVE  ~ Current(k) /\ ~ Expire(k)
<1>1. cache'[k] # None /\ cache'[k].data # Now(k)
  BY NowStays DEF Current, Empty
<1>2. ASSUME NEW x \in Keys, Expire(x) PROVE x # k /\ cache'[k] = cache[k]
  BY <1>1, <1>2 DEF Expire, Inv, TypeOK
<1>3. ASSUME NEW r \in Requests, Store(r) PROVE cache'[k] = cache[k]
  <2> DEFINE ask == requests[r].ask
             entry == [data |-> requests[r].data, ttl |-> TRUE]
  <2>1. requests[r].data = Now(ask)
    BY <1>3 DEF Store, HoldsOld
  <2>2. ask \in Asks[r] /\ Cacheable(ask)
    BY <1>3 DEF Store, At, Inv, TypeOK
  <2>3. Key(ask) = ask
    BY <2>2, AskFacts
  <2>4. cache' = [cache EXCEPT ![ask] = entry]
    BY <1>3, <2>3 DEF Store
  <2>5. ask # k
    BY <1>1, <2>1, <2>4 DEF Inv, TypeOK
  <2> QED
    BY <2>4, <2>5 DEF Inv, TypeOK
<1>4. ASSUME NEW r \in Requests, Continue(r) PROVE Store(r) \/ cache' = cache
  BY <1>4 DEF Continue, ReadCache, RedisFails, TraccarAnswers, TraccarFails, AddressFound,
     AddressFails, Close
<1>5. cache'[k] = cache[k]
  BY <1>2, <1>3, <1>4 DEF Next, vars, Send, TraccarRecords
<1> QED
  BY <1>1, <1>2, <1>5 DEF Current, Empty

(* And once none is left, an entry that says other than Traccar goes, and no   *)
(* other comes in its place: what is cached is what would be answered now.     *)
THEOREM OldEntriesGo ==
    ASSUME NEW k \in Keys
    PROVE  Spec /\ CanGo(k) /\ <>[][NothingRecorded]_vars
                /\ <>[](\A r \in Requests : ~ HoldsOld(r))
           => <>[](cache[k] # None => cache[k].data = Apart(Normalized(Asked(k))))
<1> DEFINE Good1 == Current(k)
           None1 == Empty(k)
           Clear == \A r \in Requests : ~ HoldsOld(r)
<1>1. Inv /\ [Next]_vars /\ [NothingRecorded]_vars /\ Clear => (Good1 => Good1')
  BY EntryStays DEF vars, NothingRecorded
<1>2. Inv /\ [Next]_vars /\ [NothingRecorded]_vars /\ Clear /\ <<Expire(k)>>_vars => Good1'
  BY EntryStays DEF vars, NothingRecorded
<1>3. None1 => Good1
  BY DEF Current
<1>4. Good1 => (cache[k] # None => cache[k].data = Apart(Normalized(Asked(k))))
  BY DEF Current, Now, Empty
<1> HIDE DEF Good1, None1, Clear
<1>5. CanGo(k) /\ GoesAway(k) => []<>None1 \/ []<><<Expire(k)>>_vars
  BY PTL DEF CanGo, GoesAway, None1
<1>6. Spec /\ CanGo(k) /\ <>[][NothingRecorded]_vars /\ <>[]Clear => <>[]Good1
  BY <1>1, <1>2, <1>3, <1>5, AlwaysInv, EntriesGo, PTL DEF Spec
<1>7. Spec /\ CanGo(k) /\ <>[][NothingRecorded]_vars /\ <>[]Clear
      => <>[](cache[k] # None => cache[k].data = Apart(Normalized(Asked(k))))
  BY <1>4, <1>6, PTL
<1> QED
  BY <1>7 DEF Clear
=============================================================================
