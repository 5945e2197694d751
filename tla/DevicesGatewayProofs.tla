------------------------ MODULE DevicesGatewayProofs ------------------------
(***************************************************************************)
(* Theorems about DevicesGateway, for any clients, devices, calls in flight *)
(* and messages.                                                            *)
(***************************************************************************)
EXTENDS DevicesGateway, SequenceTheorems, WellFoundedInduction, TLAPS

(***************************************************************************)
(* What the operators on insertion-ordered Sets return.  A JavaScript Set   *)
(* is modelled as the sequence of its elements without repetitions.         *)
(***************************************************************************)
(* A non-empty set of positions has a least one. *)
LEMMA LeastPosition ==
    ASSUME NEW n \in Nat, NEW I \in SUBSET (1..n), I # {}
    PROVE  /\ Min(I) \in I
           /\ \A i \in I : Min(I) <= i
<1>1. PICK m \in I : \A i \in I : <<i, m>> \notin OpToRel(<, Nat)
  <2>1. I \subseteq Nat
    OBVIOUS
  <2> QED
    BY <2>1, WFMin, NatLessThanWellFounded, Zenon
<1>2. \A i \in I : i \in Nat
  OBVIOUS
<1>3. ASSUME NEW i \in I PROVE ~ (i < m)
  <2>1. i \in Nat /\ m \in Nat
    BY <1>2
  <2> QED
    BY <1>1, <2>1, Zenon DEF OpToRel
<1> QED
  <2>1. m \in I /\ \A i \in I : m =< i
    BY <1>2, <1>3
  <2> QED
    BY <2>1, Zenon DEF Min

(* RemoveAt shortens the sequence by the element at the position. *)
LEMMA RemoveAtFacts ==
    ASSUME NEW S, NEW s \in Seq(S), NEW p \in 1..Len(s)
    PROVE  /\ RemoveAt(s, p) \in Seq(S)
           /\ Len(RemoveAt(s, p)) = Len(s) - 1
           /\ \A j \in 1..Len(s) - 1 : RemoveAt(s, p)[j] = IF j < p THEN s[j] ELSE s[j + 1]
<1> DEFINE l == SubSeq(s, 1, p - 1)
           r == SubSeq(s, p + 1, Len(s))
<1>1. l \in Seq(S) /\ Len(l) = p - 1 /\ \A j \in 1..p - 1 : l[j] = s[j]
  BY SubSeqProperties
<1>2. /\ r \in Seq(S) /\ Len(r) = Len(s) - p
      /\ \A j \in 1..Len(s) - p : r[j] = s[p + j]
  BY SubSeqProperties
<1>3. RemoveAt(s, p) = l \o r
  BY DEF RemoveAt
<1> HIDE DEF l, r
<1>4. /\ l \o r \in Seq(S) /\ Len(l \o r) = Len(l) + Len(r)
      /\ \A j \in 1..Len(l) + Len(r) : (l \o r)[j] = IF j <= Len(l) THEN l[j] ELSE r[j - Len(l)]
  BY <1>1, <1>2, ConcatProperties
<1>5. ASSUME NEW j \in 1..Len(s) - 1
      PROVE  RemoveAt(s, p)[j] = IF j < p THEN s[j] ELSE s[j + 1]
  <2>1. CASE j < p
    BY <1>1, <1>2, <1>3, <1>4, <2>1
  <2>2. CASE p <= j
    <3>1. j - (p - 1) \in 1..Len(s) - p /\ p + (j - (p - 1)) = j + 1
      BY <2>2
    <3>2. (l \o r)[j] = r[j - (p - 1)]
      BY <1>1, <1>2, <1>4, <2>2
    <3>3. r[j - (p - 1)] = s[j + 1]
      <4>1. r[j - (p - 1)] = s[p + (j - (p - 1))]
        BY <1>2, <3>1, Zenon
      <4> QED
        BY <3>1, <4>1, Zenon
    <3>4. ~ j < p
      BY <2>2
    <3> QED
      BY <1>3, <3>2, <3>3, <3>4, Zenon
  <2> QED
    BY <2>1, <2>2
<1> QED
  BY <1>1, <1>2, <1>3, <1>4, <1>5

(* Set.prototype.delete: the element goes, the others stay in their order.  *)
LEMMA SetDelete ==
    ASSUME NEW S, NEW s \in Seq(S), NEW c
    PROVE  /\ RemoveFirst(s, c) \in Seq(S)
           /\ ToSet(s) \ {c} \subseteq ToSet(RemoveFirst(s, c))
           /\ ToSet(RemoveFirst(s, c)) \subseteq ToSet(s)
           /\ IsInjective(s) => /\ IsInjective(RemoveFirst(s, c))
                                /\ ToSet(RemoveFirst(s, c)) = ToSet(s) \ {c}
<1>1. CASE \E i \in 1..Len(s) : s[i] = c
  <2> DEFINE I == {i \in 1..Len(s) : s[i] = c}
             p == Min(I)
             t == RemoveAt(s, p)
  <2>1. RemoveFirst(s, c) = t
    BY <1>1 DEF RemoveFirst, SelectInSeq
  <2>2. p \in 1..Len(s) /\ s[p] = c
    <3>1. Len(s) \in Nat /\ I \in SUBSET (1..Len(s)) /\ I # {}
      BY <1>1
    <3>2. p \in I
      BY <3>1, LeastPosition
    <3> QED
      BY <3>2
  <2> HIDE DEF p
  <2>3. /\ t \in Seq(S) /\ Len(t) = Len(s) - 1
        /\ \A j \in 1..Len(s) - 1 : t[j] = IF j < p THEN s[j] ELSE s[j + 1]
    BY <2>2, RemoveAtFacts
  <2> HIDE DEF t
  <2>4. ASSUME NEW x \in ToSet(s), x # c PROVE x \in ToSet(t)
    <3>1. PICK i \in 1..Len(s) : s[i] = x
      BY DEF ToSet
    <3>2. i # p
      BY <2>2, <2>4, <3>1
    <3>3. CASE i < p
      BY <2>2, <2>3, <3>1, <3>3 DEF ToSet
    <3>4. CASE i > p
      <4>1. i - 1 \in 1..Len(s) - 1 /\ t[i - 1] = s[i]
        BY <2>2, <2>3, <3>1, <3>4
      <4> QED
        BY <2>3, <3>1, <4>1 DEF ToSet
    <3> QED
      BY <2>2, <3>1, <3>2, <3>3, <3>4
  <2>5. ToSet(t) \subseteq ToSet(s)
    BY <2>2, <2>3 DEF ToSet
  <2>6. ASSUME IsInjective(s) PROVE IsInjective(t) /\ c \notin ToSet(t)
    <3>1. \A a, b \in 1..Len(s) : s[a] = s[b] => a = b
      BY <2>6 DEF IsInjective
    <3>2. IsInjective(t)
      BY <2>2, <2>3, <3>1 DEF IsInjective
    <3>3. c \notin ToSet(t)
      BY <2>2, <2>3, <3>1 DEF ToSet
    <3> QED
      BY <3>2, <3>3
  <2> QED
    BY <2>1, <2>3, <2>4, <2>5, <2>6
<1>2. CASE ~ \E i \in 1..Len(s) : s[i] = c
  <2>1. RemoveFirst(s, c) = s
    BY <1>2 DEF RemoveFirst
  <2>2. c \notin ToSet(s)
    BY <1>2 DEF ToSet
  <2> QED
    BY <2>1, <2>2
<1> QED
  BY <1>1, <1>2

(* Set.prototype.add of a new element: it goes to the end. *)
LEMMA SetInsert ==
    ASSUME NEW S, NEW s \in Seq(S), NEW c \in S
    PROVE  /\ Append(s, c) \in Seq(S)
           /\ ToSet(Append(s, c)) = ToSet(s) \cup {c}
           /\ IsInjective(s) /\ c \notin ToSet(s) => IsInjective(Append(s, c))
<1>1. Append(s, c) \in Seq(S)
  OBVIOUS
<1>2. ToSet(Append(s, c)) = ToSet(s) \cup {c}
  <2>1. ASSUME NEW x \in ToSet(s) PROVE x \in ToSet(Append(s, c))
    BY DEF ToSet
  <2>2. c \in ToSet(Append(s, c))
    BY DEF ToSet
  <2>3. ToSet(Append(s, c)) \subseteq ToSet(s) \cup {c}
    BY DEF ToSet
  <2> QED
    BY <2>1, <2>2, <2>3
<1>3. ASSUME IsInjective(s), c \notin ToSet(s) PROVE IsInjective(Append(s, c))
  BY <1>3 DEF IsInjective, ToSet
<1> QED
  BY <1>1, <1>2, <1>3

(* What an iterator at position p has still to visit. *)
LEMMA SetRest ==
    ASSUME NEW S, NEW s \in Seq(S), NEW p \in 1..Len(s)
    PROVE  /\ SubSeq(s, p + 1, Len(s)) \in Seq(S)
           /\ ToSet(SubSeq(s, p + 1, Len(s))) = {s[j] : j \in p + 1..Len(s)}
           /\ IsInjective(s) => IsInjective(SubSeq(s, p + 1, Len(s)))
<1> DEFINE r == SubSeq(s, p + 1, Len(s))
<1>1. /\ r \in Seq(S) /\ Len(r) = Len(s) - p
      /\ \A j \in 1..Len(s) - p : r[j] = s[p + j]
  BY SubSeqProperties
<1> HIDE DEF r
<1>2. ASSUME NEW j \in p + 1..Len(s) PROVE s[j] \in ToSet(r)
  <2>1. j - p \in 1..Len(s) - p /\ p + (j - p) = j
    OBVIOUS
  <2>2. r[j - p] = s[j] /\ j - p \in DOMAIN r
    BY <1>1, <2>1
  <2> QED
    BY <2>2 DEF ToSet
<1>3. ASSUME NEW j \in 1..Len(r) PROVE r[j] \in {s[i] : i \in p + 1..Len(s)}
  <2>1. r[j] = s[p + j] /\ p + j \in p + 1..Len(s)
    BY <1>1
  <2> QED
    BY <2>1
<1>4. ToSet(r) = {s[j] : j \in p + 1..Len(s)}
  <2>1. ToSet(r) \subseteq {s[j] : j \in p + 1..Len(s)}
    BY <1>1, <1>3 DEF ToSet
  <2> QED
    BY <1>2, <2>1
<1>5. ASSUME IsInjective(s) PROVE IsInjective(r)
  <2>1. \A a, b \in 1..Len(s) : s[a] = s[b] => a = b
    BY <1>5 DEF IsInjective
  <2>2. ASSUME NEW a \in 1..Len(s) - p, NEW b \in 1..Len(s) - p, r[a] = r[b] PROVE a = b
    <3>1. p + a \in 1..Len(s) /\ p + b \in 1..Len(s)
      OBVIOUS
    <3>2. s[p + a] = s[p + b]
      BY <1>1, <2>2
    <3> QED
      BY <2>1, <3>1, <3>2
  <2>3. DOMAIN r = 1..Len(s) - p
    BY <1>1
  <2> QED
    BY <2>2, <2>3 DEF IsInjective
<1> QED
  BY <1>1, <1>4, <1>5 DEF r

-----------------------------------------------------------------------------

(* A device is a name: the number printed in decimal.                       *)
USE DEF Names

(* An id names an entry; one that is a number names its device's.           *)
LEMMA IdIs ==
    ASSUME NEW id \in Id
    PROVE  /\ NameOf(id) \in Names
           /\ ~ IsString(id) => id = <<"number", NameOf(id)>> /\ NameOf(id) \in Devices
           /\ IsString(id) => id[1] = "string"
  BY DEF Id, NameOf, IsString

(* parseInt reads a name as a device, a device as itself. *)
LEMMA NumberIs ==
    ASSUME NEW n \in Names
    PROVE  Number(n) \in Devices /\ (n \in Devices => Number(n) = n)
  BY GatewayAssumption DEF Number

(* The part of the state that Enlist, Unlist and RunOn change. *)
RegistryOK ==
    /\ DOMAIN deviceSubscriptions \subseteq Names
    /\ deviceSubscriptions \in [DOMAIN deviceSubscriptions -> IdSet]
    /\ since \in [Clients -> [Names -> 0..MaxMessages]]

FilterOK == subscribedDevices \in SUBSET Id /\ strung \in SUBSET Devices

BroadcastsOK == broadcasts \in [Messages -> Broadcast \cup {Finished}]

(* Looking a device up gives a Set, empty when it has no entry. *)
LEMMA SocketIdsTyped ==
    ASSUME TypeOK, NEW d \in Names
    PROVE  SocketIds(d) \in IdSet
<1>1. <<>> \in IdSet
  BY DEF IdSet, IsInjective
<1> QED
  BY <1>1 DEF SocketIds, TypeOK

(* Contains and ToSet speak of the same members. *)
LEMMA Members ==
    ASSUME NEW S, NEW s \in Seq(S), NEW c
    PROVE  Contains(s, c) <=> c \in ToSet(s)
  BY DEF Contains, ToSet

(* Enlist keeps the tables and the broadcasts well formed. *)
LEMMA EnlistTyped ==
    ASSUME TypeOK, NEW c \in Clients, NEW id \in Id, Enlist(c, id)
    PROVE  RegistryOK' /\ FilterOK' /\ BroadcastsOK'
<1> USE GatewayAssumption
<1> DEFINE d == NameOf(id)
<1>0. d \in Names
  BY IdIs
<1>1. SocketIds(d) \in IdSet
  BY <1>0, SocketIdsTyped
<1>2. SetAdd(SocketIds(d), c) \in IdSet
  <2>1. CASE Contains(SocketIds(d), c)
    BY <1>1, <2>1 DEF SetAdd
  <2>2. CASE ~ Contains(SocketIds(d), c)
    BY <1>1, <2>2, SetInsert, Members DEF SetAdd, IdSet
  <2> QED
    BY <2>1, <2>2
<1>3. /\ DOMAIN deviceSubscriptions' \subseteq Names
      /\ deviceSubscriptions' \in [DOMAIN deviceSubscriptions' -> IdSet]
  BY <1>0, <1>2 DEF Enlist, TypeOK
<1>4. FilterOK'
  BY <1>0 DEF Enlist, TypeOK, FilterOK
<1>5. since' \in [Clients -> [Names -> 0..MaxMessages]]
  BY <1>0 DEF Enlist, TypeOK
<1>6. ASSUME NEW i \in Messages PROVE broadcasts'[i] \in Broadcast \cup {Finished}
  <2> DEFINE b == broadcasts[i]
  <2>1. b \in Broadcast \cup {Finished}
    BY DEF TypeOK
  <2>2. CASE broadcasts'[i] = b
    BY <2>1, <2>2
  <2>3. CASE b.attached /\ broadcasts'[i] = [b EXCEPT !.todo = Append(@, c)]
    <3>1. b \in Broadcast
      BY <2>1, <2>3 DEF Finished
    <3>2. Append(b.todo, c) \in Seq(Clients)
      BY <3>1 DEF Broadcast
    <3> QED
      BY <2>3, <3>1, <3>2 DEF Broadcast
  <2> QED
    BY <2>2, <2>3 DEF Enlist
<1>7. BroadcastsOK'
  BY <1>6 DEF BroadcastsOK, Enlist
<1> QED
  BY <1>3, <1>4, <1>5, <1>7 DEF RegistryOK

(* So does Unlist. *)
LEMMA UnlistTyped ==
    ASSUME TypeOK, NEW c \in Clients, NEW D, Unlist(c, D)
    PROVE  RegistryOK' /\ BroadcastsOK'
<1> USE GatewayAssumption
<1>1. ASSUME NEW d \in DOMAIN deviceSubscriptions
      PROVE  /\ deviceSubscriptions[d] \in IdSet
             /\ RemoveFirst(deviceSubscriptions[d], c) \in IdSet
  <2>1. deviceSubscriptions[d] \in IdSet
    BY DEF TypeOK
  <2> QED
    BY <2>1, SetDelete DEF IdSet
<1>2. /\ DOMAIN deviceSubscriptions' \subseteq Names
      /\ deviceSubscriptions' \in [DOMAIN deviceSubscriptions' -> IdSet]
  BY <1>1 DEF Unlist, TypeOK
<1>4. since' \in [Clients -> [Names -> 0..MaxMessages]]
  <2> DEFINE f == [d \in Names |-> IF d \in D THEN 0 ELSE since[c][d]]
  <2>1. f \in [Names -> 0..MaxMessages]
    BY DEF TypeOK
  <2>2. since' = [since EXCEPT ![c] = f]
    BY DEF Unlist
  <2> HIDE DEF f
  <2> QED
    BY <2>1, <2>2 DEF TypeOK
<1>5. ASSUME NEW i \in Messages PROVE broadcasts'[i] \in Broadcast \cup {Finished}
  <2> DEFINE b == broadcasts[i]
             a == b.of \notin Vacated(c, D)
  <2>1. b \in Broadcast \cup {Finished}
    BY DEF TypeOK
  <2>2. CASE broadcasts'[i] = b
    BY <2>1, <2>2
  <2>3. CASE b.attached /\ broadcasts'[i] = [b EXCEPT !.todo = RemoveFirst(@, c), !.attached = a]
    <3>1. b \in Broadcast
      BY <2>1, <2>3 DEF Finished
    <3>2. RemoveFirst(b.todo, c) \in Seq(Clients) /\ a \in BOOLEAN
      BY <3>1, SetDelete DEF Broadcast
    <3> HIDE DEF a
    <3> QED
      BY <2>3, <3>1, <3>2 DEF Broadcast
  <2> QED
    BY <2>2, <2>3 DEF Unlist
<1>6. BroadcastsOK'
  BY <1>5 DEF BroadcastsOK, Unlist
<1> QED
  BY <1>2, <1>4, <1>6 DEF RegistryOK

(* A broadcast that awaits an address for stop p of the Set s. *)
LEMMA AwaitTyped ==
    ASSUME TypeOK, NEW i \in Messages, NEW d \in Devices, NEW s \in Seq(Clients),
           NEW p \in DOMAIN s, NEW left \in SUBSET Devices, Await(i, d, s, p, left)
    PROVE  BroadcastsOK'
<1> DEFINE b == [of |-> d, to |-> s[p], todo |-> SubSeq(s, p + 1, Len(s)),
                 attached |-> TRUE, left |-> left]
<1>1. p \in 1..Len(s) /\ s[p] \in Clients
  OBVIOUS
<1>2. SubSeq(s, p + 1, Len(s)) \in Seq(Clients)
  BY <1>1, SetRest
<1>3. b \in Broadcast
  BY <1>1, <1>2 DEF Broadcast
<1>4. broadcasts' = [broadcasts EXCEPT ![i] = b]
  BY DEF Await
<1> HIDE DEF b
<1> QED
  BY <1>3, <1>4 DEF BroadcastsOK, TypeOK

(* RunOn leaves a well-formed broadcast, whichever way it stops. *)
LEMMA RunOnTyped ==
    ASSUME TypeOK, NEW i \in Messages, NEW b, RunOn(i, b),
           b.todo = <<>> \/ (b.todo \in Seq(Clients) /\ b.of \in Devices),
           b.left \in SUBSET Devices
    PROVE  BroadcastsOK'
<1>1. ASSUME NEW p \in DOMAIN b.todo, Await(i, b.of, b.todo, p, b.left)
      PROVE  BroadcastsOK'
  <2>1. b.todo \in Seq(Clients) /\ b.of \in Devices
    OBVIOUS
  <2> QED
    BY <1>1, <2>1, AwaitTyped
<1>2. ASSUME NEW d \in b.left, NEW p \in DOMAIN SocketIds(d),
             Await(i, d, SocketIds(d), p, b.left \ {d})
      PROVE  BroadcastsOK'
  <2>1. SocketIds(d) \in Seq(Clients)
    BY SocketIdsTyped DEF IdSet
  <2> QED
    BY <1>2, <2>1, AwaitTyped
<1>3. ASSUME broadcasts' = [broadcasts EXCEPT ![i] = Finished] PROVE BroadcastsOK'
  BY <1>3 DEF BroadcastsOK, TypeOK
<1> QED
  BY <1>1, <1>2, <1>3 DEF RunOn

(* The call at an await belongs to a client and is about a device. *)
LEMMA CallTyped ==
    ASSUME TypeOK, NEW k \in Calls, calls[k].step # "idle"
    PROVE  /\ calls[k] \in Call
           /\ calls[k].client \in Clients /\ calls[k].id \in Id
           /\ NameOf(calls[k].id) \in Names
<1>1. calls[k] \in Call
  BY DEF TypeOK, IdleCall
<1>2. calls[k].client \in Clients /\ calls[k].id \in Id
  BY <1>1 DEF Call
<1> QED
  BY <1>1, <1>2, IdIs

(* So does a broadcast that has a client to emit to. *)
LEMMA BroadcastTyped ==
    ASSUME TypeOK, NEW i \in Messages, broadcasts[i].to # NoClient
    PROVE  broadcasts[i] \in Broadcast
  BY DEF TypeOK, Finished

(* Every step keeps the types. *)
LEMMA TypeKept == TypeOK /\ [Next]_vars => TypeOK'
<1> SUFFICES ASSUME TypeOK, [Next]_vars PROVE TypeOK'
  OBVIOUS
<1> USE GatewayAssumption
<1>1. ASSUME NEW c \in Clients, HandleConnection(c) PROVE TypeOK'
  BY <1>1 DEF HandleConnection, TypeOK, registry, messages, history
<1>2. ASSUME NEW c \in Clients, HandleDisconnect(c) PROVE TypeOK'
  <2> DEFINE D == {d \in DOMAIN deviceSubscriptions : Contains(deviceSubscriptions[d], c)}
  <2>1. Unlist(c, D)
    BY <1>2 DEF HandleDisconnect
  <2>2. FilterOK'
    <3>1. Vacated(c, D) \subseteq DOMAIN deviceSubscriptions
      BY DEF Vacated
    <3> QED
      BY <1>2, <3>1 DEF HandleDisconnect, FilterOK, TypeOK
  <2> HIDE DEF D
  <2>3. RegistryOK' /\ BroadcastsOK'
    BY <2>1, UnlistTyped
  <2>4. told' \in [Clients -> [Names -> Answers]]
    BY <1>2 DEF HandleDisconnect, TypeOK, Answers
  <2>5. got' \in [Clients -> SUBSET (Kinds \X Names \X Messages)] /\ sockets' \in SUBSET Clients
    BY <1>2 DEF HandleDisconnect, TypeOK
  <2> QED
    BY <1>2, <2>2, <2>3, <2>4, <2>5
       DEF HandleDisconnect, TypeOK, RegistryOK, FilterOK, BroadcastsOK, messages
<1>3. ASSUME NEW c \in Clients, NEW id \in Id, Subscribe(c, id) PROVE TypeOK'
  <2>1. [step |-> "verify", client |-> c, id |-> id, snap |-> 0] \in Call
    BY DEF Call
  <2>2. calls' \in [Calls -> Call \cup {IdleCall}]
    BY <1>3, <2>1 DEF Subscribe, TypeOK
  <2> QED
    BY <1>3, <2>2 DEF Subscribe, TypeOK, registry, messages, history
<1>4. ASSUME NEW c \in Clients, NEW id \in Id, HandleUnsubscribeFromDevice(c, id)
      PROVE  TypeOK'
  <2> DEFINE d == NameOf(id)
  <2>1. d \in Names
    BY IdIs
  <2>2. Unlist(c, {d})
    BY <1>4 DEF HandleUnsubscribeFromDevice
  <2>3. FilterOK'
    BY <1>4 DEF HandleUnsubscribeFromDevice, FilterOK, TypeOK
  <2>4. told' \in [Clients -> [Names -> Answers]]
    BY <1>4, <2>1 DEF HandleUnsubscribeFromDevice, TypeOK, Answers
  <2> HIDE DEF d
  <2>5. RegistryOK' /\ BroadcastsOK'
    BY <2>2, UnlistTyped
  <2> QED
    BY <1>4, <2>3, <2>4, <2>5
       DEF HandleUnsubscribeFromDevice, TypeOK, RegistryOK, FilterOK, BroadcastsOK, messages
<1>5. ASSUME NEW k \in Calls, DeviceFound(k) PROVE TypeOK'
  <2>1. /\ calls[k] \in Call /\ calls[k].step = "verify" /\ calls[k].client \in Clients
        /\ calls[k].id \in Id /\ NameOf(calls[k].id) \in Names
    BY <1>5, CallTyped DEF DeviceFound
  <2>2. Enlist(calls[k].client, calls[k].id)
    BY <1>5 DEF DeviceFound
  <2>3. RegistryOK' /\ FilterOK' /\ BroadcastsOK'
    BY <2>1, <2>2, EnlistTyped
  <2>4. calls' \in [Calls -> Call \cup {IdleCall}]
    <3>1. [calls[k] EXCEPT !.step = "read"] \in Call
      BY <2>1 DEF Call
    <3> QED
      BY <1>5, <3>1 DEF DeviceFound, TypeOK
  <2>5. told' \in [Clients -> [Names -> Answers]]
    BY <1>5, <2>1 DEF DeviceFound, Answer, TypeOK, Answers
  <2> QED
    BY <1>5, <2>3, <2>4, <2>5
       DEF DeviceFound, TypeOK, RegistryOK, FilterOK, BroadcastsOK, messages
<1>6. ASSUME NEW k \in Calls, PositionsRead(k) PROVE TypeOK'
  <2>1. calls[k] \in Call
    BY <1>6, CallTyped DEF PositionsRead
  <2>2. PICK i \in 0..Len(feed) :
           calls' = [calls EXCEPT ![k] =
                       IF i = 0 THEN IdleCall ELSE [@ EXCEPT !.step = "address", !.snap = i]]
    BY <1>6 DEF PositionsRead
  <2>3. i # 0 => i \in Messages
    BY DEF TypeOK, Messages
  <2>4. i # 0 => [calls[k] EXCEPT !.step = "address", !.snap = i] \in Call
    BY <2>1, <2>3 DEF Call
  <2>5. calls' \in [Calls -> Call \cup {IdleCall}]
    BY <2>2, <2>4 DEF TypeOK
  <2> QED
    BY <1>6, <2>5 DEF PositionsRead, TypeOK, registry, messages, history
<1>7. ASSUME NEW k \in Calls, SnapshotReady(k) PROVE TypeOK'
  <2>1. calls[k] \in Call /\ calls[k].step = "address" /\ NameOf(calls[k].id) \in Names
    BY <1>7, CallTyped DEF SnapshotReady
  <2>2. calls[k].snap \in Messages
    BY <2>1 DEF Call
  <2>3. <<"snapshot", NameOf(calls[k].id), calls[k].snap>> \in Kinds \X Names \X Messages
    BY <2>1, <2>2 DEF Kinds
  <2>4. got' \in [Clients -> SUBSET (Kinds \X Names \X Messages)]
    BY <1>7, <2>3 DEF SnapshotReady, TypeOK
  <2>5. calls' \in [Calls -> Call \cup {IdleCall}]
    BY <1>7 DEF SnapshotReady, TypeOK
  <2> QED
    BY <1>7, <2>4, <2>5 DEF SnapshotReady, TypeOK, registry, messages
<1>8. ASSUME NEW k \in Calls, SubscribeFails(k) PROVE TypeOK'
  <2>1. calls[k].client \in Clients /\ NameOf(calls[k].id) \in Names
    BY <1>8, CallTyped DEF SubscribeFails
  <2>2. told' \in [Clients -> [Names -> Answers]]
    BY <1>8, <2>1 DEF SubscribeFails, Answer, TypeOK, Answers
  <2>3. calls' \in [Calls -> Call \cup {IdleCall}]
    BY <1>8 DEF SubscribeFails, TypeOK
  <2> QED
    BY <1>8, <2>2, <2>3 DEF SubscribeFails, TypeOK, registry, messages
<1>9. CASE TraccarReports
  <2>1. PICK m \in Report : feed' = Append(feed, m)
    BY <1>9 DEF TraccarReports
  <2>2. feed' \in Seq(Report) /\ Len(feed') = Len(feed) + 1
    BY <2>1 DEF TypeOK
  <2>3. heard' \in 0..MaxMessages /\ heard' <= Len(feed') /\ Len(feed') <= MaxMessages
    BY <1>9, <2>2 DEF TraccarReports, TypeOK
  <2> QED
    BY <1>9, <2>2, <2>3, Zenon DEF TraccarReports, TypeOK, registry, history
<1>10. CASE HandleTraccarMessage
  <2> DEFINE i == heard + 1
             m == feed[i]
  <2>1. i \in Messages /\ i \in 1..Len(feed) /\ heard' = i
    BY <1>10 DEF HandleTraccarMessage, TypeOK, Messages
  <2>2. m \in Report
    BY <2>1 DEF TypeOK
  <2> HIDE DEF m
  <2>3. BroadcastsOK'
    <3> DEFINE b == [Finished EXCEPT !.left = m.positions \cap Passing]
    <3>1. b.todo = <<>> /\ b.left \in SUBSET Devices
      BY <2>2 DEF Finished, Passing
    <3>2. RunOn(i, b)
      BY <1>10 DEF HandleTraccarMessage, m
    <3> HIDE DEF b
    <3> QED
      BY <2>1, <3>1, <3>2, RunOnTyped
  <2>4. \A c \in Clients : EmittedNow(c, i, m) \subseteq Kinds \X Names \X Messages
    <3>1. Passing \subseteq Names
      BY DEF Passing
    <3> QED
      BY <2>1, <3>1 DEF EmittedNow, Kinds
  <2>5. got' = [c \in Clients |-> got[c] \cup EmittedNow(c, i, m)]
    BY <1>10 DEF HandleTraccarMessage, m
  <2>6. got' \in [Clients -> SUBSET (Kinds \X Names \X Messages)]
    BY <2>4, <2>5 DEF TypeOK
  <2>7. passed' \in [Messages -> SUBSET Devices]
    BY <1>10 DEF HandleTraccarMessage, TypeOK, Passing
  <2>8. feed' \in Seq(Report) /\ heard' \in 0..MaxMessages
        /\ heard' <= Len(feed') /\ Len(feed') <= MaxMessages
    BY <1>10, <2>1 DEF HandleTraccarMessage, TypeOK
  <2> QED
    BY <1>10, <2>3, <2>6, <2>7, <2>8, Zenon
       DEF HandleTraccarMessage, TypeOK, registry, BroadcastsOK
<1>11. ASSUME NEW i \in Messages, AddressPopulated(i) PROVE TypeOK'
  <2>1. broadcasts[i] \in Broadcast
    BY <1>11, BroadcastTyped DEF AddressPopulated
  <2>2. BroadcastsOK'
    <3>1. /\ broadcasts[i].todo \in Seq(Clients) /\ broadcasts[i].of \in Devices
          /\ broadcasts[i].left \in SUBSET Devices
      BY <2>1 DEF Broadcast
    <3> QED
      BY <1>11, <3>1, RunOnTyped DEF AddressPopulated
  <2>3. <<"positionUpdate", broadcasts[i].of, i>> \in Kinds \X Names \X Messages
    BY <2>1 DEF Broadcast, Kinds
  <2>4. got' \in [Clients -> SUBSET (Kinds \X Names \X Messages)]
    BY <1>11, <2>3 DEF AddressPopulated, TypeOK
  <2> QED
    BY <1>11, <2>2, <2>4 DEF AddressPopulated, TypeOK, registry, messages, BroadcastsOK
<1>12. CASE UNCHANGED vars
  BY <1>12 DEF vars, registry, messages, history, TypeOK
<1>13. CASE ClientStep
  BY <1>1, <1>2, <1>3, <1>4, <1>13 DEF ClientStep
<1>14. CASE CallStep
  BY <1>5, <1>6, <1>7, <1>8, <1>14 DEF CallStep
<1>15. CASE FeedStep
  BY <1>9, <1>10, <1>11, <1>15 DEF FeedStep
<1> QED
  BY <1>12, <1>13, <1>14, <1>15 DEF Next

(* The variables keep their types: the Sets hold no socket id twice and the *)
(* suspended handlers never refer to anything but clients and devices,      *)
(* through every interleaving of their steps.                               *)
THEOREM TypeCorrect == Spec => []TypeOK
<1>1. Init => TypeOK
  <2> SUFFICES ASSUME Init PROVE TypeOK
    OBVIOUS
  <2>1. feed \in Seq(Report) /\ Len(feed) = 0
    BY DEF Init
  <2>2. DOMAIN deviceSubscriptions = {}
    BY DEF Init
  <2> QED
    BY <2>1, <2>2, GatewayAssumption DEF Init, TypeOK, Answers
<1> QED
  BY <1>1, TypeKept, PTL DEF Spec

-----------------------------------------------------------------------------
(* What Enlist and Unlist do to the Sets as seen through SocketIds. *)

(* After Enlist client c is in the Set it named; no other membership changed. *)
LEMMA EnlistEffect ==
    ASSUME TypeOK, NEW c \in Clients, NEW id \in Id, Enlist(c, id),
           NEW d \in Names, d = NameOf(id), NEW e \in Names
    PROVE  ToSet(SocketIds(e)') = IF e = d THEN ToSet(SocketIds(e)) \cup {c}
                                           ELSE ToSet(SocketIds(e))
<1>1. CASE e = d
  <2>1. SocketIds(d) \in Seq(Clients)
    BY SocketIdsTyped DEF IdSet
  <2>2. SocketIds(d)' = SetAdd(SocketIds(d), c)
    BY DEF Enlist, SocketIds
  <2>3. ToSet(SetAdd(SocketIds(d), c)) = ToSet(SocketIds(d)) \cup {c}
    BY <2>1, SetInsert, Members DEF SetAdd
  <2> QED
    BY <1>1, <2>2, <2>3
<1>2. CASE e # d
  <2>1. SocketIds(e)' = SocketIds(e)
    BY <1>2 DEF Enlist, SocketIds
  <2> QED
    BY <1>2, <2>1
<1> QED
  BY <1>1, <1>2

(* After Unlist client c is in no Set of D, and no other membership changed. *)
LEMMA UnlistEffect ==
    ASSUME TypeOK, NEW c \in Clients, NEW D, Unlist(c, D), NEW e \in Names
    PROVE  ToSet(SocketIds(e)') = IF e \in D THEN ToSet(SocketIds(e)) \ {c}
                                             ELSE ToSet(SocketIds(e))
<1> DEFINE s == deviceSubscriptions[e]
<1>1. ToSet(<<>>) = {}
  BY DEF ToSet
<1>2. CASE e \notin DOMAIN deviceSubscriptions
  <2>1. SocketIds(e) = <<>> /\ SocketIds(e)' = <<>>
    BY <1>2 DEF SocketIds, Unlist
  <2> QED
    BY <1>1, <2>1
<1>3. CASE e \in Vacated(c, D)
  <2>1. e \in D /\ SocketIds(e) = s /\ ToSet(s) \subseteq {c}
    BY <1>3 DEF Vacated, SocketIds
  <2>2. SocketIds(e)' = <<>>
    BY <1>3 DEF SocketIds, Unlist
  <2> QED
    BY <1>1, <2>1, <2>2
<1>4. CASE e \in DOMAIN deviceSubscriptions \ Vacated(c, D)
  <2>1. SocketIds(e) = s /\ s \in IdSet
    BY <1>4 DEF SocketIds, TypeOK
  <2>2. SocketIds(e)' = IF e \in D THEN RemoveFirst(s, c) ELSE s
    BY <1>4 DEF SocketIds, Unlist
  <2>3. ToSet(RemoveFirst(s, c)) = ToSet(s) \ {c}
    BY <2>1, SetDelete DEF IdSet
  <2> QED
    BY <2>1, <2>2, <2>3
<1> QED
  BY <1>2, <1>3, <1>4

-----------------------------------------------------------------------------
(* The map and the filter. *)

LEMMA EnlistKeepsFilter ==
    ASSUME TypeOK, FilterMatchesMap, NEW c \in Clients, NEW id \in Id, Enlist(c, id)
    PROVE  FilterMatchesMap'
<1> DEFINE n == NameOf(id)
<1>1. n \in Names
  BY IdIs
<1>2. SetAdd(SocketIds(n), c) # <<>>
  BY <1>1, SocketIdsTyped DEF SetAdd, Contains, IdSet
<1>3. /\ DOMAIN deviceSubscriptions' = DOMAIN deviceSubscriptions \cup {n}
      /\ \A m \in DOMAIN deviceSubscriptions' : deviceSubscriptions'[m] # <<>>
  BY <1>2 DEF Enlist, FilterMatchesMap
<1>4. CASE n \in DOMAIN deviceSubscriptions
  BY <1>3, <1>4 DEF Enlist, FilterMatchesMap, Passing
<1>5. CASE n \notin DOMAIN deviceSubscriptions
  <2>1. subscribedDevices' = subscribedDevices \cup {id}
    BY <1>5 DEF Enlist
  <2>2. CASE IsString(id)
    <3>1. strung' = strung \cup ({n} \cap Devices)
      BY <1>5, <2>2 DEF Enlist
    <3>2. Passing' = Passing
      <4>1. \A d \in Devices : <<"number", d>> # id
        BY <2>2, IdIs
      <4> QED
        BY <2>1, <4>1 DEF Passing
    <3> QED
      BY <1>3, <3>1, <3>2 DEF FilterMatchesMap
  <2>3. CASE ~ IsString(id)
    <3>1. strung' = strung \ {n} /\ id = <<"number", n>> /\ n \in Devices
      BY <1>5, <2>3, IdIs DEF Enlist
    <3>2. Passing' = Passing \cup {n}
      BY <2>1, <3>1 DEF Passing
    <3> QED
      BY <1>3, <3>1, <3>2 DEF FilterMatchesMap
  <2> QED
    BY <2>2, <2>3
<1> QED
  BY <1>4, <1>5

(* No Set that stays in the map is empty. *)
LEMMA UnlistKeepsSets ==
    ASSUME TypeOK, FilterMatchesMap, NEW c \in Clients, NEW D, Unlist(c, D)
    PROVE  /\ DOMAIN deviceSubscriptions' = DOMAIN deviceSubscriptions \ Vacated(c, D)
           /\ \A n \in DOMAIN deviceSubscriptions' : deviceSubscriptions'[n] # <<>>
<1>1. ASSUME NEW d \in DOMAIN deviceSubscriptions', d \in D
      PROVE  deviceSubscriptions'[d] # <<>>
  <2> DEFINE s == deviceSubscriptions[d]
  <2>1. s \in Seq(Clients) /\ d \in DOMAIN deviceSubscriptions
    BY DEF Unlist, TypeOK, IdSet
  <2>2. PICK x \in ToSet(s) : x # c
    BY <1>1, <2>1 DEF Unlist, Vacated
  <2>3. x \in ToSet(RemoveFirst(s, c))
    BY <2>1, <2>2, SetDelete
  <2>4. deviceSubscriptions'[d] = RemoveFirst(s, c)
    BY <1>1 DEF Unlist
  <2> QED
    BY <2>3, <2>4 DEF ToSet
<1> QED
  BY <1>1 DEF Unlist, FilterMatchesMap

LEMMA DisconnectKeepsFilter ==
    ASSUME TypeOK, FilterMatchesMap, NEW c \in Clients, HandleDisconnect(c)
    PROVE  FilterMatchesMap'
<1> DEFINE D == {d \in DOMAIN deviceSubscriptions : Contains(deviceSubscriptions[d], c)}
           gone == Vacated(c, D)
           read == {Number(n) : n \in gone}
<1>1. /\ Unlist(c, D)
      /\ subscribedDevices' = subscribedDevices \ {<<"number", Number(n)>> : n \in gone}
      /\ strung' = (strung \ gone)
             \cup {d \in Devices \cap DOMAIN deviceSubscriptions' : \E n \in gone : Number(n) = d}
  BY DEF HandleDisconnect
<1>2. gone \subseteq Names
  BY DEF Vacated, TypeOK
<1> HIDE DEF D
<1>3. /\ DOMAIN deviceSubscriptions' = DOMAIN deviceSubscriptions \ gone
      /\ \A n \in DOMAIN deviceSubscriptions' : deviceSubscriptions'[n] # <<>>
  BY <1>1, UnlistKeepsSets
<1> HIDE DEF gone
<1>4. Passing' = Passing \ read
  BY <1>1 DEF Passing
<1>5. ASSUME NEW d \in Devices, d \notin strung'
      PROVE  d \in Passing' <=> d \in DOMAIN deviceSubscriptions'
  <2>1. CASE d \in gone
    <3>1. Number(d) = d
      BY NumberIs
    <3> QED
      BY <1>3, <1>4, <2>1, <3>1
  <2>2. CASE d \notin gone /\ d \in read
    BY <1>1, <1>4, <1>5, <2>2
  <2>3. CASE d \notin gone /\ d \notin read
    BY <1>1, <1>3, <1>4, <1>5, <2>3 DEF FilterMatchesMap
  <2> QED
    BY <2>1, <2>2, <2>3
<1> QED
  BY <1>3, <1>5 DEF FilterMatchesMap

LEMMA UnsubscribeKeepsFilter ==
    ASSUME TypeOK, FilterMatchesMap, NEW c \in Clients, NEW id \in Id,
           HandleUnsubscribeFromDevice(c, id)
    PROVE  FilterMatchesMap'
<1> DEFINE n == NameOf(id)
           gone == Vacated(c, {n})
<1>1. /\ Unlist(c, {n})
      /\ subscribedDevices' = IF gone = {} THEN subscribedDevices ELSE subscribedDevices \ {id}
      /\ strung' = IF IsString(id) THEN strung \cup (gone \cap Devices) ELSE strung \ gone
  BY DEF HandleUnsubscribeFromDevice
<1>2. gone = {} \/ gone = {n}
  BY DEF Vacated
<1>3. /\ DOMAIN deviceSubscriptions' = DOMAIN deviceSubscriptions \ gone
      /\ \A m \in DOMAIN deviceSubscriptions' : deviceSubscriptions'[m] # <<>>
  BY <1>1, UnlistKeepsSets
<1> HIDE DEF gone
<1>4. CASE gone = {}
  BY <1>1, <1>3, <1>4 DEF FilterMatchesMap, Passing
<1>5. CASE gone = {n} /\ IsString(id)
  <2>1. Passing' = Passing
    <3>1. \A d \in Devices : <<"number", d>> # id
      BY <1>5, IdIs
    <3> QED
      BY <1>1, <1>5, <3>1 DEF Passing
  <2> QED
    BY <1>1, <1>3, <1>5, <2>1 DEF FilterMatchesMap
<1>6. CASE gone = {n} /\ ~ IsString(id)
  <2>1. id = <<"number", n>> /\ n \in Devices
    BY <1>6, IdIs
  <2>2. Passing' = Passing \ {n}
    BY <1>1, <1>6, <2>1 DEF Passing
  <2> QED
    BY <1>1, <1>3, <1>6, <2>1, <2>2 DEF FilterMatchesMap
<1> QED
  BY <1>2, <1>4, <1>5, <1>6

(* The two tables that three handlers update by hand drift apart at a       *)
(* device only if its entry is opened or closed by a string, or an alias is *)
(* closed while the entry stays, and agree again once a number closes it or *)
(* opens it anew: the filter then holds the number exactly when the map has *)
(* the entry, and no entry is empty.                                        *)
THEOREM TablesAgree == Spec => []FilterMatchesMap
<1>1. Init => FilterMatchesMap
  BY DEF Init, FilterMatchesMap, Passing
<1>2. TypeOK /\ FilterMatchesMap /\ [Next]_vars => FilterMatchesMap'
  <2> SUFFICES ASSUME TypeOK, FilterMatchesMap, [Next]_vars PROVE FilterMatchesMap'
    OBVIOUS
  <2>1. ASSUME UNCHANGED <<deviceSubscriptions, subscribedDevices, strung>> PROVE FilterMatchesMap'
    BY <2>1 DEF FilterMatchesMap, Passing
  <2>2. ASSUME NEW k \in Calls, DeviceFound(k) PROVE FilterMatchesMap'
    <3>1. calls[k].client \in Clients /\ calls[k].id \in Id
      BY <2>2, CallTyped DEF DeviceFound
    <3> QED
      BY <2>2, <3>1, EnlistKeepsFilter DEF DeviceFound
  <2>3. CASE ClientStep
    BY <2>1, <2>3, DisconnectKeepsFilter, UnsubscribeKeepsFilter, GatewayAssumption
       DEF ClientStep, HandleConnection, Subscribe, registry
  <2>4. CASE CallStep
    BY <2>1, <2>2, <2>4 DEF CallStep, PositionsRead, SnapshotReady, SubscribeFails, registry
  <2>5. CASE FeedStep
    BY <2>1, <2>5
       DEF FeedStep, TraccarReports, HandleTraccarMessage, AddressPopulated, registry
  <2>6. CASE UNCHANGED vars
    BY <2>1, <2>6 DEF vars, registry
  <2> QED
    BY <2>3, <2>4, <2>5, <2>6 DEF Next
<1> QED
  BY <1>1, <1>2, TypeCorrect, PTL DEF Spec

-----------------------------------------------------------------------------
(* What clients are told. *)

(* Nothing is recorded of a client that is not connected. *)
GoneIsSilent ==
    \A c \in Clients \ sockets :
        /\ got[c] = {}
        /\ \A d \in Names : told[c][d] = "nothing"

LEMMA SilenceKept == TypeOK /\ GoneIsSilent /\ [Next]_vars => GoneIsSilent'
<1> SUFFICES ASSUME TypeOK, GoneIsSilent, [Next]_vars,
                    NEW x \in Clients, x \notin sockets'
             PROVE  got'[x] = {} /\ \A e \in Names : told'[x][e] = "nothing"
  BY DEF GoneIsSilent
<1> DEFINE Silent == got'[x] = {} /\ \A e \in Names : told'[x][e] = "nothing"
<1> SUFFICES Silent
  OBVIOUS
<1>1. ASSUME UNCHANGED <<sockets, told, got>> PROVE Silent
  BY <1>1 DEF GoneIsSilent
<1>2. ASSUME NEW c \in Clients, HandleConnection(c)
      PROVE  Silent
  BY <1>2 DEF HandleConnection, history, GoneIsSilent
<1>3. ASSUME NEW c \in Clients, HandleDisconnect(c)
      PROVE  Silent
  BY <1>3 DEF HandleDisconnect, GoneIsSilent, TypeOK
<1>4. ASSUME NEW c \in Clients, NEW id \in Id, HandleUnsubscribeFromDevice(c, id)
      PROVE  Silent
  BY <1>4 DEF HandleUnsubscribeFromDevice, GoneIsSilent, TypeOK
<1>5. ASSUME NEW c, NEW d, NEW a, Answer(c, d, a), UNCHANGED <<sockets, got>>
      PROVE  Silent
  BY <1>5 DEF Answer, GoneIsSilent, TypeOK
<1>6. CASE HandleTraccarMessage
  <2>1. x \notin sockets /\ EmittedNow(x, heard + 1, feed[heard + 1]) = {}
    BY <1>6 DEF HandleTraccarMessage, EmittedNow, Listeners
  <2> QED
    BY <1>6, <2>1 DEF HandleTraccarMessage, GoneIsSilent, TypeOK
<1>7. ASSUME NEW i \in Messages, AddressPopulated(i)
      PROVE  Silent
  BY <1>7 DEF AddressPopulated, GoneIsSilent, TypeOK
<1>8. ASSUME NEW k \in Calls, DeviceFound(k) \/ SubscribeFails(k)
      PROVE  Silent
  BY <1>5, <1>8 DEF DeviceFound, SubscribeFails
<1>9. CASE ClientStep
  BY <1>1, <1>2, <1>3, <1>4, <1>9, GatewayAssumption DEF ClientStep, Subscribe, history
<1>10. CASE CallStep
  <2>1. ASSUME NEW k \in Calls, SnapshotReady(k) PROVE Silent
    BY <2>1 DEF SnapshotReady, GoneIsSilent, TypeOK
  <2> QED
    BY <1>1, <1>8, <1>10, <2>1 DEF CallStep, PositionsRead, history
<1>11. CASE FeedStep
  BY <1>1, <1>6, <1>7, <1>11 DEF FeedStep, TraccarReports, history
<1> QED
  BY <1>1, <1>9, <1>10, <1>11 DEF Next, vars, history

(* The inductive invariant of the confirmations. *)
ToldInv == GoneIsSilent /\ ConfirmationsAreTrue

LEMMA ConfirmationsKept == TypeOK /\ ToldInv /\ [Next]_vars => ConfirmationsAreTrue'
<1> SUFFICES ASSUME TypeOK, GoneIsSilent, ConfirmationsAreTrue, [Next]_vars,
                    NEW x \in sockets', NEW e \in Names
             PROVE  /\ told'[x][e] = "subscribed" => x \in Listeners(e)'
                    /\ told'[x][e] \in {"nothing", "unsubscribed"} => x \notin Listeners(e)'
  BY DEF ConfirmationsAreTrue, ToldInv
<1> DEFINE Holds == /\ told'[x][e] = "subscribed" => x \in Listeners(e)'
                    /\ told'[x][e] \in {"nothing", "unsubscribed"} => x \notin Listeners(e)'
<1> SUFFICES Holds
  OBVIOUS
<1>1. ASSUME UNCHANGED <<sockets, deviceSubscriptions, told>> PROVE Holds
  BY <1>1 DEF ConfirmationsAreTrue, Listeners, SocketIds
<1>2. ASSUME NEW c \in Clients, HandleConnection(c) PROVE Holds
  <2>1. SocketIds(e)' = SocketIds(e) /\ told' = told /\ sockets' = sockets \cup {c}
    BY <1>2 DEF HandleConnection, registry, history, SocketIds
  <2>2. CASE x = c
    <3>1. x \notin ToSet(SocketIds(e))
      BY <1>2, <2>2, SocketIdsTyped, Members DEF HandleConnection, Forgotten, IdSet
    <3>2. told[x][e] = "nothing"
      BY <1>2, <2>2 DEF HandleConnection, GoneIsSilent
    <3> QED
      BY <2>1, <3>1, <3>2 DEF Listeners
  <2>3. CASE x # c
    BY <2>1, <2>3 DEF ConfirmationsAreTrue, Listeners
  <2> QED
    BY <2>2, <2>3
<1>3. ASSUME NEW c \in Clients, HandleDisconnect(c) PROVE Holds
  <2> DEFINE D == {d \in DOMAIN deviceSubscriptions : Contains(deviceSubscriptions[d], c)}
  <2>1. x # c /\ x \in sockets /\ x \in Clients /\ sockets' = sockets \ {c}
    BY <1>3 DEF HandleDisconnect, TypeOK
  <2>2. told'[x][e] = told[x][e]
    BY <1>3, <2>1 DEF HandleDisconnect, TypeOK
  <2>3. Unlist(c, D)
    BY <1>3 DEF HandleDisconnect
  <2> HIDE DEF D
  <2>4. x \in ToSet(SocketIds(e)') <=> x \in ToSet(SocketIds(e))
    BY <2>1, <2>3, UnlistEffect
  <2> QED
    BY <2>1, <2>2, <2>4 DEF ConfirmationsAreTrue, Listeners
<1>4. ASSUME NEW c \in Clients, NEW id \in Id, HandleUnsubscribeFromDevice(c, id) PROVE Holds
  <2>0. PICK d \in Names : d = NameOf(id)
    BY IdIs
  <2>1. x \in sockets /\ x \in Clients /\ sockets' = sockets
    BY <1>4 DEF HandleUnsubscribeFromDevice, TypeOK
  <2>2. ToSet(SocketIds(e)') = IF e \in {d} THEN ToSet(SocketIds(e)) \ {c} ELSE ToSet(SocketIds(e))
    BY <1>4, <2>0, UnlistEffect DEF HandleUnsubscribeFromDevice
  <2>3. CASE x = c /\ e = d
    <3>1. x \notin Listeners(e)'
      BY <2>2, <2>3 DEF Listeners
    <3>2. CASE d \in DOMAIN deviceSubscriptions
      BY <1>4, <2>0, <2>3, <3>1, <3>2 DEF HandleUnsubscribeFromDevice, TypeOK
    <3>3. CASE d \notin DOMAIN deviceSubscriptions
      <4>1. told' = told /\ x \notin Listeners(e)
        BY <1>4, <2>0, <2>3, <3>3 DEF HandleUnsubscribeFromDevice, Listeners, SocketIds, ToSet
      <4> QED
        BY <2>1, <3>1, <4>1 DEF ConfirmationsAreTrue
    <3> QED
      BY <3>2, <3>3
  <2>4. CASE ~ (x = c /\ e = d)
    <3>1. told'[x][e] = told[x][e]
      BY <1>4, <2>0, <2>1, <2>4 DEF HandleUnsubscribeFromDevice, TypeOK
    <3>2. x \in ToSet(SocketIds(e)') <=> x \in ToSet(SocketIds(e))
      BY <2>2, <2>4
    <3> QED
      BY <2>1, <3>1, <3>2 DEF ConfirmationsAreTrue, Listeners
  <2> QED
    BY <2>3, <2>4
<1>5. ASSUME NEW k \in Calls, DeviceFound(k) PROVE Holds
  <2> DEFINE c == calls[k].client
             id == calls[k].id
             d == NameOf(id)
  <2>1. c \in Clients /\ id \in Id /\ d \in Names
    BY <1>5, CallTyped DEF DeviceFound
  <2>2. Enlist(c, id) /\ Answer(c, d, "subscribed") /\ sockets' = sockets
    BY <1>5 DEF DeviceFound
  <2>3. x \in sockets /\ x \in Clients
    BY <2>2 DEF TypeOK
  <2> HIDE DEF c, id
  <2>4. ToSet(SocketIds(e)') = IF e = d THEN ToSet(SocketIds(e)) \cup {c} ELSE ToSet(SocketIds(e))
    BY <2>1, <2>2, EnlistEffect
  <2>5. CASE x = c /\ e = d
    BY <2>1, <2>2, <2>3, <2>4, <2>5 DEF Answer, Listeners, TypeOK
  <2>6. CASE ~ (x = c /\ e = d)
    <3>1. told'[x][e] = told[x][e]
      BY <2>1, <2>2, <2>3, <2>6 DEF Answer, TypeOK
    <3>2. x \in ToSet(SocketIds(e)') <=> x \in ToSet(SocketIds(e))
      BY <2>4, <2>6
    <3> QED
      BY <2>2, <2>3, <3>1, <3>2 DEF ConfirmationsAreTrue, Listeners
  <2> QED
    BY <2>5, <2>6
<1>6. ASSUME NEW k \in Calls, SubscribeFails(k) PROVE Holds
  <2>1. x \in Listeners(e)' <=> x \in Listeners(e)
    BY <1>6 DEF SubscribeFails, registry, Listeners, SocketIds
  <2>2. told'[x][e] = told[x][e] \/ told'[x][e] = "error"
    BY <1>6 DEF SubscribeFails, Answer, TypeOK
  <2> QED
    BY <1>6, <2>1, <2>2 DEF SubscribeFails, ConfirmationsAreTrue
<1>7. CASE ClientStep
  BY <1>1, <1>2, <1>3, <1>4, <1>7, GatewayAssumption DEF ClientStep, Subscribe, registry, history
<1>8. CASE CallStep
  BY <1>1, <1>5, <1>6, <1>8 DEF CallStep, PositionsRead, SnapshotReady, registry, history
<1>9. CASE FeedStep
  BY <1>1, <1>9
     DEF FeedStep, TraccarReports, HandleTraccarMessage, AddressPopulated, registry, history
<1>10. CASE UNCHANGED vars
  BY <1>1, <1>10 DEF vars, registry, history
<1> QED
  BY <1>7, <1>8, <1>9, <1>10 DEF Next

LEMMA ToldInvHolds == Spec => []ToldInv
<1>1. Init => ToldInv
  BY DEF Init, ToldInv, GoneIsSilent, ConfirmationsAreTrue
<1>2. TypeOK /\ ToldInv /\ [Next]_vars => ToldInv'
  BY SilenceKept, ConfirmationsKept DEF ToldInv
<1> QED
  BY <1>1, <1>2, TypeCorrect, PTL DEF Spec

(* A client that was told it is subscribed to a device is in the Set of the *)
(* device as long as it is connected, and one that was told it is not, or   *)
(* was told nothing, is in none.                                            *)
THEOREM ConfirmationsHold == Spec => []ConfirmationsAreTrue
<1>1. ToldInv => ConfirmationsAreTrue
  BY DEF ToldInv
<1> QED
  BY <1>1, ToldInvHolds, PTL

-----------------------------------------------------------------------------
(* What the fan-out gives to whom: no subscriber is skipped, and nobody is   *)
(* shown a device before an answer about it.                                *)

(* A client among the connected ids s that a broadcast stops in is the stop *)
(* or still ahead of it.                                                    *)
LEMMA AwaitOwes ==
    ASSUME TypeOK, NEW i \in Messages, NEW d \in Devices, NEW s \in Seq(Clients),
           NEW p \in DOMAIN s, NextStop(s, p), NEW left, Await(i, d, s, p, left),
           NEW c \in sockets, c \in ToSet(s)
    PROVE  Owed(c, d, i)'
<1> DEFINE r == SubSeq(s, p + 1, Len(s))
           b == [of |-> d, to |-> s[p], todo |-> r, attached |-> TRUE, left |-> left]
<1>1. broadcasts'[i] = b
  BY DEF Await, TypeOK
<1>2. PICK q \in DOMAIN s : s[q] = c
  BY DEF ToSet
<1>3. p \in 1..Len(s) /\ q \in 1..Len(s) /\ p <= q
  BY <1>2 DEF NextStop
<1>4. CASE q = p
  BY <1>1, <1>2, <1>4 DEF Owed
<1>5. CASE q # p
  <2>1. q \in p + 1..Len(s)
    BY <1>3, <1>5
  <2>2. r \in Seq(Clients) /\ c \in ToSet(r)
    BY <1>2, <1>3, <2>1, SetRest
  <2>3. Contains(r, c)
    BY <2>2, Members
  <2> HIDE DEF r
  <2> QED
    BY <1>1, <2>3 DEF Owed
<1> QED
  BY <1>4, <1>5

(* Running on, a broadcast loses no one it has still to visit.              *)
LEMMA RunOnOwes ==
    ASSUME TypeOK, NEW i \in Messages, NEW b, RunOn(i, b),
           b.todo = <<>> \/ (b.todo \in Seq(Clients) /\ b.of \in Devices),
           b.left \in SUBSET Devices,
           NEW c \in sockets, NEW d \in Devices, c \in ToSet(SocketIds(d)),
           (b.of = d /\ c \in ToSet(b.todo)) \/ d \in b.left
    PROVE  Owed(c, d, i)'
<1>1. ASSUME NEW p \in DOMAIN b.todo, NextStop(b.todo, p), Await(i, b.of, b.todo, p, b.left)
      PROVE  Owed(c, d, i)'
  <2>1. b.todo \in Seq(Clients) /\ b.of \in Devices
    OBVIOUS
  <2>2. CASE b.of = d /\ c \in ToSet(b.todo)
    BY <1>1, <2>1, <2>2, AwaitOwes
  <2>3. CASE d \in b.left
    BY <1>1, <2>3 DEF Await, Owed, TypeOK
  <2> QED
    BY <2>2, <2>3
<1>2. ASSUME NoStop(b.todo), NEW e \in b.left, NEW p \in DOMAIN SocketIds(e),
             NextStop(SocketIds(e), p), Await(i, e, SocketIds(e), p, b.left \ {e})
      PROVE  Owed(c, d, i)'
  <2>1. d \in b.left
    BY <1>2 DEF NoStop
  <2>2. CASE e = d
    <3>1. SocketIds(d) \in Seq(Clients)
      BY SocketIdsTyped DEF IdSet
    <3> QED
      BY <1>2, <2>2, <3>1, AwaitOwes
  <2>3. CASE e # d
    <3> DEFINE a == [of |-> e, to |-> SocketIds(e)[p],
                     todo |-> SubSeq(SocketIds(e), p + 1, Len(SocketIds(e))),
                     attached |-> TRUE, left |-> b.left \ {e}]
    <3>1. broadcasts'[i] = a
      BY <1>2 DEF Await, TypeOK
    <3>2. d \in a.left
      BY <2>1, <2>3
    <3> QED
      BY <3>1, <3>2 DEF Owed
  <2> QED
    BY <2>2, <2>3
<1>3. ASSUME NoStop(b.todo), \A e \in b.left : Listeners(e) = {} PROVE FALSE
  BY <1>3 DEF NoStop, Listeners
<1> QED
  BY <1>1, <1>2, <1>3 DEF RunOn

(* A client that joins takes nothing from the others.                       *)
LEMMA EnlistOwes ==
    ASSUME TypeOK, NEW x \in Clients, NEW id \in Id, Enlist(x, id),
           NEW c \in Clients, NEW d \in Devices, NEW i \in Messages, Owed(c, d, i)
    PROVE  Owed(c, d, i)'
<1> DEFINE b == broadcasts[i]
<1>1. CASE broadcasts'[i] = b
  BY <1>1 DEF Owed
<1>2. CASE b.attached /\ broadcasts'[i] = [b EXCEPT !.todo = Append(@, x)]
  <2>1. b \in Broadcast
    BY <1>2 DEF TypeOK, Finished
  <2>2. b.todo \in Seq(Clients) /\ Append(b.todo, x) \in Seq(Clients)
    BY <2>1 DEF Broadcast
  <2>3. Contains(b.todo, c) => Contains(Append(b.todo, x), c)
    <3>1. ToSet(Append(b.todo, x)) = ToSet(b.todo) \cup {x}
      BY <2>2, SetInsert
    <3> QED
      BY <2>2, <3>1, Members
  <2>4. /\ broadcasts'[i].of = b.of /\ broadcasts'[i].to = b.to
        /\ broadcasts'[i].left = b.left /\ broadcasts'[i].attached = b.attached
        /\ broadcasts'[i].todo = Append(b.todo, x)
    BY <1>2, <2>1 DEF Broadcast
  <2> QED
    BY <2>3, <2>4 DEF Owed
<1> QED
  BY <1>1, <1>2 DEF Enlist

(* Nor does a client that leaves, as long as someone stays in the Set.      *)
LEMMA UnlistOwes ==
    ASSUME TypeOK, NEW x \in Clients, NEW D, Unlist(x, D),
           NEW c \in Clients, NEW d \in Devices, NEW i \in Messages, Owed(c, d, i),
           c \in ToSet(SocketIds(d)'), c # x \/ d \notin D
    PROVE  Owed(c, d, i)'
<1> DEFINE b == broadcasts[i]
           a == b.of \notin Vacated(x, D)
<1>1. CASE broadcasts'[i] = b
  BY <1>1 DEF Owed
<1>2. CASE /\ b.attached /\ b.of \in D
           /\ broadcasts'[i] = [b EXCEPT !.todo = RemoveFirst(@, x), !.attached = a]
  <2>1. b \in Broadcast
    BY <1>2 DEF TypeOK, Finished
  <2>2. b.todo \in Seq(Clients) /\ RemoveFirst(b.todo, x) \in Seq(Clients)
    BY <2>1, SetDelete DEF Broadcast
  <2>3. c # x /\ Contains(b.todo, c) => Contains(RemoveFirst(b.todo, x), c)
    BY <2>2, SetDelete, Members
  <2> HIDE DEF a
  <2>4. /\ broadcasts'[i].of = b.of /\ broadcasts'[i].to = b.to
        /\ broadcasts'[i].left = b.left /\ broadcasts'[i].attached = a
        /\ broadcasts'[i].todo = RemoveFirst(b.todo, x)
    BY <1>2, <2>1 DEF Broadcast
  <2>5. d \notin Vacated(x, D)
    <3>1. ASSUME d \in Vacated(x, D) PROVE SocketIds(d)' = <<>>
      BY <3>1 DEF Unlist, SocketIds
    <3>2. ToSet(<<>>) = {}
      BY DEF ToSet
    <3> QED
      BY <3>1, <3>2
  <2>6. CASE b.of = d
    BY <1>2, <2>3, <2>4, <2>5, <2>6 DEF Owed, a
  <2>7. CASE b.of # d
    BY <2>4, <2>7 DEF Owed
  <2> QED
    BY <2>6, <2>7
<1> QED
  BY <1>1, <1>2 DEF Unlist

-----------------------------------------------------------------------------
(* The elements of message i for device d have reached client c, or are owed. *)
Served(c, d, i) ==
    /\ d \in feed[i].positions => <<"positionUpdate", d, i>> \in got[c] \/ Owed(c, d, i)
    /\ d \in feed[i].devices   => <<"deviceUpdate", d, i>> \in got[c]
    /\ d \in feed[i].events    => <<"eventUpdate", d, i>> \in got[c]

(* What was owed when message i had been handled stays owed or is served.   *)
LEMMA ServedStays ==
    ASSUME TypeOK, NEW c \in Clients, NEW d \in Devices, NEW i \in 1..Len(feed), Served(c, d, i),
           got[c] \subseteq got'[c], feed'[i] = feed[i],
           Owed(c, d, i) => Owed(c, d, i)' \/ <<"positionUpdate", d, i>> \in got'[c]
    PROVE  Served(c, d, i)'
  BY DEF Served

(* The message just handled is served to every listener.                    *)
LEMMA HandledIsServed ==
    ASSUME TypeOK, HandleTraccarMessage, NEW c \in Clients, NEW d \in Passing,
           c \in Listeners(d), NEW i, i = heard + 1
    PROVE  Served(c, d, i)'
<1> DEFINE m == feed[i]
           b == [Finished EXCEPT !.left = m.positions \cap Passing]
<1>1. i \in Messages /\ i \in 1..Len(feed) /\ feed' = feed /\ heard' = i
  BY GatewayAssumption DEF HandleTraccarMessage, TypeOK, Messages
<1>2. m \in Report
  BY <1>1 DEF TypeOK
<1>3. c \in sockets /\ c \in ToSet(SocketIds(d))
  BY DEF Listeners
<1>4. d \in Devices
  BY DEF Passing
<1>5. got'[c] = got[c] \cup EmittedNow(c, i, m)
  BY DEF HandleTraccarMessage
<1>6. RunOn(i, b)
  BY DEF HandleTraccarMessage
<1> HIDE DEF m
<1>7. ASSUME d \in m.positions PROVE Owed(c, d, i)'
  <2>1. b.todo = <<>> /\ b.left \in SUBSET Devices /\ d \in b.left
    BY <1>2, <1>7 DEF Finished, Report
  <2> HIDE DEF b
  <2> QED
    BY <1>1, <1>3, <1>4, <1>6, <2>1, RunOnOwes
<1>8. /\ d \in m.devices => <<"deviceUpdate", d, i>> \in got'[c]
      /\ d \in m.events  => <<"eventUpdate", d, i>> \in got'[c]
  BY <1>4, <1>5 DEF EmittedNow
<1> QED
  BY <1>1, <1>7, <1>8 DEF Served, m

(* A broadcast that has its address keeps what it owes, or delivers it.     *)
LEMMA PopulatedOwes ==
    ASSUME TypeOK, NEW i \in Messages, AddressPopulated(i),
           NEW c \in Clients, NEW d \in Devices, c \in Listeners(d),
           NEW j \in Messages, Owed(c, d, j)
    PROVE  Owed(c, d, j)' \/ <<"positionUpdate", d, j>> \in got'[c]
<1> DEFINE b == broadcasts[i]
<1>1. b \in Broadcast
  BY BroadcastTyped DEF AddressPopulated
<1>2. /\ b.todo \in Seq(Clients) /\ b.of \in Devices /\ b.left \in SUBSET Devices
      /\ RunOn(i, b)
  BY <1>1 DEF Broadcast, AddressPopulated
<1>3. c \in sockets /\ c \in ToSet(SocketIds(d))
  BY DEF Listeners
<1>4. CASE j # i
  <2>1. broadcasts'[j] = broadcasts[j]
    BY <1>2, <1>4 DEF RunOn, Await, TypeOK
  <2> QED
    BY <2>1 DEF Owed
<1>5. CASE j = i /\ b.of = d /\ b.to = c
  BY <1>3, <1>5 DEF AddressPopulated, TypeOK
<1>6. CASE j = i /\ b.of = d /\ Contains(b.todo, c)
  <2>1. c \in ToSet(b.todo)
    BY <1>2, <1>6, Members
  <2> HIDE DEF b
  <2> QED
    BY <1>2, <1>3, <1>6, <2>1, RunOnOwes
<1>7. CASE j = i /\ d \in b.left
  <2> HIDE DEF b
  <2> QED
    BY <1>2, <1>3, <1>7, RunOnOwes
<1> QED
  BY <1>4, <1>5, <1>6, <1>7 DEF Owed

LEMMA SkippedNever == TypeOK /\ FilterMatchesMap /\ NobodySkipped /\ [Next]_vars => NobodySkipped'
<1> SUFFICES ASSUME TypeOK, FilterMatchesMap, NobodySkipped, [Next]_vars,
                    NEW c \in sockets', NEW d \in Devices, NEW i \in 1..heard',
                    c \in Listeners(d)', since'[c][d] < i,
                    d \notin strung' \/ d \in passed'[i]
             PROVE  Served(c, d, i)'
  BY DEF NobodySkipped, Served
<1> USE GatewayAssumption
<1>1. c \in Clients /\ i \in Messages /\ Len(feed) \in Nat /\ heard \in 0..Len(feed)
  <2>1. TypeOK'
    BY TypeKept
  <2> QED
    BY <2>1 DEF TypeOK, Messages
<1> DEFINE Passes == d \notin strung \/ d \in passed[i]
           Before == /\ c \in sockets /\ i \in 1..heard /\ c \in Listeners(d)
                     /\ since[c][d] < i /\ Passes
<1>2. ASSUME Before PROVE Served(c, d, i) /\ i \in 1..Len(feed)
  BY <1>1, <1>2 DEF NobodySkipped, Served
<1>3. ASSUME UNCHANGED <<sockets, registry, heard, passed, broadcasts, got>>,
             \A j \in 1..heard : feed'[j] = feed[j]
      PROVE  Served(c, d, i)'
  <2>1. Before
    BY <1>3 DEF registry, Listeners, SocketIds
  <2>2. Owed(c, d, i)' <=> Owed(c, d, i)
    BY <1>3 DEF Owed
  <2> QED
    BY <1>1, <1>2, <1>3, <2>1, <2>2, ServedStays
<1>4. ASSUME NEW x \in Clients, HandleConnection(x) PROVE Served(c, d, i)'
  <2>1. SocketIds(d)' = SocketIds(d) /\ sockets' = sockets \cup {x}
    BY <1>4 DEF HandleConnection, registry, SocketIds
  <2>2. x \notin ToSet(SocketIds(d))
    BY <1>4, SocketIdsTyped, Members DEF HandleConnection, Forgotten, IdSet
  <2>3. Before
    BY <1>4, <2>1, <2>2 DEF HandleConnection, registry, messages, Listeners
  <2>4. (Owed(c, d, i)' <=> Owed(c, d, i)) /\ got' = got /\ feed' = feed
    BY <1>4 DEF HandleConnection, Owed, history, messages
  <2> QED
    BY <1>1, <1>2, <2>3, <2>4, ServedStays
<1>5. ASSUME NEW x \in Clients, NEW D, Unlist(x, D), UNCHANGED messages,
             sockets' \subseteq sockets, got'[c] = got[c], c # x \/ d \notin D,
             d \notin Vacated(x, D) => (d \notin strung' => d \notin strung)
      PROVE  Served(c, d, i)'
  <2>1. c \in ToSet(SocketIds(d)') /\ c \in sockets'
    BY DEF Listeners
  <2>2. c \in ToSet(SocketIds(d))
    BY <1>5, <2>1, UnlistEffect
  <2>3. since'[c][d] = since[c][d]
    BY <1>1, <1>5 DEF Unlist, TypeOK
  <2>4. Before
    <3>1. d \notin Vacated(x, D)
      <4>1. ASSUME d \in Vacated(x, D) PROVE SocketIds(d)' = <<>>
        BY <1>5, <4>1 DEF Unlist, SocketIds
      <4>2. ToSet(<<>>) = {}
        BY DEF ToSet
      <4> QED
        BY <2>1, <4>1, <4>2
    <3>2. Passes
      BY <1>5, <3>1 DEF messages
    <3> QED
      BY <1>5, <2>1, <2>2, <2>3, <3>2 DEF Listeners, messages
  <2>5. Owed(c, d, i) => Owed(c, d, i)'
    BY <1>1, <1>5, <2>1, UnlistOwes
  <2> QED
    BY <1>1, <1>2, <1>5, <2>4, <2>5, ServedStays DEF messages
<1>6. ASSUME NEW x \in Clients, HandleDisconnect(x) PROVE Served(c, d, i)'
  <2> DEFINE D == {e \in DOMAIN deviceSubscriptions : Contains(deviceSubscriptions[e], x)}
  <2>1. /\ Unlist(x, D) /\ UNCHANGED messages
        /\ sockets' = sockets \ {x} /\ got' = [got EXCEPT ![x] = {}]
        /\ strung \ Vacated(x, D) \subseteq strung'
    BY <1>6 DEF HandleDisconnect
  <2> HIDE DEF D
  <2>2. c # x /\ got'[c] = got[c]
    BY <1>1, <2>1 DEF TypeOK
  <2>3. d \notin Vacated(x, D) => (d \notin strung' => d \notin strung)
    BY <2>1
  <2> QED
    BY <1>5, <2>1, <2>2, <2>3
<1>7. ASSUME NEW x \in Clients, NEW id \in Id, HandleUnsubscribeFromDevice(x, id)
      PROVE  Served(c, d, i)'
  <2> DEFINE e == NameOf(id)
  <2>1. Unlist(x, {e}) /\ UNCHANGED <<sockets, messages, got>>
    BY <1>7 DEF HandleUnsubscribeFromDevice
  <2>2. c # x \/ d \notin {e}
    <3>1. ASSUME c = x, d = e PROVE c \notin ToSet(SocketIds(d)')
      BY <2>1, <3>1, UnlistEffect
    <3> QED
      BY <3>1 DEF Listeners
  <2>3. d \notin Vacated(x, {e}) => (d \notin strung' => d \notin strung)
    BY <1>7 DEF HandleUnsubscribeFromDevice
  <2> QED
    BY <1>5, <2>1, <2>2, <2>3
<1>8. ASSUME NEW k \in Calls, DeviceFound(k) PROVE Served(c, d, i)'
  <2> DEFINE x == calls[k].client
             id == calls[k].id
             e == NameOf(id)
  <2>1. x \in Clients /\ id \in Id /\ e \in Names
    BY <1>8, CallTyped DEF DeviceFound
  <2>2. Enlist(x, id) /\ UNCHANGED <<sockets, feed, heard, passed, got>>
    BY <1>8 DEF DeviceFound, messages
  <2> HIDE DEF x, id
  <2>3. ToSet(SocketIds(d)') = IF d = e THEN ToSet(SocketIds(d)) \cup {x} ELSE ToSet(SocketIds(d))
    BY <2>1, <2>2, EnlistEffect
  <2>4. CASE c = x /\ d = e /\ ~ Contains(SocketIds(e), x)
    <3>1. since'[c][d] = heard
      BY <1>1, <2>2, <2>4 DEF Enlist, TypeOK
    <3> QED
      BY <1>1, <2>2, <3>1
  <2>5. CASE ~ (c = x /\ d = e /\ ~ Contains(SocketIds(e), x))
    <3>1. since'[c][d] = since[c][d]
      BY <1>1, <2>1, <2>2, <2>5 DEF Enlist, TypeOK
    <3>2. c \in ToSet(SocketIds(d))
      BY <2>3, <2>5, SocketIdsTyped, Members DEF Listeners, IdSet
    <3>3. d \notin strung' => d \notin strung
      <4>1. d \in DOMAIN deviceSubscriptions
        BY <3>2 DEF SocketIds, ToSet
      <4>2. strung' # strung => strung' = strung \cup ({e} \cap Devices) \/ d # e
        BY <2>2, <4>1 DEF Enlist
      <4>3. strung \ {e} \subseteq strung'
        BY <2>2 DEF Enlist
      <4> QED
        BY <4>2, <4>3
    <3>5. Before
      BY <2>2, <3>1, <3>2, <3>3 DEF Listeners
    <3>4. Owed(c, d, i) => Owed(c, d, i)'
      BY <1>1, <2>1, <2>2, EnlistOwes
    <3> QED
      BY <1>1, <1>2, <2>2, <3>4, <3>5, ServedStays
  <2> QED
    BY <2>4, <2>5
<1>9. CASE TraccarReports
  <2>1. \A j \in 1..heard : feed'[j] = feed[j]
    BY <1>1, <1>9 DEF TraccarReports, TypeOK
  <2> QED
    BY <1>3, <1>9, <2>1 DEF TraccarReports, history
<1>10. CASE HandleTraccarMessage
  <2>1. /\ heard' = heard + 1 /\ feed' = feed /\ UNCHANGED <<sockets, registry>>
        /\ got[c] \subseteq got'[c]
        /\ RunOn(heard + 1, [Finished EXCEPT !.left = feed[heard + 1].positions \cap Passing])
        /\ passed' = [passed EXCEPT ![heard + 1] = Passing]
    BY <1>1, <1>10 DEF HandleTraccarMessage, TypeOK
  <2>2. c \in Listeners(d) /\ c \in sockets /\ since[c][d] < i
    BY <2>1 DEF registry, Listeners, SocketIds
  <2>3. CASE i = heard + 1
    <3>1. d \in DOMAIN deviceSubscriptions
      BY <2>2 DEF Listeners, SocketIds, ToSet
    <3>2. d \in Passing
      <4>1. passed'[i] = Passing
        BY <1>1, <2>1, <2>3 DEF TypeOK
      <4>2. strung' = strung
        BY <2>1 DEF registry
      <4> QED
        BY <3>1, <4>1, <4>2 DEF FilterMatchesMap
    <3> QED
      BY <1>1, <1>10, <2>2, <2>3, <3>2, HandledIsServed
  <2>4. CASE i # heard + 1
    <3>1. Before
      <4>1. passed'[i] = passed[i] /\ strung' = strung
        BY <2>1, <2>4 DEF registry, TypeOK
      <4> QED
        BY <1>1, <2>1, <2>2, <2>4, <4>1
    <3>2. broadcasts'[i] = broadcasts[i]
      BY <1>1, <2>1, <2>4 DEF RunOn, Await, TypeOK
    <3>3. Owed(c, d, i) => Owed(c, d, i)'
      BY <3>2 DEF Owed
    <3> QED
      BY <1>1, <1>2, <2>1, <3>1, <3>3, ServedStays
  <2> QED
    BY <2>3, <2>4
<1>11. ASSUME NEW j \in Messages, AddressPopulated(j) PROVE Served(c, d, i)'
  <2>1. UNCHANGED <<sockets, registry, feed, heard, passed>> /\ got[c] \subseteq got'[c]
    BY <1>1, <1>11 DEF AddressPopulated, messages, TypeOK
  <2>2. Before
    BY <2>1 DEF registry, Listeners, SocketIds
  <2>3. Owed(c, d, i) => Owed(c, d, i)' \/ <<"positionUpdate", d, i>> \in got'[c]
    BY <1>1, <1>11, <2>2, PopulatedOwes
  <2> QED
    BY <1>1, <1>2, <2>1, <2>2, <2>3, ServedStays
<1>12. CASE ClientStep
  BY <1>3, <1>4, <1>6, <1>7, <1>12 DEF ClientStep, Subscribe, messages, history
<1>13. CASE CallStep
  <2>1. ASSUME NEW k \in Calls, SnapshotReady(k) PROVE Served(c, d, i)'
    <3>1. /\ UNCHANGED <<sockets, registry, feed, heard, passed, broadcasts>>
          /\ got[c] \subseteq got'[c]
      BY <1>1, <2>1 DEF SnapshotReady, messages, TypeOK
    <3>2. Before
      BY <3>1 DEF registry, Listeners, SocketIds
    <3>3. Owed(c, d, i)' <=> Owed(c, d, i)
      BY <3>1 DEF Owed
    <3> QED
      BY <1>1, <1>2, <3>1, <3>2, <3>3, ServedStays
  <2> QED
    BY <1>3, <1>8, <1>13, <2>1 DEF CallStep, PositionsRead, SubscribeFails, messages, history
<1>14. CASE FeedStep
  BY <1>9, <1>10, <1>11, <1>14 DEF FeedStep
<1>15. CASE UNCHANGED vars
  BY <1>3, <1>15 DEF vars, messages, history
<1> QED
  BY <1>12, <1>13, <1>14, <1>15 DEF Next

(* A client connected and subscribed since before a message was handled has *)
(* received every element of it for its device, or the broadcast of the     *)
(* message is still on its way to it, however the Sets change under it; of  *)
(* devices whose entries strings have opened or closed this is so when the  *)
(* device was in the filter as the message was handled.                     *)
THEOREM SubscribersServed == Spec => []NobodySkipped
<1>1. Init => NobodySkipped
  BY DEF Init, NobodySkipped
<1> QED
  BY <1>1, SkippedNever, TypeCorrect, TablesAgree, PTL DEF Spec

-----------------------------------------------------------------------------
(* The iterator of broadcast i follows its Set: it has no id to visit twice *)
(* or that is not in the Set, and none at all once the Set has left the map.*)
Iterates(i) ==
    LET b == broadcasts[i] IN
    /\ IsInjective(b.todo)
    /\ ToSet(b.todo) \subseteq ToSet(SocketIds(b.of))
    /\ b.attached \/ b.todo = <<>>

(* The client whose address look-up is awaited has had an answer.           *)
WasTold(i) ==
    broadcasts[i].to \in sockets => told[broadcasts[i].to][broadcasts[i].of] # "nothing"

FanOutInv == \A i \in Messages : Iterates(i) /\ WasTold(i)

LEMMA EmptySet ==
    /\ IsInjective(<<>>) /\ ToSet(<<>>) = {}
    /\ \A s \in Seq(Clients) : ToSet(s) = {} => s = <<>>
<1>1. IsInjective(<<>>) /\ ToSet(<<>>) = {}
  BY DEF IsInjective, ToSet
<1>2. ASSUME NEW s \in Seq(Clients), s # <<>> PROVE ToSet(s) # {}
  <2>1. 1 \in DOMAIN s
    BY <1>2
  <2> QED
    BY <2>1 DEF ToSet
<1> QED
  BY <1>1, <1>2

(* A listener has had an answer. *)
LEMMA ListenersWereTold ==
    ASSUME ConfirmationsAreTrue, NEW c \in sockets, NEW d \in Devices, c \in ToSet(SocketIds(d))
    PROVE  told[c][d] # "nothing"
  BY DEF ConfirmationsAreTrue, Listeners

LEMMA AwaitFanOut ==
    ASSUME TypeOK, ConfirmationsAreTrue, NEW i \in Messages, NEW d \in Devices, NEW s \in IdSet,
           NEW p \in DOMAIN s, NextStop(s, p), NEW left, Await(i, d, s, p, left),
           ToSet(s) \subseteq ToSet(SocketIds(d)),
           UNCHANGED <<sockets, deviceSubscriptions, told>>
    PROVE  Iterates(i)' /\ WasTold(i)'
<1> DEFINE r == SubSeq(s, p + 1, Len(s))
           b == [of |-> d, to |-> s[p], todo |-> r, attached |-> TRUE, left |-> left]
<1>1. broadcasts'[i] = b
  BY DEF Await, TypeOK
<1>2. s \in Seq(Clients) /\ IsInjective(s) /\ p \in 1..Len(s)
  BY DEF IdSet
<1>3. IsInjective(r) /\ ToSet(r) \subseteq ToSet(s)
  <2>1. ToSet(r) = {s[j] : j \in p + 1..Len(s)} /\ IsInjective(r)
    BY <1>2, SetRest
  <2> HIDE DEF r
  <2> QED
    BY <1>2, <2>1 DEF ToSet
<1>4. SocketIds(d)' = SocketIds(d)
  BY DEF SocketIds
<1>5. Iterates(i)'
  <2> HIDE DEF r
  <2> QED
    BY <1>1, <1>3, <1>4 DEF Iterates, SocketIds
<1>6. WasTold(i)'
  <2>1. s[p] \in sockets /\ s[p] \in ToSet(SocketIds(d))
    BY <1>2 DEF NextStop, ToSet
  <2> QED
    BY <1>1, <2>1, ListenersWereTold DEF WasTold
<1> QED
  BY <1>5, <1>6

LEMMA RunOnFanOut ==
    ASSUME TypeOK, ConfirmationsAreTrue, FanOutInv, NEW i \in Messages, NEW b, RunOn(i, b),
           \/ b.todo = <<>>
           \/ /\ b.todo \in IdSet /\ b.of \in Devices
              /\ ToSet(b.todo) \subseteq ToSet(SocketIds(b.of)),
           b.left \in SUBSET Devices,
           UNCHANGED <<sockets, deviceSubscriptions, told>>
    PROVE  FanOutInv'
<1>1. ASSUME NEW j \in Messages, j # i PROVE Iterates(j)' /\ WasTold(j)'
  <2>1. broadcasts'[j] = broadcasts[j]
    BY <1>1 DEF RunOn, Await, TypeOK
  <2> QED
    BY <2>1 DEF FanOutInv, Iterates, WasTold, SocketIds
<1>2. Iterates(i)' /\ WasTold(i)'
  <2>1. ASSUME NEW p \in DOMAIN b.todo, NextStop(b.todo, p), Await(i, b.of, b.todo, p, b.left)
        PROVE  Iterates(i)' /\ WasTold(i)'
    BY <2>1, AwaitFanOut
  <2>2. ASSUME NEW d \in b.left, NEW p \in DOMAIN SocketIds(d), NextStop(SocketIds(d), p),
               Await(i, d, SocketIds(d), p, b.left \ {d})
        PROVE  Iterates(i)' /\ WasTold(i)'
    BY <2>2, AwaitFanOut, SocketIdsTyped
  <2>3. ASSUME broadcasts' = [broadcasts EXCEPT ![i] = Finished]
        PROVE  Iterates(i)' /\ WasTold(i)'
    <3>1. broadcasts'[i] = Finished
      BY <2>3 DEF TypeOK
    <3>2. Iterates(i)'
      BY <3>1, EmptySet DEF Iterates, Finished
    <3>3. NoClient \notin sockets'
      BY GatewayAssumption DEF TypeOK
    <3> QED
      BY <3>1, <3>2, <3>3 DEF WasTold, Finished
  <2> QED
    BY <2>1, <2>2, <2>3 DEF RunOn
<1> QED
  BY <1>1, <1>2 DEF FanOutInv

(* A member that joins the Set joins the rest of its iterators.             *)
LEMMA EnlistIterates ==
    ASSUME TypeOK, NEW c \in Clients, NEW id \in Id, Enlist(c, id),
           NEW i \in Messages, Iterates(i)
    PROVE  /\ Iterates(i)'
           /\ broadcasts'[i].to = broadcasts[i].to
           /\ broadcasts'[i].of = broadcasts[i].of
<1> DEFINE b == broadcasts[i]
           d == NameOf(id)
<1>0. d \in Names
  BY IdIs
<1>1. CASE broadcasts'[i] = b /\ b.todo = <<>>
  BY <1>1, EmptySet DEF Iterates
<1>2. CASE broadcasts'[i] = b /\ b.todo # <<>>
  <2>1. b \in Broadcast
    BY <1>2 DEF TypeOK, Finished
  <2>2. PICK e \in Devices : e = b.of
    BY <2>1 DEF Broadcast
  <2>3. ToSet(SocketIds(e)) \subseteq ToSet(SocketIds(e)')
    BY <1>0, EnlistEffect
  <2> QED
    BY <1>2, <2>2, <2>3 DEF Iterates, SocketIds
<1>3. CASE /\ ~ Contains(SocketIds(d), c) /\ b.attached /\ b.of = d
           /\ broadcasts'[i] = [b EXCEPT !.todo = Append(@, c)]
  <2>1. b \in Broadcast
    BY <1>3 DEF TypeOK, Finished
  <2>2. b.todo \in Seq(Clients) /\ IsInjective(b.todo) /\ ToSet(b.todo) \subseteq ToSet(SocketIds(d))
    BY <1>3, <2>1 DEF Broadcast, Iterates
  <2>3. c \notin ToSet(SocketIds(d))
    BY <1>0, <1>3, SocketIdsTyped, Members DEF IdSet
  <2>4. IsInjective(Append(b.todo, c)) /\ ToSet(Append(b.todo, c)) = ToSet(b.todo) \cup {c}
    BY <2>2, <2>3, SetInsert
  <2>5. ToSet(Append(b.todo, c)) \subseteq ToSet(SocketIds(d)')
    BY <1>0, <2>2, <2>4, EnlistEffect
  <2>6. /\ broadcasts'[i].of = d /\ broadcasts'[i].to = b.to
        /\ broadcasts'[i].attached /\ broadcasts'[i].todo = Append(b.todo, c)
    BY <1>3, <2>1 DEF Broadcast
  <2> QED
    BY <1>3, <2>4, <2>5, <2>6 DEF Iterates, SocketIds
<1> QED
  BY <1>1, <1>2, <1>3 DEF Enlist

(* A member that leaves the Set leaves the rest of its iterators.           *)
LEMMA UnlistIterates ==
    ASSUME TypeOK, NEW c \in Clients, NEW D, Unlist(c, D), NEW i \in Messages, Iterates(i)
    PROVE  /\ Iterates(i)'
           /\ broadcasts'[i].to = broadcasts[i].to
           /\ broadcasts'[i].of = broadcasts[i].of
<1> DEFINE b == broadcasts[i]
           t == RemoveFirst(b.todo, c)
           a == b.of \notin Vacated(c, D)
<1>1. CASE broadcasts'[i] = b /\ b.todo = <<>>
  BY <1>1, EmptySet DEF Iterates
<1>2. CASE broadcasts'[i] = b /\ b.todo # <<>> /\ b.of \notin D
  <2>1. b \in Broadcast
    BY <1>2 DEF TypeOK, Finished
  <2>2. PICK e \in Devices : e = b.of
    BY <2>1 DEF Broadcast
  <2>3. ToSet(SocketIds(e)) \subseteq ToSet(SocketIds(e)')
    BY <1>2, <2>2, UnlistEffect
  <2> QED
    BY <1>2, <2>2, <2>3 DEF Iterates, SocketIds
<1>3. CASE /\ b.attached /\ b.of \in D
           /\ broadcasts'[i] = [b EXCEPT !.todo = RemoveFirst(@, c), !.attached = a]
  <2>1. b \in Broadcast
    BY <1>3 DEF TypeOK, Finished
  <2>2. PICK e \in Devices : e = b.of
    BY <2>1 DEF Broadcast
  <2>3. b.todo \in Seq(Clients) /\ IsInjective(b.todo) /\ ToSet(b.todo) \subseteq ToSet(SocketIds(e))
    BY <2>1, <2>2 DEF Broadcast, Iterates
  <2>4. t \in Seq(Clients) /\ IsInjective(t) /\ ToSet(t) = ToSet(b.todo) \ {c}
    BY <2>3, SetDelete
  <2>5. ToSet(t) \subseteq ToSet(SocketIds(e)')
    BY <1>3, <2>2, <2>3, <2>4, UnlistEffect
  <2>6. a \/ t = <<>>
    <3>1. ASSUME e \in Vacated(c, D) PROVE ToSet(SocketIds(e)) \subseteq {c}
      BY <3>1 DEF Vacated, SocketIds
    <3> HIDE DEF t
    <3> QED
      BY <2>2, <2>3, <2>4, <3>1, EmptySet DEF a
  <2> HIDE DEF t, a
  <2>7. /\ broadcasts'[i].of = e /\ broadcasts'[i].to = b.to
        /\ broadcasts'[i].attached = a /\ broadcasts'[i].todo = t
    BY <1>3, <2>1, <2>2 DEF Broadcast, t
  <2> QED
    BY <2>2, <2>4, <2>5, <2>6, <2>7 DEF Iterates, SocketIds
<1> QED
  BY <1>1, <1>2, <1>3 DEF Unlist, Iterates

(* An answer leaves no one without an answer who had one.                   *)
LEMMA AnswerTells ==
    ASSUME TypeOK, NEW c \in Clients, NEW d \in Names, NEW a, a # "nothing", Answer(c, d, a),
           NEW x \in Clients, NEW e \in Names, told'[x][e] = "nothing"
    PROVE  told[x][e] = "nothing"
  BY DEF Answer, TypeOK

(* What a change of told must keep for the broadcasts, which go on as before.*)
LEMMA WasToldKept ==
    ASSUME TypeOK, NEW i \in Messages, WasTold(i),
           broadcasts'[i].to = broadcasts[i].to, broadcasts'[i].of = broadcasts[i].of,
           sockets' = sockets,
           \A x \in Clients, e \in Names : told'[x][e] = "nothing" => told[x][e] = "nothing"
    PROVE  WasTold(i)'
<1> SUFFICES ASSUME broadcasts[i].to \in sockets
             PROVE  told'[broadcasts[i].to][broadcasts[i].of] # "nothing"
  BY DEF WasTold
<1>1. broadcasts[i].to # NoClient
  BY GatewayAssumption DEF TypeOK
<1>2. broadcasts[i].to \in Clients /\ broadcasts[i].of \in Devices
  BY <1>1, BroadcastTyped DEF Broadcast
<1> QED
  BY <1>2 DEF WasTold

LEMMA FanOutKept == TypeOK /\ ToldInv /\ FanOutInv /\ [Next]_vars => FanOutInv'
<1> SUFFICES ASSUME TypeOK, ConfirmationsAreTrue, FanOutInv, [Next]_vars PROVE FanOutInv'
  BY DEF ToldInv
<1>1. ASSUME UNCHANGED <<deviceSubscriptions, broadcasts, sockets, told>> PROVE FanOutInv'
  BY <1>1 DEF FanOutInv, Iterates, WasTold, SocketIds
<1>2. ASSUME NEW c \in Clients, HandleConnection(c) PROVE FanOutInv'
  BY <1>2 DEF HandleConnection, Forgotten, registry, history, FanOutInv, Iterates, WasTold, SocketIds
<1>3. ASSUME NEW c \in Clients, HandleDisconnect(c) PROVE FanOutInv'
  <2> DEFINE D == {d \in DOMAIN deviceSubscriptions : Contains(deviceSubscriptions[d], c)}
  <2>1. /\ Unlist(c, D) /\ sockets' = sockets \ {c}
        /\ told' = [told EXCEPT ![c] = [d \in Names |-> "nothing"]]
    BY <1>3 DEF HandleDisconnect
  <2> HIDE DEF D
  <2> SUFFICES ASSUME NEW i \in Messages PROVE Iterates(i)' /\ WasTold(i)'
    BY DEF FanOutInv
  <2>2. Iterates(i) /\ WasTold(i)
    BY DEF FanOutInv
  <2>3. /\ Iterates(i)' /\ broadcasts'[i].to = broadcasts[i].to
        /\ broadcasts'[i].of = broadcasts[i].of
    BY <2>1, <2>2, UnlistIterates
  <2> QED
    BY <2>1, <2>2, <2>3 DEF WasTold, TypeOK
<1>4. ASSUME NEW c \in Clients, NEW id \in Id, HandleUnsubscribeFromDevice(c, id)
      PROVE  FanOutInv'
  <2> DEFINE d == NameOf(id)
  <2>0. d \in Names
    BY IdIs
  <2>1. /\ Unlist(c, {d}) /\ sockets' = sockets
        /\ told' = told \/ Answer(c, d, "unsubscribed")
    BY <1>4 DEF HandleUnsubscribeFromDevice, Answer
  <2> SUFFICES ASSUME NEW i \in Messages PROVE Iterates(i)' /\ WasTold(i)'
    BY DEF FanOutInv
  <2>2. Iterates(i) /\ WasTold(i)
    BY DEF FanOutInv
  <2>3. /\ Iterates(i)' /\ broadcasts'[i].to = broadcasts[i].to
        /\ broadcasts'[i].of = broadcasts[i].of
    BY <2>1, <2>2, UnlistIterates
  <2>4. \A x \in Clients, e \in Names : told'[x][e] = "nothing" => told[x][e] = "nothing"
    BY <2>0, <2>1, AnswerTells
  <2> QED
    BY <2>1, <2>2, <2>3, <2>4, WasToldKept
<1>5. ASSUME NEW k \in Calls, DeviceFound(k) PROVE FanOutInv'
  <2> DEFINE c == calls[k].client
             id == calls[k].id
             d == NameOf(id)
  <2>1. c \in Clients /\ id \in Id /\ d \in Names
    BY <1>5, CallTyped DEF DeviceFound
  <2>2. Enlist(c, id) /\ Answer(c, d, "subscribed") /\ sockets' = sockets
    BY <1>5 DEF DeviceFound
  <2> HIDE DEF c, id
  <2> SUFFICES ASSUME NEW i \in Messages PROVE Iterates(i)' /\ WasTold(i)'
    BY DEF FanOutInv
  <2>3. Iterates(i) /\ WasTold(i)
    BY DEF FanOutInv
  <2>4. /\ Iterates(i)' /\ broadcasts'[i].to = broadcasts[i].to
        /\ broadcasts'[i].of = broadcasts[i].of
    BY <2>1, <2>2, <2>3, EnlistIterates
  <2>5. \A x \in Clients, e \in Names : told'[x][e] = "nothing" => told[x][e] = "nothing"
    BY <2>1, <2>2, AnswerTells
  <2> QED
    BY <2>2, <2>3, <2>4, <2>5, WasToldKept
<1>6. ASSUME NEW k \in Calls, SubscribeFails(k) PROVE FanOutInv'
  <2>1. calls[k].client \in Clients /\ NameOf(calls[k].id) \in Names
    BY <1>6, CallTyped DEF SubscribeFails
  <2>2. \A x \in Clients, e \in Names : told'[x][e] = "nothing" => told[x][e] = "nothing"
    <3>1. Answer(calls[k].client, NameOf(calls[k].id), "error")
      BY <1>6 DEF SubscribeFails
    <3> QED
      BY <2>1, <3>1, AnswerTells
  <2>3. UNCHANGED <<sockets, deviceSubscriptions, broadcasts>>
    BY <1>6 DEF SubscribeFails, registry
  <2>4. \A i \in Messages : WasTold(i)'
    BY <2>2, <2>3, WasToldKept DEF FanOutInv
  <2> QED
    BY <2>3, <2>4 DEF FanOutInv, Iterates, SocketIds
<1>7. CASE HandleTraccarMessage
  <2> DEFINE b(i) == [Finished EXCEPT !.left = feed[i].positions \cap Passing]
  <2>1. PICK i \in Messages : i = heard + 1 /\ RunOn(i, b(i))
    <3>1. heard + 1 \in Messages
      BY <1>7, GatewayAssumption DEF HandleTraccarMessage, TypeOK, Messages
    <3>2. RunOn(heard + 1, b(heard + 1))
      BY <1>7 DEF HandleTraccarMessage
    <3> HIDE DEF b
    <3> QED
      BY <3>1, <3>2
  <2>2. b(i).todo = <<>> /\ b(i).left \in SUBSET Devices
    BY DEF Finished, Passing
  <2> HIDE DEF b
  <2> QED
    BY <1>7, <2>1, <2>2, RunOnFanOut DEF HandleTraccarMessage, registry
<1>8. ASSUME NEW i \in Messages, AddressPopulated(i) PROVE FanOutInv'
  <2> DEFINE b == broadcasts[i]
  <2>1. b \in Broadcast
    BY <1>8, BroadcastTyped DEF AddressPopulated
  <2>2. /\ b.todo \in IdSet /\ b.of \in Devices /\ b.left \in SUBSET Devices
        /\ ToSet(b.todo) \subseteq ToSet(SocketIds(b.of))
    BY <2>1 DEF Broadcast, FanOutInv, Iterates, IdSet
  <2>3. RunOn(i, b) /\ UNCHANGED <<sockets, deviceSubscriptions, told>>
    BY <1>8 DEF AddressPopulated, registry
  <2> HIDE DEF b
  <2> QED
    BY <2>2, <2>3, RunOnFanOut
<1>9. CASE ClientStep
  BY <1>1, <1>2, <1>3, <1>4, <1>9, GatewayAssumption DEF ClientStep, Subscribe, registry, history
<1>10. CASE CallStep
  BY <1>1, <1>5, <1>6, <1>10 DEF CallStep, PositionsRead, SnapshotReady, registry, history
<1>11. CASE FeedStep
  BY <1>1, <1>7, <1>8, <1>11 DEF FeedStep, TraccarReports, registry, history
<1>12. CASE UNCHANGED vars
  BY <1>1, <1>12 DEF vars, registry, history
<1> QED
  BY <1>9, <1>10, <1>11, <1>12 DEF Next

(* A call past its confirmation has had an answer, while its client is there. *)
CallWasTold(k) ==
    calls[k].step \in {"read", "address"} /\ calls[k].client \in sockets =>
        told[calls[k].client][NameOf(calls[k].id)] # "nothing"

CallsInv == \A k \in Calls : CallWasTold(k)

LEMMA CallsKept == TypeOK /\ CallsInv /\ [Next]_vars => CallsInv'
<1> SUFFICES ASSUME TypeOK, CallsInv, [Next]_vars, NEW l \in Calls PROVE CallWasTold(l)'
  BY DEF CallsInv
<1>1. CallWasTold(l)
  BY DEF CallsInv
<1>2. ASSUME UNCHANGED <<sockets, calls, told>> PROVE CallWasTold(l)'
  BY <1>1, <1>2 DEF CallWasTold
<1>3. ASSUME NEW c \in Clients, HandleConnection(c) PROVE CallWasTold(l)'
  BY <1>1, <1>3 DEF HandleConnection, Forgotten, history, CallWasTold
<1>4. ASSUME NEW c \in Clients, HandleDisconnect(c) PROVE CallWasTold(l)'
  BY <1>1, <1>4 DEF HandleDisconnect, TypeOK, CallWasTold
<1>5. ASSUME calls'[l] = calls[l] \/ calls'[l].step \notin {"read", "address"},
             sockets' = sockets,
             \A x \in Clients, e \in Names : told'[x][e] = "nothing" => told[x][e] = "nothing"
      PROVE  CallWasTold(l)'
  <2> SUFFICES ASSUME calls'[l] = calls[l], calls[l].step \in {"read", "address"},
                      calls[l].client \in sockets
               PROVE  told'[calls[l].client][NameOf(calls[l].id)] # "nothing"
    BY <1>5 DEF CallWasTold
  <2>1. calls[l].client \in Clients /\ NameOf(calls[l].id) \in Names
    BY CallTyped
  <2> QED
    BY <1>1, <1>5, <2>1 DEF CallWasTold
<1>6. ASSUME NEW c \in Clients, NEW id \in Id, Subscribe(c, id) PROVE CallWasTold(l)'
  <2>1. PICK k \in Calls : calls' =
           [calls EXCEPT ![k] = [step |-> "verify", client |-> c, id |-> id, snap |-> 0]]
    BY <1>6 DEF Subscribe
  <2>2. calls'[l] = calls[l] \/ calls'[l].step = "verify"
    BY <2>1 DEF TypeOK
  <2> QED
    BY <1>5, <1>6, <2>2 DEF Subscribe, history
<1>7. ASSUME NEW c \in Clients, NEW id \in Id, HandleUnsubscribeFromDevice(c, id)
      PROVE  CallWasTold(l)'
  <2>1. NameOf(id) \in Names
    BY IdIs
  <2>2. told' = told \/ Answer(c, NameOf(id), "unsubscribed")
    BY <1>7 DEF HandleUnsubscribeFromDevice, Answer
  <2>3. \A x \in Clients, e \in Names : told'[x][e] = "nothing" => told[x][e] = "nothing"
    BY <2>1, <2>2, AnswerTells
  <2> QED
    BY <1>5, <1>7, <2>3 DEF HandleUnsubscribeFromDevice
<1>8. ASSUME NEW k \in Calls, DeviceFound(k) PROVE CallWasTold(l)'
  <2> DEFINE c == calls[k].client
             d == NameOf(calls[k].id)
  <2>1. c \in Clients /\ d \in Names /\ calls[k] \in Call
    BY <1>8, CallTyped DEF DeviceFound
  <2>2. /\ Answer(c, d, "subscribed") /\ sockets' = sockets
        /\ calls' = [calls EXCEPT ![k].step = "read"]
    BY <1>8 DEF DeviceFound
  <2>3. CASE l = k
    <3>1. calls'[l].client = c /\ calls'[l].id = calls[k].id
      BY <2>1, <2>2, <2>3 DEF TypeOK, Call
    <3>2. c \in sockets => told'[c][d] = "subscribed"
      BY <2>1, <2>2 DEF Answer, TypeOK
    <3> QED
      BY <2>2, <3>1, <3>2 DEF CallWasTold
  <2>4. CASE l # k
    <3>1. calls'[l] = calls[l]
      BY <2>2, <2>4 DEF TypeOK
    <3>2. \A x \in Clients, e \in Names : told'[x][e] = "nothing" => told[x][e] = "nothing"
      BY <2>1, <2>2, AnswerTells
    <3> QED
      BY <1>5, <2>2, <3>1, <3>2
  <2> QED
    BY <2>3, <2>4
<1>9. ASSUME NEW k \in Calls, PositionsRead(k) PROVE CallWasTold(l)'
  <2>1. /\ calls[k] \in Call /\ calls[k].step = "read" /\ UNCHANGED <<sockets, told>>
        /\ \E i \in 0..Len(feed) : calls' = [calls EXCEPT ![k] =
              IF i = 0 THEN IdleCall ELSE [@ EXCEPT !.step = "address", !.snap = i]]
    BY <1>9, CallTyped DEF PositionsRead, history
  <2>2. \/ calls'[l] = calls[l] \/ calls'[l] = IdleCall
        \/ /\ l = k
           /\ calls'[l].client = calls[l].client /\ calls'[l].id = calls[l].id
    BY <2>1 DEF TypeOK, Call
  <2> QED
    BY <1>1, <2>1, <2>2 DEF CallWasTold, IdleCall
<1>10. ASSUME NEW k \in Calls, SnapshotReady(k) PROVE CallWasTold(l)'
  <2>1. calls'[l] = calls[l] \/ calls'[l] = IdleCall
    BY <1>10 DEF SnapshotReady, TypeOK
  <2> QED
    BY <1>5, <1>10, <2>1 DEF SnapshotReady, IdleCall
<1>11. ASSUME NEW k \in Calls, SubscribeFails(k) PROVE CallWasTold(l)'
  <2>1. calls'[l] = calls[l] \/ calls'[l] = IdleCall
    BY <1>11 DEF SubscribeFails, TypeOK
  <2>2. calls[k].client \in Clients /\ NameOf(calls[k].id) \in Names
    BY <1>11, CallTyped DEF SubscribeFails
  <2>3. \A x \in Clients, e \in Names : told'[x][e] = "nothing" => told[x][e] = "nothing"
    <3>1. Answer(calls[k].client, NameOf(calls[k].id), "error")
      BY <1>11 DEF SubscribeFails
    <3> QED
      BY <2>2, <3>1, AnswerTells
  <2> QED
    BY <1>5, <1>11, <2>1, <2>3 DEF SubscribeFails, IdleCall
<1>12. CASE ClientStep
  BY <1>3, <1>4, <1>6, <1>7, <1>12, GatewayAssumption DEF ClientStep
<1>13. CASE CallStep
  BY <1>8, <1>9, <1>10, <1>11, <1>13 DEF CallStep
<1>14. CASE FeedStep
  BY <1>2, <1>14 DEF FeedStep, TraccarReports, HandleTraccarMessage, AddressPopulated, history
<1>15. CASE UNCHANGED vars
  BY <1>2, <1>15 DEF vars, history
<1> QED
  BY <1>12, <1>13, <1>14, <1>15 DEF Next

LEMMA AnswerFirst ==
    TypeOK /\ ToldInv /\ FanOutInv /\ CallsInv /\ OnlyAfterAnswer /\ [Next]_vars
      => OnlyAfterAnswer'
<1> SUFFICES ASSUME TypeOK, GoneIsSilent, ConfirmationsAreTrue, FanOutInv, CallsInv,
                    OnlyAfterAnswer, [Next]_vars, NEW c \in sockets', NEW d \in Names,
                    told'[c][d] = "nothing", NEW x \in got'[c]
             PROVE  x[2] # d
  BY DEF OnlyAfterAnswer, ToldInv
<1>1. c \in Clients
  BY TypeKept DEF TypeOK
<1>2. ASSUME c \in sockets, told[c][d] = "nothing", got'[c] = got[c] PROVE x[2] # d
  BY <1>2 DEF OnlyAfterAnswer
<1>3. ASSUME UNCHANGED <<sockets, told, got>> PROVE x[2] # d
  BY <1>2, <1>3
<1>4. ASSUME NEW y \in Clients, HandleConnection(y) PROVE x[2] # d
  BY <1>1, <1>2, <1>4 DEF HandleConnection, GoneIsSilent, history
<1>5. ASSUME NEW y \in Clients, HandleDisconnect(y) PROVE x[2] # d
  BY <1>1, <1>2, <1>5 DEF HandleDisconnect, TypeOK
<1>6. ASSUME NEW y \in Clients, NEW id \in Id, HandleUnsubscribeFromDevice(y, id)
      PROVE  x[2] # d
  BY <1>1, <1>2, <1>6 DEF HandleUnsubscribeFromDevice, TypeOK
<1>7. ASSUME NEW k \in Calls, DeviceFound(k) \/ SubscribeFails(k) PROVE x[2] # d
  <2>1. calls[k].client \in Clients /\ NameOf(calls[k].id) \in Names
    BY <1>7, CallTyped DEF DeviceFound, SubscribeFails
  <2>2. told[c][d] = "nothing"
    BY <1>1, <1>7, <2>1, AnswerTells DEF DeviceFound, SubscribeFails
  <2> QED
    BY <1>2, <1>7, <2>2 DEF DeviceFound, SubscribeFails
<1>8. CASE HandleTraccarMessage
  <2> DEFINE m == feed[heard + 1]
  <2>1. /\ sockets' = sockets /\ told' = told
        /\ got'[c] = got[c] \cup EmittedNow(c, heard + 1, m)
    BY <1>1, <1>8 DEF HandleTraccarMessage, TypeOK
  <2>2. \A e \in m.devices \cup m.events : c \in Listeners(e) => told[c][e] # "nothing"
    <3>1. heard + 1 \in 1..Len(feed)
      BY <1>8 DEF HandleTraccarMessage, TypeOK
    <3>2. m \in Report
      BY <3>1 DEF TypeOK
    <3> HIDE DEF m
    <3> QED
      BY <2>1, <3>2 DEF ConfirmationsAreTrue, Report
  <2> HIDE DEF m
  <2>3. CASE x \in got[c]
    BY <2>1, <2>3 DEF OnlyAfterAnswer
  <2>4. CASE x \in EmittedNow(c, heard + 1, m)
    BY <2>1, <2>2, <2>4 DEF EmittedNow
  <2> QED
    BY <2>1, <2>3, <2>4
<1>9. ASSUME NEW i \in Messages, AddressPopulated(i) PROVE x[2] # d
  <2>1. sockets' = sockets /\ told' = told
    BY <1>9 DEF AddressPopulated
  <2>2. CASE x \in got[c]
    BY <2>1, <2>2 DEF OnlyAfterAnswer
  <2>3. CASE x \notin got[c]
    <3>1. c = broadcasts[i].to /\ x = <<"positionUpdate", broadcasts[i].of, i>>
      BY <1>1, <1>9, <2>3 DEF AddressPopulated, TypeOK
    <3>2. told[c][broadcasts[i].of] # "nothing"
      BY <2>1, <3>1 DEF FanOutInv, WasTold
    <3> QED
      BY <2>1, <3>1, <3>2
  <2> QED
    BY <2>2, <2>3
<1>10. ASSUME NEW k \in Calls, SnapshotReady(k) PROVE x[2] # d
  <2> DEFINE y == calls[k].client
             n == NameOf(calls[k].id)
  <2>1. /\ sockets' = sockets /\ told' = told /\ calls[k].step = "address"
        /\ got' = IF y \in sockets
                  THEN [got EXCEPT ![y] = @ \cup {<<"snapshot", n, calls[k].snap>>}] ELSE got
    BY <1>10 DEF SnapshotReady
  <2>2. CASE x \in got[c]
    BY <2>1, <2>2 DEF OnlyAfterAnswer
  <2>3. CASE x \notin got[c]
    <3>1. c = y /\ x = <<"snapshot", n, calls[k].snap>>
      BY <1>1, <2>1, <2>3 DEF TypeOK
    <3>2. told[c][n] # "nothing"
      BY <2>1, <3>1 DEF CallsInv, CallWasTold
    <3> QED
      BY <2>1, <3>1, <3>2
  <2> QED
    BY <2>2, <2>3
<1>11. CASE ClientStep
  BY <1>3, <1>4, <1>5, <1>6, <1>11, GatewayAssumption DEF ClientStep, Subscribe, history
<1>12. CASE CallStep
  BY <1>3, <1>7, <1>10, <1>12 DEF CallStep, PositionsRead, history
<1>13. CASE FeedStep
  BY <1>3, <1>8, <1>9, <1>13 DEF FeedStep, TraccarReports, history
<1>14. CASE UNCHANGED vars
  BY <1>3, <1>14 DEF vars, history
<1> QED
  BY <1>11, <1>12, <1>13, <1>14 DEF Next

LEMMA CallsHold == Spec => []CallsInv
<1>1. Init => CallsInv
  BY DEF Init, CallsInv, CallWasTold, IdleCall
<1> QED
  BY <1>1, CallsKept, TypeCorrect, PTL DEF Spec

LEMMA FanOutHolds == Spec => []FanOutInv
<1>1. Init => FanOutInv
  BY EmptySet, GatewayAssumption DEF Init, FanOutInv, Iterates, WasTold, Finished
<1> QED
  BY <1>1, FanOutKept, TypeCorrect, ToldInvHolds, PTL DEF Spec

(* A client is sent data of a device only after it was told something about *)
(* it: broadcasts stop at members of the Set only, and those have had their *)
(* confirmation, and so has a call that has a snapshot to show.             *)
THEOREM AnsweredFirst == Spec => []OnlyAfterAnswer
<1>1. Init => OnlyAfterAnswer
  BY DEF Init, OnlyAfterAnswer
<1> QED
  BY <1>1, AnswerFirst, TypeCorrect, ToldInvHolds, FanOutHolds, CallsHold, PTL DEF Spec

-----------------------------------------------------------------------------
(* DevicesGateway implements LiveFeed: under the mapping LF every step of    *)
(* the gateway is a step of the abstract specification, or changes nothing   *)
(* of what it speaks of.                                                    *)

(* What is published is an element of a message that has been handled.      *)
LEMMA PublishedIs ==
    ASSUME TypeOK, NEW e
    PROVE  e \in Published <=>
             \E i \in 1..heard : \E d \in Devices :
                /\ d \in passed[i]
                /\ \/ e = <<"positionUpdate", d, i>> /\ d \in feed[i].positions
                   \/ e = <<"deviceUpdate", d, i>> /\ d \in feed[i].devices
                   \/ e = <<"eventUpdate", d, i>> /\ d \in feed[i].events
<1>1. ASSUME NEW i \in 1..heard PROVE feed[i] \in Report
  BY <1>1 DEF TypeOK
<1> QED
  BY <1>1 DEF Published, ElementsOf, Report

LEMMA PublishedTyped ==
    ASSUME TypeOK, NEW e \in Published
    PROVE  /\ e \in LF!Elements
           /\ e[2] \in Devices /\ e[3] \in 1..heard /\ e = <<e[1], e[2], e[3]>>
<1>1. PICK i \in 1..heard, d \in Devices :
         e \in {<<"positionUpdate", d, i>>, <<"deviceUpdate", d, i>>, <<"eventUpdate", d, i>>}
  BY PublishedIs
<1>2. i \in Messages
  BY GatewayAssumption DEF TypeOK, Messages
<1> QED
  BY <1>1, <1>2 DEF LF!Elements

(* Nothing is published but by handling a message. *)
LEMMA PublishedSame ==
    ASSUME heard' = heard, \A i \in 1..heard : feed'[i] = feed[i] /\ passed'[i] = passed[i]
    PROVE  Published' = Published
  BY DEF Published, ElementsOf

(* Adding and deleting socket ids leaves broadcasts where they are.         *)
LEMMA OpenSame ==
    ASSUME \A i \in Messages : /\ broadcasts'[i].to = broadcasts[i].to
                               /\ broadcasts'[i].of = broadcasts[i].of
                               /\ broadcasts'[i].left = broadcasts[i].left
    PROVE  Open' = Open
  BY DEF Open

LEMMA EnlistOpen ==
    ASSUME TypeOK, NEW c \in Clients, NEW id \in Id, Enlist(c, id)
    PROVE  Open' = Open
<1>1. ASSUME NEW i \in Messages
      PROVE  /\ broadcasts'[i].to = broadcasts[i].to
             /\ broadcasts'[i].of = broadcasts[i].of
             /\ broadcasts'[i].left = broadcasts[i].left
  <2> DEFINE b == broadcasts[i]
  <2>1. CASE broadcasts'[i] = b
    BY <2>1
  <2>2. CASE b.attached /\ broadcasts'[i] = [b EXCEPT !.todo = Append(@, c)]
    <3>1. b \in Broadcast
      BY <2>2 DEF TypeOK, Finished
    <3> QED
      BY <2>2, <3>1 DEF Broadcast
  <2> QED
    BY <2>1, <2>2 DEF Enlist
<1> QED
  BY <1>1, OpenSame

LEMMA UnlistOpen ==
    ASSUME TypeOK, NEW c \in Clients, NEW D, Unlist(c, D)
    PROVE  Open' = Open
<1>1. ASSUME NEW i \in Messages
      PROVE  /\ broadcasts'[i].to = broadcasts[i].to
             /\ broadcasts'[i].of = broadcasts[i].of
             /\ broadcasts'[i].left = broadcasts[i].left
  <2> DEFINE b == broadcasts[i]
             a == b.of \notin Vacated(c, D)
  <2>1. CASE broadcasts'[i] = b
    BY <2>1
  <2>2. CASE b.attached /\ broadcasts'[i] = [b EXCEPT !.todo = RemoveFirst(@, c), !.attached = a]
    <3>1. b \in Broadcast
      BY <2>2 DEF TypeOK, Finished
    <3> HIDE DEF a
    <3> QED
      BY <2>2, <3>1 DEF Broadcast
  <2> QED
    BY <2>1, <2>2 DEF Unlist
<1> QED
  BY <1>1, OpenSame

(* A broadcast that runs on opens nothing it had not before it.             *)
LEMMA RunOnOpen ==
    ASSUME TypeOK, NEW i \in Messages, NEW b, RunOn(i, b), NEW e \in Open'
    PROVE  /\ e = <<"positionUpdate", e[2], e[3]>> /\ e[2] \in Devices /\ e[3] \in Messages
           /\ IF e[3] = i THEN e[2] \in b.left \/ (b.todo # <<>> /\ e[2] = b.of)
                          ELSE e \in Open
<1>1. /\ e = <<"positionUpdate", e[2], e[3]>> /\ e[2] \in Devices /\ e[3] \in Messages
      /\ broadcasts'[e[3]].to # NoClient
      /\ e[2] \in {broadcasts'[e[3]].of} \cup broadcasts'[e[3]].left
  BY DEF Open
<1>2. CASE e[3] = i
  <2>1. CASE \E p \in DOMAIN b.todo : Await(i, b.of, b.todo, p, b.left)
    <3>1. broadcasts'[i].of = b.of /\ broadcasts'[i].left = b.left /\ b.todo # <<>>
      BY <2>1 DEF Await, TypeOK
    <3> QED
      BY <1>1, <1>2, <3>1
  <2>2. CASE \E d \in b.left : \E p \in DOMAIN SocketIds(d) :
                Await(i, d, SocketIds(d), p, b.left \ {d})
    <3>1. PICK d \in b.left : broadcasts'[i].of = d /\ broadcasts'[i].left = b.left \ {d}
      BY <2>2 DEF Await, TypeOK
    <3> QED
      BY <1>1, <1>2, <3>1
  <2>3. CASE broadcasts' = [broadcasts EXCEPT ![i] = Finished]
    BY <1>1, <1>2, <2>3 DEF Finished, TypeOK
  <2> QED
    BY <2>1, <2>2, <2>3 DEF RunOn
<1>3. CASE e[3] # i
  <2>1. broadcasts'[e[3]] = broadcasts[e[3]]
    BY <1>1, <1>3 DEF RunOn, Await, TypeOK
  <2> QED
    BY <1>1, <1>3, <2>1 DEF Open
<1> QED
  BY <1>1, <1>2, <1>3

-----------------------------------------------------------------------------
(* Broadcasts, clients and subscriptions know of handled messages only.     *)
HistoryInv ==
    /\ Open \subseteq Published
    /\ \A c \in Clients : \A e \in got[c] : e \in Published \/ e[1] = "snapshot"
    /\ \A c \in Clients, d \in Names : since[c][d] <= heard

(* Handling a message publishes what of it passes the filter. *)
LEMMA HandledAdds ==
    ASSUME TypeOK, NEW i, i = heard + 1, i \in 1..Len(feed), heard' = i, feed' = feed,
           passed' = [passed EXCEPT ![i] = Passing]
    PROVE  Published' = Published \cup ElementsOf(i)' /\ passed'[i] = Passing
<1>1. heard \in Nat /\ i \in Messages
  BY GatewayAssumption DEF TypeOK, Messages
<1>2. passed'[i] = Passing /\ \A j \in 1..heard : passed'[j] = passed[j]
  BY <1>1 DEF TypeOK
<1>3. \A j \in 1..heard : ElementsOf(j)' = ElementsOf(j)
  BY <1>2 DEF ElementsOf
<1>4. 1..heard' = (1..heard) \cup {i}
  BY <1>1
<1> HIDE DEF ElementsOf
<1>5. Published' = UNION {ElementsOf(j)' : j \in 1..heard'}
  BY DEF Published
<1> QED
  BY <1>2, <1>3, <1>4, <1>5 DEF Published

LEMMA HistoryKept == TypeOK /\ HistoryInv /\ [Next]_vars => HistoryInv'
<1> SUFFICES ASSUME TypeOK, HistoryInv, [Next]_vars PROVE HistoryInv'
  OBVIOUS
<1> USE GatewayAssumption
<1>1. heard \in Nat /\ heard \in 0..Len(feed) /\ Len(feed) \in Nat
  BY DEF TypeOK
<1>2. ASSUME UNCHANGED messages, Open' = Open, \A c \in Clients : got'[c] \subseteq got[c],
             \A c \in Clients, d \in Names : since'[c][d] <= heard
      PROVE  HistoryInv'
  BY <1>2, PublishedSame DEF HistoryInv, messages
<1>3. ASSUME UNCHANGED <<messages, broadcasts, got, since>> PROVE HistoryInv'
  <2>1. Open' = Open
    BY <1>3 DEF Open
  <2> QED
    BY <1>2, <1>3, <2>1 DEF HistoryInv, messages
<1>4. ASSUME NEW x \in Clients, NEW D, Unlist(x, D) PROVE
             \A c \in Clients, d \in Names : since'[c][d] <= heard
  <2> DEFINE f == [d \in Names |-> IF d \in D THEN 0 ELSE since[x][d]]
  <2>1. since' = [since EXCEPT ![x] = f]
    BY <1>4 DEF Unlist
  <2>2. \A d \in Names : f[d] <= heard
    BY <1>1 DEF HistoryInv, TypeOK
  <2> HIDE DEF f
  <2> QED
    BY <2>1, <2>2 DEF HistoryInv, TypeOK
<1>5. ASSUME NEW x \in Clients, HandleDisconnect(x) PROVE HistoryInv'
  <2> DEFINE D == {d \in DOMAIN deviceSubscriptions : Contains(deviceSubscriptions[d], x)}
  <2>1. Unlist(x, D) /\ got' = [got EXCEPT ![x] = {}] /\ UNCHANGED messages
    BY <1>5 DEF HandleDisconnect
  <2> HIDE DEF D
  <2> QED
    BY <1>2, <1>4, <2>1, UnlistOpen DEF TypeOK
<1>6. ASSUME NEW x \in Clients, NEW id \in Id, HandleUnsubscribeFromDevice(x, id) PROVE HistoryInv'
  BY <1>2, <1>4, <1>6, UnlistOpen DEF HandleUnsubscribeFromDevice
<1>7. ASSUME NEW k \in Calls, DeviceFound(k) PROVE HistoryInv'
  <2>1. calls[k].client \in Clients /\ calls[k].id \in Id /\ NameOf(calls[k].id) \in Names
    BY <1>7, CallTyped DEF DeviceFound
  <2>2. Enlist(calls[k].client, calls[k].id) /\ UNCHANGED <<messages, got>>
    BY <1>7 DEF DeviceFound
  <2>3. \A c \in Clients, d \in Names : since'[c][d] <= heard
    BY <1>1, <2>1, <2>2 DEF Enlist, HistoryInv, TypeOK
  <2> QED
    BY <1>2, <2>1, <2>2, <2>3, EnlistOpen
<1>8. CASE TraccarReports
  <2>1. UNCHANGED <<heard, passed, broadcasts, got, since>> /\ \A i \in 1..heard : feed'[i] = feed[i]
    BY <1>1, <1>8 DEF TraccarReports, registry, history, TypeOK
  <2>2. Open' = Open /\ Published' = Published
    BY <2>1, PublishedSame DEF Open
  <2> QED
    BY <2>1, <2>2 DEF HistoryInv
<1>9. CASE HandleTraccarMessage
  <2>0. PICK i : i = heard + 1
    OBVIOUS
  <2> DEFINE m == feed[i]
             b == [Finished EXCEPT !.left = m.positions \cap Passing]
  <2>1. /\ heard' = i /\ feed' = feed /\ i \in 1..Len(feed) /\ since' = since
        /\ passed' = [passed EXCEPT ![i] = Passing]
        /\ RunOn(i, b) /\ \A c \in Clients : got'[c] = got[c] \cup EmittedNow(c, i, m)
    BY <1>1, <1>9, <2>0 DEF HandleTraccarMessage, registry
  <2>2. Published' = Published \cup ElementsOf(i)' /\ passed'[i] = Passing
    BY <2>0, <2>1, HandledAdds
  <2>3. Open' \subseteq Published'
    <3> SUFFICES ASSUME NEW e \in Open' PROVE e \in Published'
      OBVIOUS
    <3>1. b.todo = <<>> /\ b.left \subseteq m.positions \cap Passing
      BY DEF Finished
    <3> HIDE DEF b
    <3>2. i \in Messages
      BY <1>1, <2>1 DEF TypeOK, Messages
    <3>3. e \in Open \/ (e = <<"positionUpdate", e[2], i>> /\ e[2] \in m.positions \cap Passing)
      BY <2>1, <3>1, <3>2, RunOnOpen
    <3> QED
      BY <2>1, <2>2, <3>3 DEF HistoryInv, ElementsOf
  <2>4. ASSUME NEW c \in Clients, NEW e \in got'[c]
        PROVE  e \in Published' \/ e[1] = "snapshot"
    <3>1. EmittedNow(c, i, m) \subseteq ElementsOf(i)'
      BY <2>1, <2>2 DEF EmittedNow, ElementsOf
    <3> QED
      BY <2>1, <2>2, <3>1 DEF HistoryInv
  <2>5. ASSUME NEW c \in Clients, NEW d \in Names PROVE since'[c][d] <= heard'
    BY <1>1, <2>0, <2>1 DEF HistoryInv, TypeOK
  <2> QED
    BY <2>3, <2>4, <2>5 DEF HistoryInv
<1>10. ASSUME NEW i \in Messages, AddressPopulated(i) PROVE HistoryInv'
  <2> DEFINE b == broadcasts[i]
             e == <<"positionUpdate", b.of, i>>
  <2>1. UNCHANGED <<messages, since>> /\ RunOn(i, b)
    BY <1>10 DEF AddressPopulated, registry
  <2>2. Published' = Published /\ heard' = heard
    BY <2>1, PublishedSame DEF messages
  <2>3. b \in Broadcast
    BY <1>10, BroadcastTyped DEF AddressPopulated
  <2>4. e \in Open
    BY <1>10, <2>3 DEF AddressPopulated, Open, Broadcast
  <2>5. \A c \in Clients : got'[c] \subseteq got[c] \cup {e}
    BY <1>10 DEF AddressPopulated, TypeOK
  <2>6. Open' \subseteq Open
    <3> SUFFICES ASSUME NEW f \in Open' PROVE f \in Open
      OBVIOUS
    <3>1. /\ f = <<"positionUpdate", f[2], f[3]>> /\ f[2] \in Devices /\ f[3] \in Messages
          /\ IF f[3] = i THEN f[2] \in b.left \/ f[2] = b.of ELSE f \in Open
      BY <2>1, RunOnOpen
    <3> QED
      BY <1>10, <3>1 DEF AddressPopulated, Open
  <2> HIDE DEF e
  <2> QED
    BY <2>1, <2>2, <2>4, <2>5, <2>6 DEF HistoryInv
<1>11. ASSUME NEW k \in Calls, SnapshotReady(k) PROVE HistoryInv'
  <2> DEFINE y == calls[k].client
             e == <<"snapshot", NameOf(calls[k].id), calls[k].snap>>
  <2>1. /\ UNCHANGED <<messages, broadcasts, since>>
        /\ got' = IF y \in sockets THEN [got EXCEPT ![y] = @ \cup {e}] ELSE got
    BY <1>11 DEF SnapshotReady, registry
  <2>2. Open' = Open /\ Published' = Published /\ heard' = heard
    BY <2>1, PublishedSame DEF Open, messages
  <2>3. e[1] = "snapshot"
    OBVIOUS
  <2> HIDE DEF y, e
  <2>4. \A c \in Clients : got'[c] \subseteq got[c] \cup {e}
    BY <2>1 DEF TypeOK
  <2> QED
    BY <2>1, <2>2, <2>3, <2>4 DEF HistoryInv
<1>12. CASE ClientStep
  BY <1>3, <1>5, <1>6, <1>12 DEF ClientStep, HandleConnection, Subscribe, registry, history
<1>13. CASE CallStep
  BY <1>3, <1>7, <1>11, <1>13 DEF CallStep, PositionsRead, SubscribeFails, registry, history
<1>14. CASE FeedStep
  BY <1>8, <1>9, <1>10, <1>14 DEF FeedStep
<1>15. CASE UNCHANGED vars
  BY <1>3, <1>15 DEF vars, registry, history
<1> QED
  BY <1>12, <1>13, <1>14, <1>15 DEF Next

LEMMA HistoryHolds == Spec => []HistoryInv
<1>1. Init => HistoryInv
  BY DEF Init, HistoryInv, Open, Published, Finished
<1> QED
  BY <1>1, HistoryKept, TypeCorrect, PTL DEF Spec

-----------------------------------------------------------------------------
(* A position that is due is under way: what NobodySkipped says, in the     *)
(* words of LiveFeed.                                                       *)
DueIsOpen == \A c \in Clients : Due[c] \subseteq Open

LEMMA SkippedIsOpen == TypeOK /\ NobodySkipped => DueIsOpen
<1> SUFFICES ASSUME TypeOK, NobodySkipped, NEW c \in Clients, NEW e \in Due[c] PROVE e \in Open
  BY DEF DueIsOpen
<1>1. /\ e \in Published /\ e[1] = "positionUpdate" /\ e \notin got[c]
      /\ e[2] \in Listening[c] /\ since[c][e[2]] < e[3]
  BY DEF Due
<1>2. PICK i \in 1..heard, d \in Devices :
         e = <<"positionUpdate", d, i>> /\ d \in feed[i].positions /\ d \in passed[i]
  BY <1>1, PublishedIs
<1>3. c \in Listeners(d) /\ c \in sockets
  BY <1>1, <1>2 DEF Listening, Listeners
<1>4. Owed(c, d, i)
  BY <1>1, <1>2, <1>3 DEF NobodySkipped
<1>5. i \in Messages
  BY GatewayAssumption DEF TypeOK, Messages
<1>6. broadcasts[i].to # NoClient /\ d \in {broadcasts[i].of} \cup broadcasts[i].left
  BY <1>4, <1>5, GatewayAssumption DEF Owed, TypeOK, Broadcast, Finished
<1> QED
  BY <1>2, <1>5, <1>6 DEF Open

(* Who listens, seen through a Set. *)
LEMMA ListeningIs ==
    /\ \A c \in Clients, d \in Names : d \in Listening[c] <=> c \in ToSet(SocketIds(d)) /\ c \in sockets
    /\ \A c \in Clients : Listening[c] \subseteq Names
    /\ Listening = [c \in Clients |-> Listening[c]]
    /\ Due = [c \in Clients |-> Due[c]]
    /\ Answered = [c \in Clients |-> Answered[c]]
  BY DEF Listening, Listeners, Due, Answered

(* The calls a client may get a snapshot from, one by one.                  *)
LEMMA AskingIs ==
    /\ Asking = [c \in Clients |-> Asking[c]]
    /\ \A c \in Clients : \A q \in Asking[c] : q = <<q[1], q[2]>> /\ q[1] \in Names /\ q[2] \in Calls
    /\ \A c \in Clients, n \in Names, k \in Calls :
          <<n, k>> \in Asking[c] <=>
              /\ c \in sockets /\ calls[k].client = c
              /\ calls[k].step \in {"read", "address"} /\ NameOf(calls[k].id) = n
  BY DEF Asking

(* Sets of pairs are compared pair by pair.                                 *)
LEMMA PairByPair ==
    ASSUME NEW A, NEW B, NEW S, NEW T, S \subseteq A \X B, T \subseteq A \X B,
           \A a \in A, b \in B : <<a, b>> \in S <=> <<a, b>> \in T
    PROVE  S = T
<1>1. ASSUME NEW q \in A \X B PROVE q \in S <=> q \in T
  <2>1. PICK a \in A, b \in B : q = <<a, b>>
    OBVIOUS
  <2>2. <<a, b>> \in S <=> <<a, b>> \in T
    OBVIOUS
  <2> QED
    BY <2>1, <2>2, Zenon
<1> QED
  BY <1>1

LEMMA AskingSame ==
    ASSUME \A c \in Clients, n \in Names, k \in Calls : <<n, k>> \in Asking'[c] <=> <<n, k>> \in Asking[c]
    PROVE  Asking' = Asking
<1>1. ASSUME NEW c \in Clients PROVE Asking'[c] = Asking[c]
  <2>1. /\ Asking[c] \subseteq Names \X Calls
        /\ Asking'[c] \subseteq Names \X Calls
    BY DEF Asking
  <2> QED
    BY <2>1, PairByPair
<1>2. Asking = [c \in Clients |-> Asking[c]] /\ Asking' = [c \in Clients |-> Asking'[c]]
  BY Zenon DEF Asking
<1> QED
  BY <1>1, <1>2, Zenon

(* A call that moves on from an await.                                      *)
LEMMA AskingAfter ==
    ASSUME TypeOK, sockets' = sockets, NEW k \in Calls, NEW r, calls' = [calls EXCEPT ![k] = r]
    PROVE  \A c \in Clients, n \in Names, l \in Calls :
              <<n, l>> \in Asking'[c] <=>
                  IF l = k THEN /\ c \in sockets /\ r.client = c
                                /\ r.step \in {"read", "address"} /\ NameOf(r.id) = n
                           ELSE <<n, l>> \in Asking[c]
<1> TAKE c \in Clients, n \in Names, l \in Calls
<1>1. <<n, l>> \in Asking'[c] <=>
          /\ c \in sockets' /\ calls'[l].client = c
          /\ calls'[l].step \in {"read", "address"} /\ NameOf(calls'[l].id) = n
  BY DEF Asking
<1>2. calls'[l] = IF l = k THEN r ELSE calls[l]
  BY DEF TypeOK
<1>3. CASE l = k
  BY <1>1, <1>2, <1>3
<1>4. CASE l # k
  BY <1>1, <1>2, <1>4, AskingIs
<1> QED
  BY <1>3, <1>4

(* The end of a call: its client, while it is there, asks one time less.    *)
LEMMA AskingEnds ==
    ASSUME TypeOK, sockets' = sockets, NEW k \in Calls, calls[k].step # "idle",
           calls' = [calls EXCEPT ![k] = IdleCall],
           NEW c \in Clients, c = calls[k].client, NEW d \in Names, d = NameOf(calls[k].id)
    PROVE  /\ c \in sockets => Asking' = [Asking EXCEPT ![c] = @ \ {<<d, k>>}]
           /\ c \notin sockets => Asking' = Asking
<1>1. IdleCall.step = "idle"
  BY DEF IdleCall
<1>2. \A b \in Clients, n \in Names, l \in Calls :
         <<n, l>> \in Asking'[b] <=> l # k /\ <<n, l>> \in Asking[b]
  BY <1>1, AskingAfter
<1>3. \A b \in Clients, n \in Names : <<n, k>> \in Asking[b] => b = c /\ n = d /\ c \in sockets
  BY AskingIs
<1>4. ASSUME c \notin sockets PROVE Asking' = Asking
  BY <1>2, <1>3, <1>4, AskingSame
<1>5. ASSUME NEW b \in Clients PROVE Asking'[b] = Asking[b] \ {<<d, k>>}
  <2>1. Asking[b] \subseteq Names \X Calls /\ Asking'[b] \subseteq Names \X Calls
    BY DEF Asking
  <2>2. ASSUME NEW n \in Names, NEW l \in Calls
        PROVE  <<n, l>> \in Asking'[b] <=> <<n, l>> \in Asking[b] /\ <<n, l>> # <<d, k>>
    BY <1>2, <1>3
  <2>3. Asking[b] \ {<<d, k>>} \subseteq Names \X Calls
    BY <2>1
  <2>4. \A n \in Names, l \in Calls :
           <<n, l>> \in Asking'[b] <=> <<n, l>> \in Asking[b] \ {<<d, k>>}
    BY <2>2
  <2> QED
    BY <2>1, <2>3, <2>4, PairByPair
<1>6. ASSUME NEW b \in Clients, b # c PROVE Asking'[b] = Asking[b]
  <2>1. <<d, k>> \notin Asking[b]
    BY <1>3, <1>6
  <2>2. Asking[b] \ {<<d, k>>} = Asking[b]
    BY <2>1, Zenon
  <2> QED
    BY <1>5, <2>2, Zenon
<1>7. Asking = [b \in Clients |-> Asking[b]] /\ Asking' = [b \in Clients |-> Asking'[b]]
  BY Zenon DEF Asking
<1>8. Asking' = [b \in Clients |-> IF b = c THEN Asking[c] \ {<<d, k>>} ELSE Asking[b]]
  BY <1>5, <1>6, <1>7, Zenon
<1>9. Asking' = [Asking EXCEPT ![c] = @ \ {<<d, k>>}]
  BY <1>7, <1>8
<1> QED
  BY <1>4, <1>9

(* What a step does that touches neither tables nor messages.               *)
LEMMA SetsSame ==
    ASSUME UNCHANGED <<sockets, deviceSubscriptions, heard, broadcasts>>,
           \A i \in 1..heard : feed'[i] = feed[i] /\ passed'[i] = passed[i]
    PROVE  Listening' = Listening /\ Published' = Published /\ Open' = Open
<1>1. Published' = Published
  BY PublishedSame
<1>2. Listening' = Listening
  BY DEF Listening, Listeners, SocketIds
<1>3. Open' = Open
  BY DEF Open
<1> QED
  BY <1>1, <1>2, <1>3

LEMMA StutterMaps ==
    ASSUME UNCHANGED <<sockets, deviceSubscriptions, since, told, got, heard, broadcasts>>,
           \A i \in 1..heard : feed'[i] = feed[i] /\ passed'[i] = passed[i],
           Asking' = Asking
    PROVE  UNCHANGED LF!vars
<1>1. Listening' = Listening /\ Published' = Published /\ Open' = Open
  BY SetsSame
<1>2. Answered' = Answered
  BY DEF Answered
<1>3. Due' = Due
  BY <1>1 DEF Due
<1> QED
  BY <1>1, <1>2, <1>3 DEF LF!vars

(* A call that has not asked yet changes nothing. *)
LEMMA SubscribeMaps ==
    ASSUME TypeOK, NEW c \in Clients, NEW id \in Id, Subscribe(c, id)
    PROVE  UNCHANGED LF!vars
<1> DEFINE r == [step |-> "verify", client |-> c, id |-> id, snap |-> 0]
<1>1. PICK k \in Calls : calls[k].step = "idle" /\ calls' = [calls EXCEPT ![k] = r]
  BY DEF Subscribe
<1>2. UNCHANGED <<sockets, registry, messages, broadcasts, history>>
  BY DEF Subscribe
<1>3. r.step = "verify"
  OBVIOUS
<1> HIDE DEF r
<1>4. \A b \in Clients, n \in Names, l \in Calls :
         <<n, l>> \in Asking'[b] <=> l # k /\ <<n, l>> \in Asking[b]
  BY <1>1, <1>2, <1>3, AskingAfter
<1>5. \A b \in Clients, n \in Names : <<n, k>> \notin Asking[b]
  BY <1>1, AskingIs
<1>6. Asking' = Asking
  BY <1>4, <1>5, AskingSame
<1> QED
  BY <1>2, <1>6, StutterMaps DEF registry, messages, history

LEMMA ConnectMaps ==
    ASSUME TypeOK, NEW x \in Clients, HandleConnection(x)
    PROVE  LF!Connect(x)
<1>1. /\ x \notin sockets /\ sockets' = sockets \cup {x}
      /\ UNCHANGED <<registry, calls, messages, broadcasts, told, got>>
  BY DEF HandleConnection, history
<1>2. \A d \in Names : x \notin ToSet(SocketIds(d))
  BY SocketIdsTyped, Members DEF HandleConnection, Forgotten, IdSet
<1>3. Listening' = Listening
  <2>1. \A d \in Names : Listeners(d)' = Listeners(d)
    BY <1>1, <1>2 DEF Listeners, SocketIds, registry
  <2> QED
    BY <2>1 DEF Listening
<1>4. Published' = Published /\ Open' = Open /\ Answered' = Answered
  BY <1>1, PublishedSame DEF Open, Answered, messages
<1>5. Due' = Due
  BY <1>1, <1>3, <1>4 DEF Due, registry
<1>6. Asking' = Asking
  <2>1. \A k \in Calls : calls[k].client # x
    BY DEF HandleConnection, Forgotten
  <2>2. ASSUME NEW c \in Clients, NEW n \in Names, NEW k \in Calls
        PROVE  <<n, k>> \in Asking'[c] <=> <<n, k>> \in Asking[c]
    BY <1>1, <2>1 DEF Asking
  <2> QED
    BY <2>2, AskingSame
<1> QED
  BY <1>1, <1>3, <1>4, <1>5, <1>6 DEF LF!Connect

(* Deleting client x from the Sets of D changes nothing for the others.     *)
LEMMA UnlistMaps ==
    ASSUME TypeOK, NEW x \in Clients, NEW D, Unlist(x, D), UNCHANGED messages,
           NEW c \in Clients
    PROVE  /\ Published' = Published /\ Open' = Open
           /\ c # x /\ got'[c] = got[c] /\ (c \in sockets' <=> c \in sockets)
                => Listening'[c] = Listening[c] /\ Due'[c] = Due[c]
           /\ sockets' = sockets => Listening'[x] = Listening[x] \ D
<1>1. Published' = Published /\ Open' = Open
  BY PublishedSame, UnlistOpen DEF messages
<1>2. \A d \in Names : ToSet(SocketIds(d)') = IF d \in D THEN ToSet(SocketIds(d)) \ {x}
                                                         ELSE ToSet(SocketIds(d))
  BY UnlistEffect
<1>3. \A d \in Names, y \in Clients : d \in Listening'[y] <=> y \in ToSet(SocketIds(d)') /\ y \in sockets'
  BY DEF Listening, Listeners
<1>4. Listening'[c] \subseteq Names /\ Listening'[x] \subseteq Names
  BY DEF Listening
<1>5. ASSUME c # x, got'[c] = got[c], c \in sockets' <=> c \in sockets
      PROVE  Listening'[c] = Listening[c] /\ Due'[c] = Due[c]
  <2>1. Listening'[c] = Listening[c]
    <3>1. ASSUME NEW d \in Names PROVE d \in Listening'[c] <=> d \in Listening[c]
      BY <1>2, <1>3, <1>5, ListeningIs
    <3> QED
      BY <1>4, <3>1, ListeningIs
  <2>2. since'[c] = since[c]
    BY <1>5 DEF Unlist, TypeOK
  <2> QED
    BY <1>1, <1>5, <2>1, <2>2 DEF Due
<1>6. ASSUME sockets' = sockets PROVE Listening'[x] = Listening[x] \ D
  BY <1>2, <1>3, <1>4, <1>6, ListeningIs
<1> QED
  BY <1>1, <1>5, <1>6

LEMMA DisconnectMaps ==
    ASSUME TypeOK, NEW x \in Clients, HandleDisconnect(x)
    PROVE  LF!Disconnect(x)
<1> DEFINE D == {d \in DOMAIN deviceSubscriptions : Contains(deviceSubscriptions[d], x)}
<1>1. /\ x \in sockets /\ sockets' = sockets \ {x} /\ Unlist(x, D) /\ UNCHANGED <<calls, messages>>
      /\ told' = [told EXCEPT ![x] = [d \in Names |-> "nothing"]]
      /\ got' = [got EXCEPT ![x] = {}]
  BY DEF HandleDisconnect
<1> HIDE DEF D
<1>2. ASSUME NEW c \in Clients, c # x
      PROVE  Listening'[c] = Listening[c] /\ Due'[c] = Due[c] /\ Answered'[c] = Answered[c]
  <2>1. got'[c] = got[c] /\ told'[c] = told[c]
    BY <1>1, <1>2 DEF TypeOK
  <2>2. Answered'[c] = Answered[c]
    BY <2>1 DEF Answered
  <2> QED
    BY <1>1, <1>2, <2>1, <2>2, UnlistMaps
<1>3. Listening'[x] = {} /\ Due'[x] = {} /\ Answered'[x] = {}
  <2>1. Listening'[x] = {}
    BY <1>1 DEF Listening, Listeners
  <2>2. Due'[x] = {}
    BY <2>1 DEF Due
  <2>3. Answered'[x] = {}
    BY <1>1 DEF Answered, TypeOK
  <2> QED
    BY <2>1, <2>2, <2>3
<1>4. Published' = Published /\ Open' = Open
  BY <1>1, UnlistMaps
<1>6. Asking' = [Asking EXCEPT ![x] = {}]
  <2>1. ASSUME NEW c \in Clients PROVE Asking'[c] = IF c = x THEN {} ELSE Asking[c]
    BY <1>1 DEF Asking
  <2>2. Asking = [c \in Clients |-> Asking[c]] /\ Asking' = [c \in Clients |-> Asking'[c]]
    BY Zenon DEF Asking
  <2>3. Asking' = [c \in Clients |-> IF c = x THEN {} ELSE Asking[c]]
    BY <2>1, <2>2, Zenon
  <2> QED
    BY <2>2, <2>3
<1>5. /\ Listening' = [Listening EXCEPT ![x] = {}]
      /\ Due' = [Due EXCEPT ![x] = {}]
      /\ Answered' = [Answered EXCEPT ![x] = {}]
  BY <1>2, <1>3 DEF Listening, Due, Answered
<1> QED
  BY <1>1, <1>4, <1>5, <1>6 DEF LF!Disconnect

(* The answer to a client adds to what it has been told about. *)
LEMMA AnswerMaps ==
    ASSUME TypeOK, NEW x \in sockets, NEW d \in Names, NEW a, a # "nothing",
           told' = [told EXCEPT ![x][d] = a]
    PROVE  Answered' = [Answered EXCEPT ![x] = @ \cup {d}]
<1>1. x \in Clients
  BY DEF TypeOK
<1>2. ASSUME NEW c \in Clients, c # x PROVE Answered'[c] = Answered[c]
  <2>1. told'[c] = told[c]
    BY <1>2 DEF TypeOK
  <2> QED
    BY <2>1 DEF Answered
<1>3. Answered'[x] = Answered[x] \cup {d}
  <2>1. \A e \in Names : told'[x][e] = IF e = d THEN a ELSE told[x][e]
    BY <1>1 DEF TypeOK
  <2> QED
    BY <1>1, <2>1 DEF Answered
<1> QED
  BY <1>1, <1>2, <1>3 DEF Answered

LEMMA FailMaps ==
    ASSUME TypeOK, NEW k \in Calls, SubscribeFails(k)
    PROVE  (\E c \in Clients, d \in Names : LF!Fail(c, d, k)) \/ UNCHANGED LF!vars
<1> DEFINE c == calls[k].client
           d == NameOf(calls[k].id)
<1>1. c \in Clients /\ d \in Names
  BY CallTyped DEF SubscribeFails
<1>2. /\ UNCHANGED <<sockets, registry, messages, broadcasts, got>> /\ Answer(c, d, "error")
      /\ calls[k].step # "idle" /\ calls' = [calls EXCEPT ![k] = IdleCall]
  BY DEF SubscribeFails
<1>3. /\ c \in sockets => Asking' = [Asking EXCEPT ![c] = @ \ {<<d, k>>}]
      /\ c \notin sockets => Asking' = Asking
  BY <1>1, <1>2, AskingEnds
<1> HIDE DEF c, d
<1>4. CASE c \in sockets
  <2>1. Answered' = [Answered EXCEPT ![c] = @ \cup {d}]
    BY <1>1, <1>2, <1>4, AnswerMaps DEF Answer
  <2>2. Published' = Published /\ Open' = Open /\ Listening' = Listening
    BY <1>2, SetsSame DEF registry, messages
  <2>3. Due' = Due
    BY <1>2, <2>2 DEF Due, registry
  <2>4. LF!Fail(c, d, k)
    BY <1>2, <1>3, <1>4, <2>1, <2>2, <2>3 DEF LF!Fail
  <2> QED
    BY <1>1, <2>4
<1>5. CASE c \notin sockets
  BY <1>2, <1>3, <1>5, StutterMaps DEF Answer, registry, messages
<1> QED
  BY <1>4, <1>5

(* An empty answer of Traccar ends the call, a position lets it go on.      *)
LEMMA ReadMaps ==
    ASSUME TypeOK, NEW k \in Calls, PositionsRead(k)
    PROVE  (\E c \in Clients, d \in Names : LF!Forgo(c, d, k)) \/ UNCHANGED LF!vars
<1> DEFINE c == calls[k].client
           d == NameOf(calls[k].id)
<1>1. c \in Clients /\ d \in Names /\ calls[k] \in Call /\ calls[k].step = "read"
  BY CallTyped DEF PositionsRead
<1>2. UNCHANGED <<sockets, registry, messages, broadcasts, history>>
  BY DEF PositionsRead
<1>3. PICK i \in 0..Len(feed) : calls' = [calls EXCEPT ![k] =
         IF i = 0 THEN IdleCall ELSE [@ EXCEPT !.step = "address", !.snap = i]]
  BY DEF PositionsRead
<1>4. CASE i = 0
  <2>1. calls' = [calls EXCEPT ![k] = IdleCall]
    BY <1>3, <1>4
  <2>2. /\ c \in sockets => Asking' = [Asking EXCEPT ![c] = @ \ {<<d, k>>}]
        /\ c \notin sockets => Asking' = Asking
    BY <1>1, <1>2, <2>1, AskingEnds
  <2>3. CASE c \in sockets
    <3>1. <<d, k>> \in Asking[c]
      BY <1>1, <2>3, AskingIs
    <3>2. Published' = Published /\ Open' = Open /\ Listening' = Listening
      BY <1>2, SetsSame DEF registry, messages
    <3>3. Due' = Due /\ Answered' = Answered
      BY <1>2, <3>2 DEF Due, Answered, registry, history
    <3> HIDE DEF c, d
    <3>4. LF!Forgo(c, d, k)
      BY <1>2, <2>2, <2>3, <3>1, <3>2, <3>3 DEF LF!Forgo, history
    <3> QED
      BY <1>1, <3>4
  <2>4. CASE c \notin sockets
    BY <1>2, <2>2, <2>4, StutterMaps DEF registry, messages, history
  <2> QED
    BY <2>3, <2>4
<1>5. CASE i # 0
  <2> DEFINE r == [calls[k] EXCEPT !.step = "address", !.snap = i]
  <2>1. r.client = c /\ r.step \in {"read", "address"} /\ NameOf(r.id) = d
    BY <1>1 DEF Call
  <2>2. calls' = [calls EXCEPT ![k] = r]
    BY <1>3, <1>5
  <2> HIDE DEF r, c, d
  <2>6. \A b \in Clients, n \in Names, l \in Calls :
           <<n, l>> \in Asking'[b] <=>
               IF l = k THEN /\ b \in sockets /\ r.client = b
                             /\ r.step \in {"read", "address"} /\ NameOf(r.id) = n
                        ELSE <<n, l>> \in Asking[b]
    BY <1>2, <2>2, AskingAfter
  <2>3. \A b \in Clients, n \in Names, l \in Calls :
           <<n, l>> \in Asking'[b] <=>
               IF l = k THEN b \in sockets /\ c = b /\ d = n ELSE <<n, l>> \in Asking[b]
    BY <2>1, <2>6
  <2>4. \A b \in Clients, n \in Names :
           <<n, k>> \in Asking[b] <=> b \in sockets /\ c = b /\ d = n
    BY <1>1, AskingIs DEF c, d
  <2>5. Asking' = Asking
    BY <2>3, <2>4, AskingSame
  <2> QED
    BY <1>2, <2>5, StutterMaps DEF registry, messages, history
<1> QED
  BY <1>4, <1>5

(* A snapshot goes to the client that called, if it is there.               *)
LEMMA ShowMaps ==
    ASSUME TypeOK, NEW k \in Calls, SnapshotReady(k)
    PROVE  (\E c \in Clients, d \in Names : LF!Show(c, d, k)) \/ UNCHANGED LF!vars
<1> DEFINE c == calls[k].client
           d == NameOf(calls[k].id)
           i == calls[k].snap
           e == <<"snapshot", d, i>>
<1>1. c \in Clients /\ d \in Names /\ calls[k].step = "address" /\ i \in Messages
  <2>1. calls[k] \in Call /\ calls[k].step = "address"
    BY CallTyped DEF SnapshotReady
  <2>2. i \in Messages
    BY <2>1 DEF Call
  <2> QED
    BY <2>1, <2>2, CallTyped
<1>2. /\ UNCHANGED <<sockets, registry, messages, broadcasts, told>>
      /\ got' = IF c \in sockets THEN [got EXCEPT ![c] = @ \cup {e}] ELSE got
      /\ calls' = [calls EXCEPT ![k] = IdleCall]
  BY DEF SnapshotReady
<1>3. /\ c \in sockets => Asking' = [Asking EXCEPT ![c] = @ \ {<<d, k>>}]
      /\ c \notin sockets => Asking' = Asking
  BY <1>1, <1>2, AskingEnds
<1>4. CASE c \in sockets
  <2>1. <<d, k>> \in Asking[c]
    BY <1>1, <1>4, AskingIs
  <2>2. Published' = Published /\ Open' = Open /\ Listening' = Listening /\ Answered' = Answered
    BY <1>2, SetsSame DEF registry, messages, Answered
  <2>3. e[1] = "snapshot"
    OBVIOUS
  <2> HIDE DEF c, d, i, e
  <2>4. Due' = Due
    <3>1. \A b \in Clients, f \in Published :
             f[1] = "positionUpdate" => (f \in got'[b] <=> f \in got[b])
      BY <1>2, <1>4, <2>3 DEF TypeOK
    <3> QED
      BY <1>2, <2>2, <3>1 DEF Due, registry
  <2>5. \E j \in Messages : got' = [got EXCEPT ![c] = @ \cup {<<"snapshot", d, j>>}]
    BY <1>1, <1>2, <1>4 DEF e
  <2>6. LF!Show(c, d, k)
    BY <1>2, <1>3, <1>4, <2>1, <2>2, <2>4, <2>5 DEF LF!Show
  <2> QED
    BY <1>1, <2>6
<1>5. CASE c \notin sockets
  BY <1>2, <1>3, <1>5, StutterMaps DEF registry, messages
<1> QED
  BY <1>4, <1>5

LEMMA UnsubscribeMaps ==
    ASSUME TypeOK, NEW x \in Clients, NEW id \in Id, HandleUnsubscribeFromDevice(x, id)
    PROVE  (\E d \in Names : LF!Leave(x, d) \/ LF!Reply(x, d)) \/ UNCHANGED LF!vars
<1>0. PICK d \in Names : d = NameOf(id)
  BY IdIs
<1>1. /\ x \in sockets /\ Unlist(x, {d}) /\ UNCHANGED <<sockets, calls, messages, got>>
      /\ told' = IF d \in DOMAIN deviceSubscriptions
                 THEN [told EXCEPT ![x][d] = "unsubscribed"] ELSE told
  BY <1>0 DEF HandleUnsubscribeFromDevice
<1>7. Asking' = Asking
  BY <1>1 DEF Asking
<1>2. Published' = Published /\ Open' = Open /\ Listening'[x] = Listening[x] \ {d}
  BY <1>1, UnlistMaps
<1>3. ASSUME NEW c \in Clients, c # x PROVE Listening'[c] = Listening[c] /\ Due'[c] = Due[c]
  BY <1>1, <1>3, UnlistMaps
<1>4. Due'[x] = {e \in Due[x] : e[2] # d}
  <2>1. \A e \in Names : e # d => since'[x][e] = since[x][e]
    BY <1>1 DEF Unlist, TypeOK
  <2>2. \A e \in Published : e[2] \in Devices
    BY PublishedTyped
  <2> QED
    BY <1>1, <1>2, <2>1, <2>2 DEF Due
<1>5. CASE d \in DOMAIN deviceSubscriptions
  <2>1. Answered' = [Answered EXCEPT ![x] = @ \cup {d}]
    BY <1>1, <1>5, AnswerMaps
  <2>2. CASE d \in Listening[x]
    <3>1. Listening' = [Listening EXCEPT ![x] = @ \ {d}]
      BY <1>2, <1>3 DEF Listening
    <3>2. Due' = [Due EXCEPT ![x] = {e \in @ : e[2] # d}]
      BY <1>3, <1>4 DEF Due
    <3> QED
      BY <1>1, <1>2, <1>7, <2>1, <2>2, <3>1, <3>2 DEF LF!Leave, LF!DeviceOf
  <2>3. CASE d \notin Listening[x]
    <3>1. Listening' = Listening
      <4>1. \A c \in Clients : Listening'[c] = Listening[c]
        BY <1>2, <1>3, <2>3
      <4> QED
        BY <4>1 DEF Listening
    <3>2. Due' = Due
      <4>1. Due'[x] = Due[x]
        BY <1>4, <2>3 DEF Due
      <4>2. \A c \in Clients : Due'[c] = Due[c]
        BY <1>3, <4>1
      <4> QED
        BY <4>2 DEF Due
    <3> QED
      BY <1>1, <1>2, <1>7, <2>1, <3>1, <3>2 DEF LF!Reply
  <2> QED
    BY <2>2, <2>3
<1>6. CASE d \notin DOMAIN deviceSubscriptions
  <2>1. d \notin Listening[x]
    BY <1>6 DEF Listening, Listeners, SocketIds, ToSet
  <2>2. \A c \in Clients : Listening'[c] = Listening[c]
    BY <1>2, <1>3, <2>1
  <2>3. Due'[x] = Due[x]
    BY <1>4, <2>1 DEF Due
  <2>4. \A c \in Clients : Due'[c] = Due[c]
    BY <1>3, <2>3
  <2>5. Listening' = Listening /\ Due' = Due
    BY <2>2, <2>4 DEF Listening, Due
  <2>6. Answered' = Answered
    BY <1>1, <1>6 DEF Answered
  <2> QED
    BY <1>1, <1>2, <1>7, <2>5, <2>6 DEF LF!vars
<1> QED
  BY <1>5, <1>6

LEMMA FoundMaps ==
    ASSUME TypeOK, NEW k \in Calls, DeviceFound(k)
    PROVE  (\E c \in Clients, d \in Names : LF!Join(c, d, k)) \/ UNCHANGED LF!vars
<1> DEFINE x == calls[k].client
           id == calls[k].id
           r == [calls[k] EXCEPT !.step = "read"]
<1>0. PICK d \in Names : d = NameOf(id)
  BY CallTyped DEF DeviceFound
<1>1. x \in Clients /\ id \in Id /\ calls[k] \in Call
  BY CallTyped DEF DeviceFound
<1>2. /\ Enlist(x, id) /\ Answer(x, d, "subscribed") /\ UNCHANGED <<sockets, messages, got>>
      /\ calls[k].step = "verify" /\ calls' = [calls EXCEPT ![k] = r]
  BY <1>0 DEF DeviceFound
<1>11. r.step = "read" /\ r.client = x /\ NameOf(r.id) = d
  BY <1>0, <1>1 DEF Call
<1>13. \A b \in Clients, n \in Names : <<n, k>> \notin Asking[b]
  BY <1>2, AskingIs
<1> HIDE DEF x, id, r
<1>12. \A b \in Clients, n \in Names, l \in Calls :
          <<n, l>> \in Asking'[b] <=>
              IF l = k THEN b \in sockets /\ x = b /\ d = n ELSE <<n, l>> \in Asking[b]
  BY <1>2, <1>11, AskingAfter
<1>3. Published' = Published /\ Open' = Open
  BY <1>1, <1>2, PublishedSame, EnlistOpen DEF messages
<1>4. \A c \in Clients, e \in Names :
         e \in Listening'[c] <=> e \in Listening[c] \/ (c = x /\ e = d /\ c \in sockets)
  <2>1. ASSUME NEW e \in Names
        PROVE  ToSet(SocketIds(e)') = IF e = d THEN ToSet(SocketIds(e)) \cup {x} ELSE ToSet(SocketIds(e))
    BY <1>0, <1>1, <1>2, EnlistEffect
  <2> QED
    BY <1>2, <2>1 DEF Listening, Listeners
<1>5. \A c \in Clients, e \in Names :
         since'[c][e] = IF c = x /\ e = d /\ ~ Contains(SocketIds(d), x) THEN heard ELSE since[c][e]
  BY <1>0, <1>1, <1>2 DEF Enlist, TypeOK
<1>6. Contains(SocketIds(d), x) /\ x \in sockets <=> d \in Listening[x]
  BY <1>1, SocketIdsTyped, Members DEF Listening, Listeners, IdSet
<1>7. Due' = Due
  <2>1. ASSUME NEW c \in Clients, NEW e \in Published
        PROVE  e \in Due'[c] <=> e \in Due[c]
    <3>1. e[2] \in Devices /\ e[3] \in 1..heard
      BY PublishedTyped
    <3>2. heard \in Nat /\ heard' = heard
      BY <1>2 DEF TypeOK, messages
    <3>3. CASE c = x /\ e[2] = d /\ c \in sockets /\ ~ Contains(SocketIds(d), x)
      <4>1. e \notin Due[c] /\ e \notin Due'[c]
        BY <1>5, <1>6, <3>1, <3>2, <3>3 DEF Due
      <4> QED
        BY <4>1
    <3>4. CASE c = x /\ e[2] = d /\ c \in sockets /\ Contains(SocketIds(d), x)
      BY <1>2, <1>3, <1>4, <1>5, <1>6, <3>1, <3>4 DEF Due
    <3>5. CASE c = x /\ e[2] = d /\ c \notin sockets
      BY <1>2, <3>1, <3>5 DEF Due, Listening, Listeners
    <3>6. CASE ~ (c = x /\ e[2] = d)
      BY <1>2, <1>3, <1>4, <1>5, <3>1, <3>6 DEF Due
    <3> QED
      BY <3>3, <3>4, <3>5, <3>6
  <2>2. ASSUME NEW c \in Clients PROVE Due'[c] = Due[c]
    <3>1. Due[c] \subseteq Published /\ Due'[c] \subseteq Published
      BY <1>3 DEF Due
    <3> QED
      BY <2>1, <3>1
  <2> QED
    BY <2>2 DEF Due
<1>8. ASSUME x \notin sockets \/ d \in Listening[x] PROVE Listening' = Listening
  <2>1. ASSUME NEW c \in Clients PROVE Listening'[c] = Listening[c]
    <3>1. Listening[c] \subseteq Names /\ Listening'[c] \subseteq Names
      BY DEF Listening
    <3> QED
      BY <1>4, <1>8, <3>1
  <2> QED
    BY <2>1 DEF Listening
<1>9. CASE x \notin sockets
  <2>1. Asking' = Asking
    BY <1>9, <1>12, <1>13, AskingSame
  <2> QED
    BY <1>2, <1>3, <1>7, <1>8, <1>9, <2>1 DEF Answer, Answered, LF!vars
<1>10. CASE x \in sockets
  <2>1. Answered' = [Answered EXCEPT ![x] = @ \cup {d}]
    BY <1>1, <1>2, <1>10, AnswerMaps DEF Answer
  <2>2. Listening' = [Listening EXCEPT ![x] = @ \cup {d}]
    <3>1. ASSUME NEW c \in Clients
          PROVE  Listening'[c] = IF c = x THEN Listening[c] \cup {d} ELSE Listening[c]
      <4>1. Listening[c] \subseteq Names /\ Listening'[c] \subseteq Names
        BY DEF Listening
      <4> QED
        BY <1>1, <1>4, <1>10, <4>1
    <3> QED
      BY <3>1 DEF Listening
  <2>3. Asking' = [Asking EXCEPT ![x] = @ \cup {<<d, k>>}]
    <3>1. ASSUME NEW b \in Clients
          PROVE  Asking'[b] = IF b = x THEN Asking[b] \cup {<<d, k>>} ELSE Asking[b]
      <4>1. Asking[b] \subseteq Names \X Calls /\ Asking'[b] \subseteq Names \X Calls
        BY DEF Asking
      <4>2. ASSUME NEW n \in Names, NEW l \in Calls
            PROVE  <<n, l>> \in Asking'[b] <=>
                      <<n, l>> \in Asking[b] \/ (b = x /\ <<n, l>> = <<d, k>>)
        BY <1>10, <1>12, <1>13
      <4> DEFINE T == IF b = x THEN Asking[b] \cup {<<d, k>>} ELSE Asking[b]
      <4>3. T \subseteq Names \X Calls
        BY <1>1, <4>1
      <4>4. \A n \in Names, l \in Calls : <<n, l>> \in Asking'[b] <=> <<n, l>> \in T
        BY <4>2
      <4> HIDE DEF T
      <4>5. Asking'[b] = T
        BY <4>1, <4>3, <4>4, PairByPair
      <4> QED
        BY <4>5 DEF T
    <3>2. Asking = [b \in Clients |-> Asking[b]] /\ Asking' = [b \in Clients |-> Asking'[b]]
      BY Zenon DEF Asking
    <3>3. Asking' = [b \in Clients |-> IF b = x THEN Asking[b] \cup {<<d, k>>} ELSE Asking[b]]
      BY <3>1, <3>2, Zenon
    <3> QED
      BY <3>2, <3>3
  <2>4. LF!Join(x, d, k)
    BY <1>2, <1>3, <1>7, <1>10, <1>13, <2>1, <2>2, <2>3 DEF LF!Join
  <2> QED
    BY <1>1, <2>4
<1> QED
  BY <1>9, <1>10

LEMMA HandleMaps ==
    ASSUME TypeOK, HistoryInv, HandleTraccarMessage,
           DueIsOpen'
    PROVE  \E E \in SUBSET (LF!Elements \ Published) : LF!Publish(E)
<1> USE GatewayAssumption
<1>0. PICK i : i = heard + 1
  OBVIOUS
<1> DEFINE m == feed[i]
           b == [Finished EXCEPT !.left = m.positions \cap Passing]
           E == {<<"positionUpdate", d, i>> : d \in m.positions \cap Passing}
                  \cup {<<"deviceUpdate", d, i>> : d \in m.devices \cap Passing}
                  \cup {<<"eventUpdate", d, i>> : d \in m.events \cap Passing}
<1>1. /\ heard' = i /\ feed' = feed /\ UNCHANGED <<sockets, registry, calls, told>> /\ RunOn(i, b)
      /\ passed' = [passed EXCEPT ![i] = Passing]
      /\ got' = [c \in Clients |-> got[c] \cup EmittedNow(c, i, m)]
  BY <1>0 DEF HandleTraccarMessage
<1>2. heard \in Nat /\ i \in 1..Len(feed) /\ i \in Messages /\ m \in Report
  <2>1. heard \in Nat /\ i \in 1..Len(feed) /\ i \in Messages
    BY <1>0 DEF HandleTraccarMessage, TypeOK, Messages
  <2> QED
    BY <2>1 DEF TypeOK
<1>3. /\ \A e \in E : e \in LF!Elements /\ e[2] \in Devices /\ e[3] = i
      /\ E \cap Published = {} /\ Published' = Published \cup E
  <2>1. \A e \in E : e \in LF!Elements /\ e[2] \in Devices /\ e[3] = i
    BY <1>2 DEF LF!Elements, Report
  <2>2. \A e \in Published : e[3] \in 1..heard
    BY PublishedTyped
  <2>3. E \cap Published = {}
    BY <1>0, <1>2, <2>1, <2>2
  <2>4. Published' = Published \cup E
    <3>1. Published' = Published \cup ElementsOf(i)' /\ passed'[i] = Passing
      BY <1>0, <1>1, <1>2, HandledAdds
    <3>2. ElementsOf(i)' = E
      BY <1>1, <3>1, Zenon DEF ElementsOf
    <3> QED
      BY <3>1, <3>2
  <2> QED
    BY <2>1, <2>3, <2>4
<1>4. Listening' = Listening /\ Answered' = Answered
  BY <1>1 DEF Listening, Listeners, SocketIds, Answered, registry
<1>5. Open' \subseteq Open \cup {e \in E : LF!Tracked(e)}
  <2> SUFFICES ASSUME NEW e \in Open', e \notin Open PROVE e \in E /\ LF!Tracked(e)
    OBVIOUS
  <2>1. b.todo = <<>> /\ b.left \subseteq m.positions \cap Passing
    BY DEF Finished
  <2> HIDE DEF b
  <2>2. e = <<"positionUpdate", e[2], i>> /\ e[2] \in m.positions \cap Passing
    BY <1>1, <1>2, <2>1, RunOnOpen
  <2> QED
    BY <2>2 DEF LF!Tracked
<1>6. ASSUME NEW c \in Clients
      PROVE  got'[c] = got[c] \cup {e \in E : ~ LF!Tracked(e) /\ LF!DeviceOf(e) \in Listening[c]}
  <2>1. \A d \in Devices : c \in Listeners(d) <=> d \in Listening[c]
    BY DEF Listening
  <2>2. Passing \subseteq Devices
    BY DEF Passing
  <2>3. EmittedNow(c, i, m) = {e \in E : ~ LF!Tracked(e) /\ LF!DeviceOf(e) \in Listening[c]}
    BY <2>1, <2>2 DEF EmittedNow, LF!Tracked, LF!DeviceOf
  <2> QED
    BY <1>1, <2>3
<1>7. ASSUME NEW c \in Clients
      PROVE  Due'[c] = Due[c] \cup {e \in E : LF!Tracked(e) /\ LF!DeviceOf(e) \in Listening[c]}
  <2>1. ASSUME NEW e \in Published PROVE e \in Due'[c] <=> e \in Due[c]
    <3>1. e[1] = "positionUpdate" => (e \in got'[c] <=> e \in got[c])
      BY <1>6 DEF LF!Tracked
    <3> QED
      BY <1>1, <1>3, <1>4, <3>1 DEF Due, registry
  <2>2. ASSUME NEW e \in E
        PROVE  e \in Due'[c] <=> LF!Tracked(e) /\ LF!DeviceOf(e) \in Listening[c]
    <3>1. e \notin Published /\ e[3] = i /\ e[2] \in Devices
      BY <1>3
    <3>4. e[1] # "snapshot"
      OBVIOUS
    <3>2. e \notin got[c] /\ since[c][e[2]] < e[3]
      BY <1>0, <1>2, <3>1, <3>4 DEF HistoryInv, TypeOK
    <3>3. LF!Tracked(e) => e \notin got'[c]
      BY <1>6, <3>2
    <3> QED
      BY <1>1, <1>3, <1>4, <3>2, <3>3 DEF Due, registry, LF!Tracked, LF!DeviceOf
  <2>3. Due[c] \subseteq Published /\ Due'[c] \subseteq Published \cup E
    BY <1>3 DEF Due
  <2> HIDE DEF E
  <2> QED
    BY <1>3, <2>1, <2>2, <2>3
<1> HIDE DEF E
<1>8. /\ Due' = [c \in Clients |->
                   Due[c] \cup {e \in E : LF!Tracked(e) /\ LF!DeviceOf(e) \in Listening[c]}]
      /\ got' = [c \in Clients |->
                   got[c] \cup {e \in E : ~ LF!Tracked(e) /\ LF!DeviceOf(e) \in Listening[c]}]
  BY <1>1, <1>6, <1>7 DEF Due
<1>10. Asking' = Asking
  BY <1>1 DEF Asking
<1>9. LF!Publish(E)
  BY <1>1, <1>3, <1>4, <1>5, <1>8, <1>10 DEF LF!Publish, LF!Settle, DueIsOpen
<1> QED
  BY <1>3, <1>9

LEMMA PopulatedMaps ==
    ASSUME TypeOK, HistoryInv, FanOutInv, NEW i \in Messages, AddressPopulated(i),
           DueIsOpen'
    PROVE  (\E c \in Clients, e \in Open : LF!Deliver(c, e)) \/ LF!Skip
<1> DEFINE b == broadcasts[i]
           e == <<"positionUpdate", b.of, i>>
<1>1. /\ UNCHANGED <<sockets, registry, calls, messages, told>> /\ RunOn(i, b)
      /\ got' = IF b.to \in sockets THEN [got EXCEPT ![b.to] = @ \cup {e}] ELSE got
  BY DEF AddressPopulated
<1>2. b \in Broadcast
  BY BroadcastTyped DEF AddressPopulated
<1>3. e \in Open
  BY <1>2 DEF AddressPopulated, Open, Broadcast
<1>4. /\ Published' = Published /\ Listening' = Listening /\ Answered' = Answered
      /\ Asking' = Asking
  BY <1>1, PublishedSame DEF Listening, Listeners, SocketIds, Answered, Asking, registry, messages
<1>5. Open' \subseteq Open
  <2> SUFFICES ASSUME NEW f \in Open' PROVE f \in Open
    OBVIOUS
  <2>1. /\ f = <<"positionUpdate", f[2], f[3]>> /\ f[2] \in Devices /\ f[3] \in Messages
        /\ IF f[3] = i THEN f[2] \in b.left \/ f[2] = b.of ELSE f \in Open
    BY <1>1, RunOnOpen
  <2> QED
    BY <2>1 DEF AddressPopulated, Open
<1>6. LF!Settle(Open)
  BY <1>5 DEF LF!Settle, DueIsOpen
<1>7. CASE b.to \in sockets
  <2>1. b.to \in Clients /\ b.of \in Devices
    BY <1>2 DEF Broadcast
  <2>2. b.of \in Answered[b.to]
    BY <1>7, <2>1 DEF FanOutInv, WasTold, Answered
  <2>3. e[2] = b.of
    OBVIOUS
  <2> HIDE DEF e
  <2>4. ASSUME NEW c \in Clients PROVE Due'[c] = IF c = b.to THEN Due[c] \ {e} ELSE Due[c]
    <3>1. got'[c] = IF c = b.to THEN got[c] \cup {e} ELSE got[c]
      BY <1>1, <1>7 DEF TypeOK
    <3> QED
      BY <1>1, <1>4, <3>1 DEF Due, registry
  <2>5. Due' = [Due EXCEPT ![b.to] = @ \ {e}]
    <3>1. Due = [c \in Clients |-> Due[c]] /\ Due' = [c \in Clients |-> Due'[c]]
      BY Zenon DEF Due
    <3>2. Due' = [c \in Clients |-> IF c = b.to THEN Due[c] \ {e} ELSE Due[c]]
      BY <2>4, <3>1, Zenon
    <3> QED
      BY <2>1, <3>1, <3>2
  <2>6. LF!Deliver(b.to, e)
    BY <1>1, <1>4, <1>6, <1>7, <2>2, <2>3, <2>5 DEF LF!Deliver, LF!DeviceOf
  <2> QED
    BY <1>3, <2>1, <2>6
<1>8. CASE b.to \notin sockets
  <2>1. Due' = Due
    BY <1>1, <1>4, <1>8 DEF Due, registry
  <2>2. LF!Skip
    BY <1>1, <1>4, <1>6, <1>8, <2>1 DEF LF!Skip
  <2> QED
    BY <2>2
<1> QED
  BY <1>7, <1>8

-----------------------------------------------------------------------------
LEMMA StepsMap ==
    TypeOK /\ FanOutInv /\ HistoryInv /\ DueIsOpen' /\ [Next]_vars => [LF!Next]_(LF!vars)
<1> SUFFICES ASSUME TypeOK, FanOutInv, HistoryInv, DueIsOpen', [Next]_vars
             PROVE  LF!Next \/ UNCHANGED LF!vars
  BY DEF LF!vars
<1> USE GatewayAssumption
<1>1. CASE UNCHANGED vars
  <2>1. Asking' = Asking
    BY <1>1 DEF vars, Asking
  <2> QED
    BY <1>1, <2>1, StutterMaps DEF vars, registry, messages, history
<1>2. CASE TraccarReports
  <2>1. \A i \in 1..heard : feed'[i] = feed[i]
    BY <1>2 DEF TraccarReports, TypeOK
  <2>2. Asking' = Asking
    BY <1>2 DEF TraccarReports, Asking
  <2> QED
    BY <1>2, <2>1, <2>2, StutterMaps DEF TraccarReports, registry, history
<1>3. CASE ClientStep
  <2>1. ASSUME NEW c \in Clients, HandleConnection(c) PROVE LF!Next
    BY <2>1, ConnectMaps DEF LF!Next
  <2>2. ASSUME NEW c \in Clients, HandleDisconnect(c) PROVE LF!Next
    BY <2>2, DisconnectMaps DEF LF!Next
  <2>3. ASSUME NEW c \in Clients, NEW id \in Id, HandleUnsubscribeFromDevice(c, id)
        PROVE  LF!Next \/ UNCHANGED LF!vars
    BY <2>3, UnsubscribeMaps DEF LF!Next
  <2> QED
    BY <1>3, <2>1, <2>2, <2>3, SubscribeMaps DEF ClientStep
<1>4. CASE CallStep
  <2>1. ASSUME NEW k \in Calls, DeviceFound(k) PROVE LF!Next \/ UNCHANGED LF!vars
    BY <2>1, FoundMaps DEF LF!Next
  <2>2. ASSUME NEW k \in Calls, PositionsRead(k) PROVE LF!Next \/ UNCHANGED LF!vars
    BY <2>2, ReadMaps DEF LF!Next
  <2>3. ASSUME NEW k \in Calls, SnapshotReady(k) PROVE LF!Next \/ UNCHANGED LF!vars
    BY <2>3, ShowMaps DEF LF!Next
  <2>4. ASSUME NEW k \in Calls, SubscribeFails(k) PROVE LF!Next \/ UNCHANGED LF!vars
    BY <2>4, FailMaps DEF LF!Next
  <2> QED
    BY <1>4, <2>1, <2>2, <2>3, <2>4 DEF CallStep
<1>5. CASE FeedStep
  <2>1. ASSUME HandleTraccarMessage PROVE LF!Next
    BY <2>1, HandleMaps DEF LF!Next
  <2>2. ASSUME NEW i \in Messages, AddressPopulated(i) PROVE LF!Next
    BY <2>2, PopulatedMaps DEF LF!Next
  <2> QED
    BY <1>2, <1>5, <2>1, <2>2 DEF FeedStep
<1> QED
  BY <1>1, <1>3, <1>4, <1>5 DEF Next

(* The gateway implements the abstract feed: whatever handlers interleave,  *)
(* clients see only what LiveFeed allows, snapshots included; no position   *)
(* that a client is due is closed before the client has it or has left, and *)
(* a call shows at most one snapshot, to the connection that made it.       *)
THEOREM GatewayImplementsLiveFeed == Spec => ImplementsLiveFeed
<1>1. Init => LF!Init
  BY DEF Init, LF!Init, Listening, Listeners, Answered, Published, Open, Due, Asking, Finished
<1> QED
  BY <1>1, StepsMap, TypeCorrect, FanOutHolds, HistoryHolds, SubscribersServed,
     SkippedIsOpen, PTL
     DEF Spec, LF!Spec, ImplementsLiveFeed
=============================================================================
