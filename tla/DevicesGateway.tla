--------------------------- MODULE DevicesGateway ---------------------------
(***************************************************************************)
(* The live-tracking gateway of the backend: src/devices/devices.gateway.ts *)
(* with the two calls it awaits in src/devices/devices.service.ts.          *)
(*                                                                         *)
(* Clients (socket.io sockets) subscribe to Traccar devices; every message  *)
(* of the Traccar feed is filtered and fanned out to the subscribers.  The  *)
(* process is single threaded: a handler runs alone from one await to the   *)
(* next, so one action is one such stretch.  What interleaves are the       *)
(* handlers suspended at an await: subscribe calls and position broadcasts, *)
(* which nobody awaits.                                                     *)
(*                                                                         *)
(* A position is identified by the number of the feed message that carried  *)
(* it: a greater number is a newer position.                                *)
(***************************************************************************)
EXTENDS Integers, SequencesExt

CONSTANTS
    Clients,      \* socket ids
    Devices,      \* Traccar device ids, numbers, which toString() prints in decimal
    Aliases,      \* other strings that are read as a device: "007"
    Spells,       \* the device that parseInt and Traccar read each alias as
    Ids,          \* the device ids that clients send (a bound)
    Calls,        \* subscribe calls that may be in flight together (a bound)
    Reports,      \* the messages Traccar may push
    MaxMessages,  \* how many messages Traccar pushes (a bound)
    NoClient, NoDevice

Messages == 1..MaxMessages

(* Keys of the map: a device stands for its number in decimal. *)
Names == Devices \cup Aliases

(* A client sends a number or, since nothing looks at its type, a string.   *)
Id == ({"number"} \X Devices) \cup ({"string"} \X Names)

Kinds == {"positionUpdate", "deviceUpdate", "eventUpdate", "snapshot"}

(* A message of the feed has up to three arrays; each is the set of the     *)
(* devices it has an element for (every order of the elements is covered).  *)
Report == [positions : SUBSET Devices, devices : SUBSET Devices, events : SUBSET Devices]

ASSUME GatewayAssumption ==
    /\ MaxMessages \in Nat
    /\ Reports \subseteq Report
    /\ NoClient \notin Clients
    /\ NoDevice \notin Names
    /\ Aliases \cap Devices = {}
    /\ Spells \in [Aliases -> Devices]
    /\ Ids \subseteq Id

VARIABLES
    sockets,              \* keys of server.sockets.sockets: the connected clients
    deviceSubscriptions,  \* Map deviceId.toString() -> Set of socket ids, in insertion order
    subscribedDevices,    \* Set of device ids as sent, the filter of handleTraccarMessage
    calls,                \* handleSubscribeToDevice invocations, each at an await
    feed,                 \* what Traccar has recorded and pushed so far
    heard,                \* how many messages of the feed have been handled
    broadcasts,           \* broadcastPositionUpdates invocations, one per message
    told,                 \* history: the last answer each client got about a device
    got,                  \* history: the elements and snapshots each client received
    since,                \* history: value of heard when the client was added
    strung,               \* history: devices whose entry a string has opened, closed or taken from
    passed                \* history: devices in the filter when each message was handled

registry == <<deviceSubscriptions, subscribedDevices, since, strung>>
messages == <<feed, heard, passed>>
history  == <<told, got>>
vars     == <<sockets, registry, calls, messages, broadcasts, history>>

-----------------------------------------------------------------------------
(* The shapes of the suspended handlers. *)

(* A subscribe call awaits findOne ("verify"), then Traccar's answer to     *)
(* getPositionsByDeviceId ("read"), then the address lookups of that call   *)
(* ("address"), holding in snap the position it read.                       *)
IdleCall == [step |-> "idle", client |-> NoClient, id |-> NoDevice, snap |-> 0]

Call == [step : {"verify", "read"}, client : Clients, id : Id, snap : {0}]
          \cup [step : {"address"}, client : Clients, id : Id, snap : Messages]

(* A broadcast awaits populateAddress for client "to" and a position of     *)
(* device "of".  It iterates over the live Set of that device: "todo" is    *)
(* what the iterator has still to visit, in order, and "attached" tells     *)
(* whether the Set is still the one in the map (a Set leaves the map empty, *)
(* and a later subscription makes a new one).  "left" are the devices of    *)
(* its later positions.                                                     *)
Finished == [of |-> NoDevice, to |-> NoClient, todo |-> <<>>, attached |-> FALSE, left |-> {}]

Broadcast == [of : Devices, to : Clients, todo : Seq(Clients), attached : BOOLEAN,
              left : SUBSET Devices]

(* A Set of socket ids: its elements in insertion order, none twice. *)
IdSet == {s \in Seq(Clients) : IsInjective(s)}

Answers == {"nothing", "subscribed", "unsubscribed", "error"}

TypeOK ==
    /\ sockets \in SUBSET Clients
    /\ DOMAIN deviceSubscriptions \subseteq Names
    /\ deviceSubscriptions \in [DOMAIN deviceSubscriptions -> IdSet]
    /\ subscribedDevices \in SUBSET Id
    /\ strung \in SUBSET Devices
    /\ calls \in [Calls -> Call \cup {IdleCall}]
    /\ feed \in Seq(Report)
    /\ heard \in 0..MaxMessages
    /\ heard <= Len(feed) /\ Len(feed) <= MaxMessages
    /\ broadcasts \in [Messages -> Broadcast \cup {Finished}]
    /\ passed \in [Messages -> SUBSET Devices]
    /\ told \in [Clients -> [Names -> Answers]]
    /\ got \in [Clients -> SUBSET (Kinds \X Names \X Messages)]
    /\ since \in [Clients -> [Names -> 0..MaxMessages]]

Init ==
    /\ sockets = {}
    /\ deviceSubscriptions = [d \in {} |-> <<>>]
    /\ subscribedDevices = {}
    /\ calls = [k \in Calls |-> IdleCall]
    /\ feed = <<>>
    /\ heard = 0
    /\ broadcasts = [i \in Messages |-> Finished]
    /\ told = [c \in Clients |-> [n \in Names |-> "nothing"]]
    /\ got = [c \in Clients |-> {}]
    /\ since = [c \in Clients |-> [n \in Names |-> 0]]
    /\ strung = {}
    /\ passed = [i \in Messages |-> {}]

-----------------------------------------------------------------------------
(* Device ids.  The map is keyed by what toString() prints; the filter      *)
(* holds ids as they were sent, and lets a message's numbers pass.          *)

NameOf(id) == id[2]

IsString(id) == id[1] = "string"

(* parseInt of a key. *)
Number(n) == IF n \in Devices THEN n ELSE Spells[n]

Passing == {d \in Devices : <<"number", d>> \in subscribedDevices}

-----------------------------------------------------------------------------
(* The registry.  A Set is the sequence of its elements in the order of     *)
(* insertion, which is the order of iteration: a socket id deleted and      *)
(* added again goes to the end, and an iterator meets it there again.       *)

SocketIds(d) == IF d \in DOMAIN deviceSubscriptions THEN deviceSubscriptions[d] ELSE <<>>

(* The sockets an element for device d goes to: broadcasts skip a socket id *)
(* that is no longer connected.                                             *)
Listeners(d) == ToSet(SocketIds(d)) \cap sockets

SetAdd(s, c) == IF Contains(s, c) THEN s ELSE Append(s, c)

(* Add client c to the Set of the device it names.  The id as it was sent   *)
(* goes into the filter, if the Set is a new one.                           *)
Enlist(c, id) ==
    LET d   == NameOf(id)
        new == ~ Contains(SocketIds(d), c) IN
    /\ deviceSubscriptions' = [e \in DOMAIN deviceSubscriptions \cup {d} |->
                                 IF e = d THEN SetAdd(SocketIds(d), c) ELSE deviceSubscriptions[e]]
    /\ IF d \in DOMAIN deviceSubscriptions
       THEN UNCHANGED <<subscribedDevices, strung>>
       ELSE /\ subscribedDevices' = subscribedDevices \cup {id}
            /\ strung' = IF IsString(id) THEN strung \cup ({d} \cap Devices) ELSE strung \ {d}
    /\ since' = IF new THEN [since EXCEPT ![c][d] = heard] ELSE since
    /\ broadcasts' = [i \in Messages |->
                        IF new /\ broadcasts[i].attached /\ broadcasts[i].of = d
                        THEN [broadcasts[i] EXCEPT !.todo = Append(@, c)] ELSE broadcasts[i]]

(* Mutants of Vacated: entries are kept when empty, or go one member early. *)
VacatedNever(c, D) == {}
VacatedEarly(c, D) == {d \in D \cap DOMAIN deviceSubscriptions : Len(deviceSubscriptions[d]) <= 2}

(* The devices of D whose Set is empty without client c. *)
Vacated(c, D) ==
    {d \in D \cap DOMAIN deviceSubscriptions : ToSet(deviceSubscriptions[d]) \subseteq {c}}

(* Delete client c from the Sets of the devices D; an entry whose Set       *)
(* becomes empty goes.                                                      *)
Unlist(c, D) ==
    LET gone == Vacated(c, D) IN
    /\ deviceSubscriptions' = [d \in DOMAIN deviceSubscriptions \ gone |->
                                 IF d \in D THEN RemoveFirst(deviceSubscriptions[d], c)
                                            ELSE deviceSubscriptions[d]]
    /\ since' = [since EXCEPT ![c] = [d \in Names |-> IF d \in D THEN 0 ELSE @[d]]]
    /\ broadcasts' = [i \in Messages |->
                        IF broadcasts[i].attached /\ broadcasts[i].of \in D
                        THEN [broadcasts[i] EXCEPT !.todo = RemoveFirst(@, c),
                                                   !.attached = broadcasts[i].of \notin gone]
                        ELSE broadcasts[i]]

-----------------------------------------------------------------------------
(* Connections. *)

(* Socket ids are never reused; the model reuses one for a new connection   *)
(* once nothing in the process refers to the old one.                       *)
Forgotten(c) ==
    /\ \A d \in Names : ~ Contains(SocketIds(d), c)
    /\ \A k \in Calls : calls[k].client # c
    /\ \A i \in Messages : broadcasts[i].to # c

HandleConnection(c) ==
    /\ c \notin sockets /\ Forgotten(c)
    /\ sockets' = sockets \cup {c}
    /\ UNCHANGED <<registry, calls, messages, broadcasts, history>>

(* socket.io takes the socket out of server.sockets.sockets and calls the   *)
(* handler in the same turn.  Of an entry that goes, the number it is read   *)
(* as leaves the filter: an alias takes that of its device.  What a closed   *)
(* socket was told is dropped.                                              *)
HandleDisconnect(c) ==
    LET D    == {d \in DOMAIN deviceSubscriptions : Contains(deviceSubscriptions[d], c)}
        gone == Vacated(c, D)
    IN  /\ c \in sockets
        /\ sockets' = sockets \ {c}
        /\ Unlist(c, D)
        /\ subscribedDevices' = subscribedDevices \ {<<"number", Number(n)>> : n \in gone}
        /\ strung' = (strung \ gone)
               \cup {d \in Devices \cap DOMAIN deviceSubscriptions' : \E n \in gone : Number(n) = d}
        /\ told' = [told EXCEPT ![c] = [d \in Names |-> "nothing"]]
        /\ got' = [got EXCEPT ![c] = {}]
        /\ UNCHANGED <<calls, messages>>

(* An emit on a socket that has closed goes nowhere. *)
Answer(c, d, a) == told' = IF c \in sockets THEN [told EXCEPT ![c][d] = a] ELSE told

-----------------------------------------------------------------------------
(* handleSubscribeToDevice, from await to await. *)

Subscribe(c, id) ==
    \E k \in Calls :
        /\ c \in sockets
        /\ calls[k].step = "idle"
        /\ calls' = [calls EXCEPT ![k] = [step |-> "verify", client |-> c, id |-> id, snap |-> 0]]
        /\ UNCHANGED <<sockets, registry, messages, broadcasts, history>>

(* findOne returned: the client is added whether or not it still is there.  *)
DeviceFound(k) ==
    /\ calls[k].step = "verify"
    /\ Enlist(calls[k].client, calls[k].id)
    /\ Answer(calls[k].client, NameOf(calls[k].id), "subscribed")
    /\ calls' = [calls EXCEPT ![k].step = "read"]
    /\ UNCHANGED <<sockets, messages, got>>

(* Position i is the newest one Traccar has of device d, 0 standing for none. *)
IsLatest(i, d) ==
    /\ i > 0 => d \in feed[i].positions
    /\ \A j \in i + 1..Len(feed) : d \notin feed[j].positions

(* Traccar answers getPositionsByDeviceId(deviceId, 1): an empty answer is  *)
(* logged and ends the call, a position still waits for its address.        *)
PositionsRead(k) ==
    /\ calls[k].step = "read"
    /\ \E i \in 0..Len(feed) :
          /\ IsLatest(i, Number(NameOf(calls[k].id)))
          /\ calls' = [calls EXCEPT ![k] =
                         IF i = 0 THEN IdleCall ELSE [@ EXCEPT !.step = "address", !.snap = i]]
    /\ UNCHANGED <<sockets, registry, messages, broadcasts, history>>

(* Mutant of SnapshotReady: the handler does not return. *)
SnapshotNeverDone(k) ==
    /\ calls[k].step = "address"
    /\ calls' = [calls EXCEPT ![k].step = "emitted"]
    /\ UNCHANGED <<sockets, registry, messages, broadcasts, history>>

(* Mutant of SnapshotReady: the position is emitted on the server.          *)
SnapshotToAll(k) ==
    LET e == <<"snapshot", NameOf(calls[k].id), calls[k].snap>> IN
    /\ calls[k].step = "address"
    /\ got' = [c \in Clients |-> IF c \in sockets THEN got[c] \cup {e} ELSE got[c]]
    /\ calls' = [calls EXCEPT ![k] = IdleCall]
    /\ UNCHANGED <<sockets, registry, messages, broadcasts, told>>

(* The address is there: emit positionUpdate with the position read above,  *)
(* to the client that called, whether or not it still is in the Set.        *)
SnapshotReady(k) ==
    LET c == calls[k].client
        e == <<"snapshot", NameOf(calls[k].id), calls[k].snap>>
    IN  /\ calls[k].step = "address"
        /\ got' = IF c \in sockets THEN [got EXCEPT ![c] = @ \cup {e}] ELSE got
        /\ calls' = [calls EXCEPT ![k] = IdleCall]
        /\ UNCHANGED <<sockets, registry, messages, broadcasts, told>>

(* Any of the three awaits throws (unknown device, Traccar unreachable, no  *)
(* address for the position): the catch block tells the client.             *)
SubscribeFails(k) ==
    /\ calls[k].step # "idle"
    /\ Answer(calls[k].client, NameOf(calls[k].id), "error")
    /\ calls' = [calls EXCEPT ![k] = IdleCall]
    /\ UNCHANGED <<sockets, registry, messages, broadcasts, got>>

(* handleUnsubscribeFromDevice runs without an await.  It confirms when the *)
(* device has an entry, the client's or not; when the entry goes, the id as *)
(* it was sent leaves the filter.                                           *)
HandleUnsubscribeFromDevice(c, id) ==
    LET d    == NameOf(id)
        gone == Vacated(c, {d})
    IN  /\ c \in sockets
        /\ Unlist(c, {d})
        /\ subscribedDevices' = IF gone = {} THEN subscribedDevices ELSE subscribedDevices \ {id}
        /\ strung' = IF IsString(id) THEN strung \cup (gone \cap Devices) ELSE strung \ gone
        /\ told' = IF d \in DOMAIN deviceSubscriptions
                   THEN [told EXCEPT ![c][d] = "unsubscribed"] ELSE told
        /\ UNCHANGED <<sockets, calls, messages, got>>

-----------------------------------------------------------------------------
(* Fan-out. *)

(* External: Traccar records new data and pushes it on the socket. *)
TraccarReports ==
    /\ Len(feed) < MaxMessages
    /\ \E m \in Reports : feed' = Append(feed, m)
    /\ UNCHANGED <<sockets, registry, calls, heard, passed, broadcasts, history>>

(* The iterator's next stop in the ids s: the first that is connected.      *)
NextStop(s, p) == p \in DOMAIN s /\ s[p] \in sockets /\ \A q \in 1..p - 1 : s[q] \notin sockets
NoStop(s) == ToSet(s) \cap sockets = {}

(* Mutant of Await: the loop leaves after the first socket. *)
AwaitFirstOnly(i, d, s, p, left) ==
    broadcasts' = [broadcasts EXCEPT ![i] =
        [of |-> d, to |-> s[p], todo |-> <<>>, attached |-> TRUE, left |-> left]]

Await(i, d, s, p, left) ==
    broadcasts' = [broadcasts EXCEPT ![i] =
        [of |-> d, to |-> s[p], todo |-> SubSeq(s, p + 1, Len(s)),
         attached |-> TRUE, left |-> left]]

(* broadcastPositionUpdates for message i runs on from state b to its next  *)
(* await, on the next stop in the Set it iterates over or in that of a      *)
(* later position, or to its end.                                           *)
RunOn(i, b) ==
    \/ \E p \in DOMAIN b.todo : NextStop(b.todo, p) /\ Await(i, b.of, b.todo, p, b.left)
    \/ /\ NoStop(b.todo)
       /\ \E d \in b.left : \E p \in DOMAIN SocketIds(d) :
              NextStop(SocketIds(d), p) /\ Await(i, d, SocketIds(d), p, b.left \ {d})
    \/ /\ NoStop(b.todo)
       /\ \A d \in b.left : Listeners(d) = {}
       /\ broadcasts' = [broadcasts EXCEPT ![i] = Finished]

(* Mutant of EmittedNow: updates go to every connected socket. *)
EmittedToAll(c, i, m) ==
    {<<"deviceUpdate", d, i>> : d \in {e \in m.devices \cap Passing : c \in sockets}}
      \cup
    {<<"eventUpdate", d, i>> : d \in {e \in m.events \cap Passing : c \in sockets}}

(* broadcastDeviceUpdates and broadcastEventUpdates emit at once. *)
EmittedNow(c, i, m) ==
    {<<"deviceUpdate", d, i>> : d \in {e \in m.devices \cap Passing : c \in Listeners(e)}}
      \cup
    {<<"eventUpdate", d, i>> : d \in {e \in m.events \cap Passing : c \in Listeners(e)}}

HandleTraccarMessage ==
    LET i == heard + 1
        m == feed[i]
    IN  /\ heard < Len(feed)
        /\ heard' = i
        /\ passed' = [passed EXCEPT ![i] = Passing]
        /\ RunOn(i, [Finished EXCEPT !.left = m.positions \cap Passing])
        /\ got' = [c \in Clients |-> got[c] \cup EmittedNow(c, i, m)]
        /\ UNCHANGED <<sockets, registry, calls, feed, told>>

(* Mutant of AddressPopulated: a failed lookup ends the broadcast. *)
AddressFailureEnds(i) ==
    /\ broadcasts[i].to # NoClient
    /\ broadcasts' = [broadcasts EXCEPT ![i] = Finished]
    /\ UNCHANGED <<sockets, registry, calls, messages, history>>

(* populateAddress came back, with an address or without: emit, and go on.  *)
AddressPopulated(i) ==
    LET b == broadcasts[i] IN
    /\ b.to # NoClient
    /\ got' = IF b.to \in sockets
              THEN [got EXCEPT ![b.to] = @ \cup {<<"positionUpdate", b.of, i>>}] ELSE got
    /\ RunOn(i, b)
    /\ UNCHANGED <<sockets, registry, calls, messages, told>>

-----------------------------------------------------------------------------
ClientStep ==
    \E c \in Clients :
        \/ HandleConnection(c)
        \/ HandleDisconnect(c)
        \/ \E id \in Ids : Subscribe(c, id) \/ HandleUnsubscribeFromDevice(c, id)

CallStep ==
    \E k \in Calls : DeviceFound(k) \/ PositionsRead(k) \/ SnapshotReady(k) \/ SubscribeFails(k)

FeedStep ==
    \/ TraccarReports
    \/ HandleTraccarMessage
    \/ \E i \in Messages : AddressPopulated(i)

Next == ClientStep \/ CallStep \/ FeedStep

Spec == Init /\ [][Next]_vars

(* The event loop hands over a received message, and an address lookup      *)
(* returns or fails (populateAddress swallows the failure).                 *)
Fairness ==
    /\ WF_vars(HandleTraccarMessage)
    /\ \A i \in Messages : WF_vars(AddressPopulated(i))

FairSpec == Spec /\ Fairness

-----------------------------------------------------------------------------
(* Properties. *)

(* The two tables the gateway keeps in step by hand agree (lines 63-66,     *)
(* 78-83, 118-121): no Set of the map is empty, and of every device the     *)
(* filter lets pass its data exactly when it has an entry, unless a string   *)
(* has opened or closed that entry, or an alias been read as its number,     *)
(* since a number last did.  A device in one table only would mean that its  *)
(* subscribers hear nothing, or that its data is fanned out for nobody.      *)
FilterMatchesMap ==
    /\ \A n \in DOMAIN deviceSubscriptions : deviceSubscriptions[n] # <<>>
    /\ \A d \in Devices \ strung : d \in Passing <=> d \in DOMAIN deviceSubscriptions

(* The last confirmation a connected client holds is true: after            *)
(* subscriptionConfirmed it is in the Set of the device, after              *)
(* unsubscriptionConfirmed it is not, and no one is in a Set unannounced    *)
(* (lines 91, 124), whatever calls of it are still at an await.             *)
ConfirmationsAreTrue ==
    \A c \in sockets, d \in Names :
        /\ told[c][d] = "subscribed" => c \in Listeners(d)
        /\ told[c][d] \in {"nothing", "unsubscribed"} => c \notin Listeners(d)

(* Broadcast i still has to give client c its position of device d. *)
Owed(c, d, i) ==
    LET b == broadcasts[i] IN
    \/ b.of = d /\ b.to = c
    \/ b.of = d /\ b.attached /\ Contains(b.todo, c)
    \/ d \in b.left

(* No subscriber is skipped: a client connected and subscribed since before *)
(* message i was handled has received every element of it for its device,   *)
(* or the broadcast of i still owes it, although Sets are changed, emptied  *)
(* and replaced while broadcasts iterate over them (lines 168-184).  This   *)
(* is so of the devices that passed the filter, and those are all but the   *)
(* ones that ids sent as strings have kept, or thrown, out of it.           *)
NobodySkipped ==
    \A c \in sockets, d \in Devices, i \in 1..heard :
        c \in Listeners(d) /\ since[c][d] < i /\ (d \notin strung \/ d \in passed[i]) =>
            /\ d \in feed[i].positions => <<"positionUpdate", d, i>> \in got[c] \/ Owed(c, d, i)
            /\ d \in feed[i].devices   => <<"deviceUpdate", d, i>> \in got[c]
            /\ d \in feed[i].events    => <<"eventUpdate", d, i>> \in got[c]

(* No client is shown data of a device about which it was told nothing yet: *)
(* no update, and no snapshot of a call that its connection did not make.   *)
OnlyAfterAnswer ==
    \A c \in sockets, d \in Names :
        told[c][d] = "nothing" => \A e \in got[c] : e[2] # d

(* Client c is in what the iteration of broadcast i has still to visit. *)
Ahead(c, d, i) ==
    LET b == broadcasts[i] IN
    b.of = d /\ (b.to = c \/ (b.attached /\ Contains(b.todo, c)))

(* A client is put into a Set. *)
Joins == \E k \in Calls : DeviceFound(k)

(* Client c has message i's position of device d, or has left the Set. *)
Delivered(c, d, i) == c \notin Listeners(d) \/ <<"positionUpdate", d, i>> \in got[c]

(* What a broadcast owes a client it delivers, unless the client leaves: no *)
(* interleaving of subscriptions and other broadcasts makes it stop before  *)
(* its end (lines 167-185).  Of the position it is at this holds as it      *)
(* stands.  A later position has to wait for the Set of the one before, and *)
(* an id deleted from a Set and added again is visited again: clients that  *)
(* keep rejoining keep a broadcast where it is, so that the later positions *)
(* are delivered if a time comes when nobody joins any more.                *)
OwedIsDelivered ==
    \A c \in Clients, d \in Devices, i \in Messages :
        /\ (c \in Listeners(d) /\ Ahead(c, d, i)) ~> Delivered(c, d, i)
        /\ <>[][~ Joins]_vars => ((c \in Listeners(d) /\ Owed(c, d, i)) ~> Delivered(c, d, i))

-----------------------------------------------------------------------------
(* DevicesGateway implements LiveFeed. *)

(* The elements of message i that passed the filter. *)
ElementsOf(i) ==
    {<<"positionUpdate", d, i>> : d \in feed[i].positions \cap passed[i]}
      \cup {<<"deviceUpdate", d, i>> : d \in feed[i].devices \cap passed[i]}
      \cup {<<"eventUpdate", d, i>> : d \in feed[i].events \cap passed[i]}

Published == UNION {ElementsOf(i) : i \in 1..heard}

(* The positions that the broadcast of their message has not left behind.   *)
Open == {e \in {"positionUpdate"} \X Devices \X Messages :
            LET b == broadcasts[e[3]] IN b.to # NoClient /\ e[2] \in {b.of} \cup b.left}

Listening == [c \in Clients |-> {d \in Names : c \in Listeners(d)}]
Answered  == [c \in Clients |-> {d \in Names : told[c][d] # "nothing"}]

(* The calls that a client, still there, may get a snapshot from. *)
Asking == [c \in Clients |->
              {q \in Names \X Calls : /\ c \in sockets /\ calls[q[2]].client = c
                                      /\ calls[q[2]].step \in {"read", "address"}
                                      /\ NameOf(calls[q[2]].id) = q[1]}]

(* The positions handled since the client was added, which it has not got.  *)
Due == [c \in Clients |->
           {e \in Published : /\ e[1] = "positionUpdate" /\ e \notin got[c]
                             /\ e[2] \in Listening[c] /\ since[c][e[2]] < e[3]}]

LF == INSTANCE LiveFeed WITH
          Devices   <- Names,
          connected <- sockets,
          listening <- Listening,
          answered  <- Answered,
          published <- Published,
          open      <- Open,
          due       <- Due,
          asking    <- Asking,
          inbox     <- got

(* Sets that change under an iteration, calls that outlive their client and *)
(* broadcasts that overlap show in nothing a client can see: each step is   *)
(* one of LiveFeed or none; no broadcast ends on a client it still owes,    *)
(* and a snapshot goes to the connection that called, once.                 *)
ImplementsLiveFeed == LF!Spec

-----------------------------------------------------------------------------
(* What the code's own words say and the code does not keep. *)

(* Line 57, "Clean up subscriptions when a client disconnects": no socket   *)
(* that is gone is in a Set.  Broken by a disconnect during findOne.        *)
DisconnectCleansUp ==
    \A d \in Names : ToSet(SocketIds(d)) \subseteq sockets
=============================================================================
