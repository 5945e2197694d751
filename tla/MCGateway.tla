------------------------------ MODULE MCGateway ------------------------------
(* Instances of DevicesGateway for TLC. *)
EXTENDS DevicesGateway

Positions(D) == [positions |-> D, devices |-> {}, events |-> {}]
Everything(D) == [positions |-> D, devices |-> D, events |-> D]

(* One message, with all three arrays for every device. *)
ReportOfAll == {Everything(Devices)}

(* One message, with a position of every device. *)
ReportOfEach == {Positions(Devices)}

(* One message per set of devices, each with positions only. *)
ReportsOfSome == {Positions(D) : D \in (SUBSET Devices) \ {{}}}

(* What clients send: numbers only; or every form. *)
Numbers == {"number"} \X Devices
EveryForm == Id

(* The one alias is of the one device. *)
Spelling == [a \in Aliases |-> CHOOSE d \in Devices : TRUE]

ClientSymmetry == Permutations(Clients) \cup Permutations(Calls)

(* While a client has two calls in flight it is alone, and so is one that    *)
(* uses an alias; then it has one call, and no message has been handled.    *)
Busy == {k \in Calls : calls[k].step # "idle"}

AliasInUse ==
    \/ Aliases \cap DOMAIN deviceSubscriptions # {}
    \/ \E k \in Busy : NameOf(calls[k].id) \in Aliases
    \/ \E c \in Clients, a \in Aliases : told[c][a] # "nothing"

Around == sockets \cup {c \in Clients : ~ Forgotten(c)}

Uncrowded ==
    /\ Cardinality(Busy) > 1 => Cardinality(Around) <= 1
    /\ AliasInUse => Cardinality(Busy) <= 1 /\ Cardinality(Around) <= 1 /\ heard = 0

ClientsSpec == Init /\ [][Next /\ Uncrowded']_vars

(* One client stays, subscribed to one device, while others join and leave  *)
(* the Sets of all devices.  Their calls fail once they have joined, but     *)
(* when Traccar has no position yet: a snapshot would be one thing more got. *)
Steadfast == CHOOSE c \in Clients : TRUE
Followed  == {CHOOSE d \in Devices : TRUE}

OneSubscribed ==
    /\ sockets = {Steadfast}
    /\ subscribedDevices = {"number"} \X Followed
    /\ deviceSubscriptions = [d \in Followed |-> <<Steadfast>>]
    /\ calls = [k \in Calls |-> IdleCall]
    /\ feed = <<>>
    /\ heard = 0
    /\ broadcasts = [i \in Messages |-> Finished]
    /\ told = [c \in Clients |-> [d \in Names |->
                  IF c = Steadfast /\ d \in Followed THEN "subscribed" ELSE "nothing"]]
    /\ got = [c \in Clients |-> {}]
    /\ since = [c \in Clients |-> [d \in Names |-> 0]]
    /\ strung = {}
    /\ passed = [i \in Messages |-> {}]

OneStays ==
    /\ Steadfast \in sockets' /\ told'[Steadfast] = told[Steadfast]
    /\ \A k \in Calls : calls'[k].client # Steadfast
    /\ \A k \in Calls : calls'[k].step # "address"

SteadySpec == OneSubscribed /\ [][Next /\ OneStays]_vars /\ Fairness
=============================================================================
