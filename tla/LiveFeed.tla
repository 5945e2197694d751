------------------------------ MODULE LiveFeed ------------------------------
(***************************************************************************)
(* What live tracking promises, without Sets, handlers and awaits: the      *)
(* abstract specification that DevicesGateway implements.                   *)
(*                                                                         *)
(* A client listens to devices.  An element that is published goes to the   *)
(* clients that listen to its device: a device or event update at once, a   *)
(* position after a look-up, one client at a time.  Until a client has its  *)
(* position it is due; the publication of a position is open as long as it  *)
(* may still be delivered, and it may not be closed on a client it is due.  *)
(* A client that begins to listen may also get one snapshot for each time   *)
(* it asked, even when it has left again.                                   *)
(***************************************************************************)
CONSTANTS Clients, Devices, Messages, Calls

Elements    == {"positionUpdate", "deviceUpdate", "eventUpdate"} \X Devices \X Messages
Tracked(e)  == e[1] = "positionUpdate"
DeviceOf(e) == e[2]

VARIABLES
    connected,   \* the clients connected
    listening,   \* the devices a client listens to
    answered,    \* the devices a client has been told something about
    published,   \* the elements published so far
    open,        \* the positions whose publication is under way
    due,         \* the positions a client must still get
    asking,      \* the calls for a device that may still give a client a snapshot
    inbox        \* the elements a client has got

vars == <<connected, listening, answered, published, open, due, asking, inbox>>

Init ==
    /\ connected = {}
    /\ listening = [c \in Clients |-> {}]
    /\ answered = [c \in Clients |-> {}]
    /\ published = {}
    /\ open = {}
    /\ due = [c \in Clients |-> {}]
    /\ asking = [c \in Clients |-> {}]
    /\ inbox = [c \in Clients |-> {}]

Connect(c) ==
    /\ c \notin connected
    /\ connected' = connected \cup {c}
    /\ UNCHANGED <<listening, answered, published, open, due, asking, inbox>>

(* Nothing is kept for a client that has gone. *)
Disconnect(c) ==
    /\ c \in connected
    /\ connected' = connected \ {c}
    /\ listening' = [listening EXCEPT ![c] = {}]
    /\ answered' = [answered EXCEPT ![c] = {}]
    /\ due' = [due EXCEPT ![c] = {}]
    /\ asking' = [asking EXCEPT ![c] = {}]
    /\ inbox' = [inbox EXCEPT ![c] = {}]
    /\ UNCHANGED <<published, open>>

(* The client may listen to the device already, and ask for a snapshot only. *)
Join(c, d, k) ==
    /\ c \in connected
    /\ \A b \in Clients, e \in Devices : <<e, k>> \notin asking[b]
    /\ listening' = [listening EXCEPT ![c] = @ \cup {d}]
    /\ answered' = [answered EXCEPT ![c] = @ \cup {d}]
    /\ asking' = [asking EXCEPT ![c] = @ \cup {<<d, k>>}]
    /\ UNCHANGED <<connected, published, open, due, inbox>>

Leave(c, d) ==
    /\ d \in listening[c]
    /\ listening' = [listening EXCEPT ![c] = @ \ {d}]
    /\ answered' = [answered EXCEPT ![c] = @ \cup {d}]
    /\ due' = [due EXCEPT ![c] = {e \in @ : DeviceOf(e) # d}]
    /\ UNCHANGED <<connected, published, open, asking, inbox>>

(* An answer that changes nothing: what the client knew.                    *)
Reply(c, d) ==
    /\ c \in connected
    /\ answered' = [answered EXCEPT ![c] = @ \cup {d}]
    /\ UNCHANGED <<connected, listening, published, open, due, asking, inbox>>

(* An error: if a snapshot was to come, it does not.                        *)
Fail(c, d, k) ==
    /\ c \in connected
    /\ answered' = [answered EXCEPT ![c] = @ \cup {d}]
    /\ asking' = [asking EXCEPT ![c] = @ \ {<<d, k>>}]
    /\ UNCHANGED <<connected, listening, published, open, due, inbox>>

(* There is nothing to show. *)
Forgo(c, d, k) ==
    /\ <<d, k>> \in asking[c]
    /\ asking' = [asking EXCEPT ![c] = @ \ {<<d, k>>}]
    /\ UNCHANGED <<connected, listening, answered, published, open, due, inbox>>

(* A snapshot, which may be newer than what has been published.             *)
Show(c, d, k) ==
    /\ <<d, k>> \in asking[c]
    /\ asking' = [asking EXCEPT ![c] = @ \ {<<d, k>>}]
    /\ \E i \in Messages : inbox' = [inbox EXCEPT ![c] = @ \cup {<<"snapshot", d, i>>}]
    /\ UNCHANGED <<connected, listening, answered, published, open, due>>

(* Of the positions S under way some are over, none of them due.            *)
Settle(S) ==
    /\ open' \in SUBSET S
    /\ \A c \in Clients : due'[c] \subseteq open'

Publish(E) ==
    /\ published' = published \cup E
    /\ due' = [c \in Clients |->
                  due[c] \cup {e \in E : Tracked(e) /\ DeviceOf(e) \in listening[c]}]
    /\ inbox' = [c \in Clients |->
                  inbox[c] \cup {e \in E : ~ Tracked(e) /\ DeviceOf(e) \in listening[c]}]
    /\ Settle(open \cup {e \in E : Tracked(e)})
    /\ UNCHANGED <<connected, listening, answered, asking>>

(* A position under way may also reach a client it is not due, one that     *)
(* has just joined or just left, but only a client that asked for it.       *)
Deliver(c, e) ==
    /\ c \in connected
    /\ DeviceOf(e) \in answered[c]
    /\ inbox' = [inbox EXCEPT ![c] = @ \cup {e}]
    /\ due' = [due EXCEPT ![c] = @ \ {e}]
    /\ Settle(open)
    /\ UNCHANGED <<connected, listening, answered, published, asking>>

(* The next in line has gone. *)
Skip ==
    /\ UNCHANGED <<connected, inbox, answered, listening, asking, published, due>>
    /\ Settle(open)

Next ==
    \/ Skip
    \/ \E c \in Clients : Connect(c) \/ Disconnect(c)
    \/ \E c \in Clients, d \in Devices : Leave(c, d) \/ Reply(c, d)
    \/ \E c \in Clients, d \in Devices, k \in Calls :
          Join(c, d, k) \/ Fail(c, d, k) \/ Forgo(c, d, k) \/ Show(c, d, k)
    \/ \E c \in Clients, e \in open : Deliver(c, e)
    \/ \E E \in SUBSET (Elements \ published) : Publish(E)

Spec == Init /\ [][Next]_vars
=============================================================================
