---------------------------- MODULE TraccarSocket ----------------------------
(***************************************************************************)
(* The backend's connection to the Traccar feed:                            *)
(* src/common/services/traccar-socket.service.ts, started by afterInit of   *)
(* src/devices/devices.gateway.ts.                                          *)
(*                                                                         *)
(* A connection is made in three stages, and any number can be under way at *)
(* once: a pending setTimeout (timers), a connect() that awaits the session *)
(* POST (sessions), and a WebSocket (socket).  A WebSocket of the ws        *)
(* library reports a failed handshake by 'error' and then 'close' in one    *)
(* turn, a lost connection by 'close', a protocol error by 'error' and      *)
(* later 'close'; the service reconnects on each of the events.             *)
(***************************************************************************)
EXTENDS Integers

CONSTANTS
    Sockets,               \* names for the WebSockets alive at once (a bound)
    NoSocket,
    MaxReconnectAttempts,  \* maxReconnectAttempts
    MaxFaults              \* how often a handshake or a connection fails (a bound)

ASSUME SocketAssumption ==
    /\ NoSocket \notin Sockets
    /\ MaxReconnectAttempts \in Nat
    /\ MaxFaults \in Nat

VARIABLES
    process,    \* "starting", "running", or "crashed": Node ends on an unhandled rejection
    config,     \* TRACCAR_API_URL: "valid", or "invalid": one that axios takes and ws refuses
    destroyed,  \* onModuleDestroy has run
    ws,         \* this.ws
    attempts,   \* this.reconnectAttempts
    timers,     \* pending setTimeout(connect)
    sessions,   \* connect() calls at the await of initializeSession
    socket,     \* state of each WebSocket
    faults,     \* history: failures so far
    tries       \* history: timers fired since a connection last opened

vars == <<process, config, destroyed, ws, attempts, timers, sessions, socket, faults, tries>>

(* "none": not made, or closed and let go of; "closing": 'close' is to come *)

States == {"none", "connecting", "open", "closing"}

TypeOK ==
    /\ process \in {"starting", "running", "crashed"}
    /\ config \in {"invalid", "valid"}
    /\ destroyed \in BOOLEAN
    /\ ws \in Sockets \cup {NoSocket}
    /\ attempts \in 0..MaxReconnectAttempts
    /\ timers \in Nat
    /\ sessions \in Nat
    /\ socket \in [Sockets -> States]
    /\ faults \in 0..MaxFaults
    /\ tries \in Nat

Init ==
    /\ process = "starting"
    /\ config \in {"invalid", "valid"}
    /\ destroyed = FALSE
    /\ ws = NoSocket
    /\ attempts = 0
    /\ timers = 0
    /\ sessions = 0
    /\ socket = [s \in Sockets |-> "none"]
    /\ faults = 0
    /\ tries = 0

-----------------------------------------------------------------------------
(* Settings that are missing end initializeSession and connect early; the   *)
(* application does not start without them (TraccarApiClientService throws  *)
(* when it is made), so they are there here.                                *)

(* initialize(), called by the gateway's afterInit: a connection that is    *)
(* already there makes it return.                                           *)
Initialize ==
    /\ process = "starting"
    /\ process' = "running"
    /\ sessions' = IF ws = NoSocket THEN sessions + 1 ELSE sessions
    /\ UNCHANGED <<config, destroyed, ws, attempts, timers, socket, faults, tries>>

(* Mutant of Granted: the limit is tested with > instead of >=. *)
GrantedOneMore(n) ==
    IF attempts + n <= MaxReconnectAttempts + 1 THEN n ELSE MaxReconnectAttempts + 1 - attempts

(* scheduleReconnect, called n times in one turn: a timer for each call     *)
(* until the attempts are used up, after which it gives up.                 *)
Granted(n) == IF attempts + n <= MaxReconnectAttempts THEN n ELSE MaxReconnectAttempts - attempts

(* Mutant of ScheduleReconnect: no second timer, yet every call is counted. *)
ScheduleOneTimer(n) ==
    /\ attempts' = attempts + Granted(n)
    /\ timers' = IF timers = 0 /\ Granted(n) > 0 THEN 1 ELSE timers

ScheduleReconnect(n) ==
    /\ attempts' = attempts + Granted(n)
    /\ timers' = timers + Granted(n)

TimerFires ==
    /\ process = "running" /\ timers > 0
    /\ timers' = timers - 1
    /\ sessions' = sessions + 1
    /\ tries' = tries + 1
    /\ UNCHANGED <<process, config, destroyed, ws, attempts, socket, faults>>

(* The session POST fails or brings no cookie: initializeSession rethrows,  *)
(* connect has no handler around it, and neither afterInit nor the timer    *)
(* callback awaits connect.                                                 *)
SessionFails ==
    /\ process = "running" /\ sessions > 0
    /\ faults < MaxFaults
    /\ faults' = faults + 1
    /\ process' = "crashed"
    /\ UNCHANGED <<config, destroyed, ws, attempts, timers, sessions, socket, tries>>

(* There is a session, and new WebSocket(...) replaces this.ws, whatever    *)
(* became of the one before.                                                *)
SessionEstablished ==
    /\ process = "running" /\ sessions > 0 /\ config = "valid"
    /\ sessions' = sessions - 1
    /\ \E s \in Sockets :
          /\ socket[s] = "none"
          /\ socket' = [socket EXCEPT ![s] = "connecting"]
          /\ ws' = s
    /\ UNCHANGED <<process, config, destroyed, attempts, timers, faults, tries>>

(* Mutant of ConstructorThrows: the catch block logs only. *)
ConstructorThrowIsLogged ==
    /\ process = "running" /\ sessions > 0 /\ config = "invalid"
    /\ sessions' = sessions - 1
    /\ UNCHANGED <<process, config, destroyed, ws, attempts, timers, socket, faults, tries>>

(* new WebSocket(...) throws on the URL. *)
ConstructorThrows ==
    /\ process = "running" /\ sessions > 0 /\ config = "invalid"
    /\ sessions' = sessions - 1
    /\ ScheduleReconnect(1)
    /\ UNCHANGED <<process, config, destroyed, ws, socket, faults, tries>>

-----------------------------------------------------------------------------
(* Events of a WebSocket. *)

Opened(s) ==
    /\ process = "running" /\ socket[s] = "connecting"
    /\ socket' = [socket EXCEPT ![s] = "open"]
    /\ attempts' = 0
    /\ tries' = 0
    /\ UNCHANGED <<process, config, destroyed, ws, timers, sessions, faults>>

(* 'error' and 'close' in one turn. *)
HandshakeFails(s) ==
    /\ process = "running" /\ socket[s] = "connecting"
    /\ faults < MaxFaults
    /\ faults' = faults + 1
    /\ socket' = [socket EXCEPT ![s] = "none"]
    /\ ScheduleReconnect(2)
    /\ UNCHANGED <<process, config, destroyed, ws, sessions, tries>>

(* Mutant of ConnectionLost: the service reconnects on 'error' only. *)
LossIsLogged(s) ==
    /\ process = "running" /\ socket[s] = "open"
    /\ faults < MaxFaults
    /\ faults' = faults + 1
    /\ socket' = [socket EXCEPT ![s] = "none"]
    /\ UNCHANGED <<process, config, destroyed, ws, attempts, timers, sessions, tries>>

(* The connection is lost, or closed by Traccar: 'close' alone. *)
ConnectionLost(s) ==
    /\ process = "running" /\ socket[s] = "open"
    /\ faults < MaxFaults
    /\ faults' = faults + 1
    /\ socket' = [socket EXCEPT ![s] = "none"]
    /\ ScheduleReconnect(1)
    /\ UNCHANGED <<process, config, destroyed, ws, sessions, tries>>

(* A protocol error: 'error' now, 'close' when the TCP connection is down.  *)
ProtocolError(s) ==
    /\ process = "running" /\ socket[s] = "open"
    /\ faults < MaxFaults
    /\ faults' = faults + 1
    /\ socket' = [socket EXCEPT ![s] = "closing"]
    /\ ScheduleReconnect(1)
    /\ UNCHANGED <<process, config, destroyed, ws, sessions, tries>>

Closed(s) ==
    /\ process = "running" /\ socket[s] = "closing"
    /\ socket' = [socket EXCEPT ![s] = "none"]
    /\ ScheduleReconnect(1)
    /\ UNCHANGED <<process, config, destroyed, ws, sessions, faults, tries>>

(* onModuleDestroy closes this.ws only, and takes nothing else back.  On a  *)
(* connecting WebSocket close() reports 'error' and 'close' before anything *)
(* else runs, on an open one 'close' when the closing handshake is over.    *)
OnModuleDestroy ==
    /\ process = "running" /\ ~ destroyed
    /\ destroyed' = TRUE
    /\ ws' = NoSocket
    /\ IF ws # NoSocket /\ socket[ws] = "connecting"
       THEN socket' = [socket EXCEPT ![ws] = "none"] /\ ScheduleReconnect(2)
       ELSE /\ socket' = [s \in Sockets |->
                             IF s = ws /\ socket[s] = "open" THEN "closing" ELSE socket[s]]
            /\ UNCHANGED <<attempts, timers>>
    /\ UNCHANGED <<process, config, sessions, faults, tries>>

-----------------------------------------------------------------------------
SocketEvent(s) ==
    Opened(s) \/ HandshakeFails(s) \/ ConnectionLost(s) \/ ProtocolError(s) \/ Closed(s)

Next ==
    \/ Initialize \/ TimerFires
    \/ SessionFails \/ SessionEstablished \/ ConstructorThrows
    \/ \E s \in Sockets : SocketEvent(s)
    \/ OnModuleDestroy

Spec == Init /\ [][Next]_vars

(* Node runs afterInit and a timer that is due, and ws ends the closing of a *)
(* WebSocket by a timeout of its own.  It gives the opening handshake none  *)
(* without the option handshakeTimeout, and axios none without timeout; the *)
(* service sets neither (lines 37-49 and 83-87), so that a session request  *)
(* or a handshake may never end.                                            *)
Fairness ==
    /\ WF_vars(Initialize)
    /\ WF_vars(TimerFires)
    /\ \A s \in Sockets : WF_vars(Closed(s))

FairSpec == Spec /\ Fairness

-----------------------------------------------------------------------------
(* Properties. *)

Connected == \E s \in Sockets : socket[s] = "open"

(* Something is under way that can still bring a connection. *)
UnderWay ==
    timers > 0 \/ sessions > 0 \/ \E s \in Sockets : socket[s] \in {"connecting", "closing"}

(* The feed is never dropped in silence: a service that runs is connected,  *)
(* or has a timer, a session request or a WebSocket under way, or has used  *)
(* up every attempt since it last was connected (lines 116-130, over the    *)
(* four places that call scheduleReconnect).                                *)
NeverSilentlyDown ==
    process = "running" =>
        Connected \/ UnderWay \/ attempts = MaxReconnectAttempts

(* Before afterInit the service holds no WebSocket, so initialize connects. *)
FreshAtStart == process = "starting" => ws = NoSocket

(* The inductive form of NeverSilentlyDown. *)
FeedInv == NeverSilentlyDown /\ FreshAtStart

(* An attempt that was counted was made: by the time nothing is under way,  *)
(* as many timers have fired since the last connection as attempts were     *)
(* counted, whatever the order of resets (line 91), timers and failures.    *)
EveryAttemptIsMade ==
    process = "running" /\ ~ Connected /\ ~ UnderWay => tries >= attempts

(* Its inductive form: a counted attempt has fired or is a pending timer.   *)
AttemptsAccounted == tries + timers >= attempts

(* The service waits for Traccar: for the answer to a session request, or   *)
(* to an opening handshake.                                                 *)
AwaitsTraccar == sessions > 0 \/ \E s \in Sockets : socket[s] = "connecting"

(* Traccar leaves no session request and no handshake open for ever. *)
TraccarAnswers ==
    /\ WF_vars(SessionFails \/ SessionEstablished \/ ConstructorThrows)
    /\ \A s \in Sockets : WF_vars(Opened(s) \/ HandshakeFails(s))

Settled == Connected \/ process = "crashed" \/ attempts = MaxReconnectAttempts

(* A service that is trying to connect ends up connected, out of attempts,  *)
(* or with the process ended by a failed session request, unless Traccar    *)
(* leaves it waiting: nothing in the service itself stops it, and if every  *)
(* request and handshake ends, nothing does.  One that never ends is an     *)
(* attempt that hangs for good, as nothing watches over it (lines 60-114).  *)
ReconnectsOrGivesUp ==
    /\ (process = "running" /\ UnderWay) ~> (Settled \/ AwaitsTraccar)
    /\ TraccarAnswers => ((process = "running" /\ UnderWay) ~> Settled)

-----------------------------------------------------------------------------
(* What the code's own words say and the code does not keep. *)

(* Line 19, "WebSocket connection already initialized": the service means   *)
(* to have one connection.  Broken by the two reconnects of one failure.    *)
OneConnection ==
    \A s, t \in Sockets : socket[s] = "open" /\ socket[t] = "open" => s = t
=============================================================================
