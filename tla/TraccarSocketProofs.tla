------------------------- MODULE TraccarSocketProofs -------------------------
(***************************************************************************)
(* Theorems about TraccarSocket, for any number of WebSockets, attempts and *)
(* faults.                                                                  *)
(***************************************************************************)
EXTENDS TraccarSocket, TLAPS

(* scheduleReconnect sets no more timers than it is called for and than     *)
(* attempts are left, and none only when none is left.                      *)
LEMMA GrantedBounds ==
    ASSUME NEW n \in {1, 2}, TypeOK
    PROVE  /\ Granted(n) \in Nat
           /\ attempts + Granted(n) \in 0..MaxReconnectAttempts
           /\ Granted(n) = 0 => attempts = MaxReconnectAttempts
  BY SocketAssumption DEF Granted, TypeOK

(* The variables keep their types; in particular this.reconnectAttempts     *)
(* never passes maxReconnectAttempts, although one failure counts twice.    *)
THEOREM TypeCorrect == Spec => []TypeOK
<1>1. Init => TypeOK
  <2> SUFFICES ASSUME Init PROVE TypeOK
    OBVIOUS
  <2>1. socket \in [Sockets -> States]
    BY DEF Init, States
  <2>2. /\ destroyed \in BOOLEAN
        /\ config \in {"invalid", "valid"}
    BY DEF Init
  <2>3. attempts \in 0..MaxReconnectAttempts /\ faults \in 0..MaxFaults
    BY SocketAssumption DEF Init
  <2> QED
    BY <2>1, <2>2, <2>3 DEF Init, TypeOK
<1>2. TypeOK /\ [Next]_vars => TypeOK'
  <2> SUFFICES ASSUME TypeOK, [Next]_vars PROVE TypeOK'
    OBVIOUS
  <2> USE SocketAssumption DEF TypeOK, States
  <2>1. CASE Initialize
    BY <2>1 DEF Initialize
  <2>2. CASE TimerFires
    BY <2>2 DEF TimerFires
  <2>3. CASE SessionFails
    BY <2>3 DEF SessionFails
  <2>4. CASE SessionEstablished
    BY <2>4 DEF SessionEstablished
  <2>5. CASE ConstructorThrows
    BY <2>5, GrantedBounds DEF ConstructorThrows, ScheduleReconnect
  <2>6. ASSUME NEW s \in Sockets, SocketEvent(s) PROVE TypeOK'
    <3>1. CASE Opened(s)
      BY <3>1 DEF Opened
    <3>2. CASE HandshakeFails(s)
      BY <3>2, GrantedBounds DEF HandshakeFails, ScheduleReconnect
    <3>3. CASE ConnectionLost(s)
      BY <3>3, GrantedBounds DEF ConnectionLost, ScheduleReconnect
    <3>4. CASE ProtocolError(s)
      BY <3>4, GrantedBounds DEF ProtocolError, ScheduleReconnect
    <3>5. CASE Closed(s)
      BY <3>5, GrantedBounds DEF Closed, ScheduleReconnect
    <3> QED
      BY <2>6, <3>1, <3>2, <3>3, <3>4, <3>5 DEF SocketEvent
  <2>7. CASE OnModuleDestroy
    BY <2>7, GrantedBounds DEF OnModuleDestroy, ScheduleReconnect
  <2>8. CASE UNCHANGED vars
    BY <2>8 DEF vars
  <2> QED
    BY <2>1, <2>2, <2>3, <2>4, <2>5, <2>6, <2>7, <2>8 DEF Next
<1> QED
  BY <1>1, <1>2, PTL DEF Spec

(* A service that started connecting holds something that can connect, is   *)
(* connected, or used up its attempts: every event that ends a connection   *)
(* or a try schedules the next one first.                                   *)
THEOREM FeedNeverSilentlyDropped == Spec => []NeverSilentlyDown
<1>1. Init => FeedInv
  BY DEF Init, FeedInv, NeverSilentlyDown, FreshAtStart
<1>2. TypeOK /\ FreshAtStart /\ [Next]_vars => FreshAtStart'
  <2> SUFFICES ASSUME FreshAtStart, [Next]_vars, process' = "starting"
               PROVE  ws' = NoSocket
    BY DEF FreshAtStart
  <2>1. ~ \E s \in Sockets : SocketEvent(s)
    BY DEF SocketEvent, Opened, HandshakeFails, ConnectionLost, ProtocolError, Closed
  <2> QED
    BY <2>1 DEF Next, vars, FreshAtStart, Initialize, TimerFires,
                SessionFails, SessionEstablished, ConstructorThrows, OnModuleDestroy
<1>3. TypeOK /\ FeedInv /\ [Next]_vars => NeverSilentlyDown'
  <2> SUFFICES ASSUME TypeOK, FeedInv, [Next]_vars,
                      process' = "running"
               PROVE  (Connected \/ UnderWay \/ attempts = MaxReconnectAttempts)'
    BY DEF NeverSilentlyDown
  <2> USE SocketAssumption DEF TypeOK, States, FeedInv, NeverSilentlyDown, Connected, UnderWay
  <2>1. CASE Initialize
    BY <2>1 DEF Initialize, FreshAtStart
  <2>2. CASE TimerFires
    BY <2>2 DEF TimerFires
  <2>3. CASE SessionFails
    BY <2>3 DEF SessionFails
  <2>4. CASE SessionEstablished
    BY <2>4 DEF SessionEstablished
  <2>5. CASE ConstructorThrows
    BY <2>5, GrantedBounds DEF ConstructorThrows, ScheduleReconnect
  <2>6. ASSUME NEW s \in Sockets, SocketEvent(s)
        PROVE  (Connected \/ UnderWay \/ attempts = MaxReconnectAttempts)'
    <3>1. CASE Opened(s)
      BY <3>1 DEF Opened
    <3>2. CASE HandshakeFails(s)
      BY <3>2, GrantedBounds DEF HandshakeFails, ScheduleReconnect
    <3>3. CASE ConnectionLost(s)
      BY <3>3, GrantedBounds DEF ConnectionLost, ScheduleReconnect
    <3>4. CASE ProtocolError(s)
      BY <3>4, GrantedBounds DEF ProtocolError, ScheduleReconnect
    <3>5. CASE Closed(s)
      BY <3>5, GrantedBounds DEF Closed, ScheduleReconnect
    <3> QED
      BY <2>6, <3>1, <3>2, <3>3, <3>4, <3>5 DEF SocketEvent
  <2>7. CASE OnModuleDestroy
    BY <2>7, GrantedBounds DEF OnModuleDestroy, ScheduleReconnect
  <2>8. CASE UNCHANGED vars
    BY <2>8 DEF vars
  <2> QED
    BY <2>1, <2>2, <2>3, <2>4, <2>5, <2>6, <2>7, <2>8 DEF Next
<1>4. FeedInv => NeverSilentlyDown /\ FreshAtStart
  BY DEF FeedInv
<1>5. TypeOK /\ FeedInv /\ [Next]_vars => FeedInv'
  BY <1>2, <1>3, <1>4 DEF FeedInv
<1> QED
  BY <1>1, <1>4, <1>5, TypeCorrect, PTL DEF Spec

(* When the service is down with nothing under way, every attempt it        *)
(* counted since the last connection was a connect() that really ran:       *)
(* timers that survive a reset of the counter are never counted for a try   *)
(* that did not happen.                                                     *)
THEOREM AttemptsAreMade == Spec => []EveryAttemptIsMade
<1>1. Init => AttemptsAccounted
  BY DEF Init, AttemptsAccounted
<1>2. TypeOK /\ AttemptsAccounted /\ [Next]_vars => AttemptsAccounted'
  <2> SUFFICES ASSUME TypeOK, AttemptsAccounted, [Next]_vars PROVE AttemptsAccounted'
    OBVIOUS
  <2>1. ASSUME NEW n \in {1, 2}, ScheduleReconnect(n), tries' = tries
        PROVE  AttemptsAccounted'
    BY <2>1, GrantedBounds DEF ScheduleReconnect, AttemptsAccounted, TypeOK
  <2>2. ASSUME UNCHANGED <<attempts, timers, tries>> PROVE AttemptsAccounted'
    BY <2>2 DEF AttemptsAccounted
  <2>3. CASE TimerFires
    BY <2>3 DEF TimerFires, AttemptsAccounted, TypeOK
  <2>4. ASSUME NEW s \in Sockets, SocketEvent(s) PROVE AttemptsAccounted'
    <3>1. CASE Opened(s)
      BY <3>1 DEF Opened, AttemptsAccounted, TypeOK
    <3> QED
      BY <2>1, <2>4, <3>1
         DEF SocketEvent, HandshakeFails, ConnectionLost, ProtocolError, Closed
  <2>5. CASE OnModuleDestroy
    BY <2>1, <2>2, <2>5 DEF OnModuleDestroy
  <2> QED
    BY <2>1, <2>2, <2>3, <2>4, <2>5
       DEF Next, vars, Initialize, SessionFails, SessionEstablished,
           ConstructorThrows
<1>3. TypeOK /\ AttemptsAccounted => EveryAttemptIsMade
  BY DEF TypeOK, AttemptsAccounted, EveryAttemptIsMade, UnderWay
<1> QED
  BY <1>1, <1>2, <1>3, TypeCorrect, PTL DEF Spec
=============================================================================
