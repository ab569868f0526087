------------------------ MODULE OcppConnectionProofs ------------------------
(***************************************************************************)
(* Proofs about OcppConnection, for any heartbeat interval and any number  *)
(* of calls left in the sent lists: the client's state follows the socket, *)
(* no answer is dropped but after a failed heartbeat or a call given up,   *)
(* and the failure timer has a cause. None of these is inductive alone:    *)
(* that the retry timer never runs beside a socket, and that a call is     *)
(* awaited and the heartbeat ticks only on an open one, make them so       *)
(* (SocketInv).                                                            *)
(***************************************************************************)
EXTENDS OcppConnection, TLAPS

(* The retry timer runs only while there is no socket; a call is awaited,  *)
(* and the heartbeat ticks, only on an open one.                           *)
SocketInv ==
    /\ ocppConnRetryTimer => socket = "Closed"
    /\ awaited # NoCall => socket = "Open"
    /\ heartBeatTimer => socket = "Open"

(* The type invariant in two parts: the flags and the queue, and the rest. *)
FlagsOK ==
    /\ ocppConnectionStatus \in BOOLEAN
    /\ connTimer \in BOOLEAN /\ bootNotifTimer \in BOOLEAN /\ heartBeatTimer \in BOOLEAN
    /\ connectionFailTimer \in BOOLEAN /\ isSendHeaetbeatState \in BOOLEAN
    /\ ocppConnRetryTimer \in BOOLEAN /\ idlessTransaction \in BOOLEAN
    /\ failed \in BOOLEAN /\ heartbeatLost \in BOOLEAN /\ givenUp \in BOOLEAN
    /\ outQ \subseteq Call
    /\ late \subseteq Call

ValuesOK ==
    /\ st \in State
    /\ chargerRegStatus \in RegistrationStatus
    /\ heartbeatTriggerCount \in 0..HeartbeatTriggerCount
    /\ socket \in Socket
    /\ awaited \in Call \cup {NoCall}

IInv ==
    /\ FlagsOK
    /\ ValuesOK
    /\ SocketInv
    /\ StateFollowsSocket
    /\ AnswerCounts
    /\ FailureHasCause

USE TriggerAssumption

-----------------------------------------------------------------------------
(* A program started anew satisfies the invariant. *)
LEMMA ConnectionInit == Init => IInv
<1> SUFFICES ASSUME Init PROVE IInv
    OBVIOUS
<1>1. FlagsOK
    BY Zenon DEF Init, FlagsOK
<1>2. ValuesOK
    BY DEF Init, ValuesOK, State, RegistrationStatus, Socket
<1>3. SocketInv /\ StateFollowsSocket /\ AnswerCounts /\ FailureHasCause
    BY DEF Init, SocketInv, StateFollowsSocket, AnswerCounts, FailureHasCause
<1> QED
    BY <1>1, <1>2, <1>3 DEF IInv

(* Every step leaves flags that are flags, and only calls in the queue. *)
LEMMA ConnectionFlags == IInv /\ [Next]_vars => FlagsOK'
<1> SUFFICES ASSUME IInv, [Next]_vars PROVE FlagsOK'
    OBVIOUS
<1> USE DEF IInv, FlagsOK, ValuesOK, Call, Transactional, NoCall, clientVars,
       timerVars, heartbeatVars, netVars, sentVars, historyVars
<1>1. ASSUME NEW k \in Call, SubmitCall(k) PROVE FlagsOK'
    BY <1>1, ZenonT(30) DEF SubmitCall, Queued, Offline, BootAccepted
<1>2. ASSUME NEW k \in Call, CallSent(k) PROVE FlagsOK'
    BY <1>2, Zenon DEF CallSent
<1>3. ASSUME NEW k \in Call, TriggerMessage(k) PROVE FlagsOK'
    BY <1>3, Zenon DEF TriggerMessage, Queued, ResetHeartbeatTriggerCount,
       BootAccepted
<1>4. CASE NoReply
    BY <1>4, ZenonT(30) DEF NoReply, SameQueue, NotAwaitedAnyMore, GivenUpWhileLeft
<1>5. CASE Blink
    BY <1>5, Zenon DEF Blink, ConnectServer, IsConnectedOrConnecting
<1>6. CASE OcppConnRetryWaited
    BY <1>6, Zenon DEF OcppConnRetryWaited, ConnectServer
<1>7. CASE Connected
    BY <1>7, Zenon DEF Connected, BootAccepted
<1>8. CASE Disconnected
    BY <1>8, Zenon DEF Disconnected, SocketLost, QueueStops, NotAwaitedAnyMore,
       GivenUpWhileLeft
<1>9. CASE WsTimeout
    BY <1>9, Zenon DEF WsTimeout, SocketLost, QueueStops, NotAwaitedAnyMore,
       GivenUpWhileLeft
<1>10. CASE BootNotifTimeout
    BY <1>10, Zenon DEF BootNotifTimeout, Queued
<1>11. CASE IncrHeartbeatTriggerCount
    BY <1>11, Zenon DEF IncrHeartbeatTriggerCount
<1>12. CASE HeartBeatTimeout
    BY <1>12, Zenon DEF HeartBeatTimeout, Queued, Offline
<1>13. CASE ConnectionFailTimeout
    BY <1>13, Zenon DEF ConnectionFailTimeout
<1>14. ASSUME NEW k \in Call, CallResultReceived(k) PROVE FlagsOK'
  <2>1. /\ connTimer' \in BOOLEAN /\ ocppConnRetryTimer' \in BOOLEAN
        /\ isSendHeaetbeatState' \in BOOLEAN /\ idlessTransaction' \in BOOLEAN
        /\ failed' \in BOOLEAN /\ heartbeatLost' \in BOOLEAN
    BY <1>14, Zenon DEF CallResultReceived, ResetHeartbeatTriggerCount
  <2>2. late' \subseteq Call /\ givenUp' \in BOOLEAN
    BY <1>14, Zenon DEF CallResultReceived, RemoveSentCallMessage, GivenUpWhileLeft
  <2>3. /\ ocppConnectionStatus' \in BOOLEAN /\ bootNotifTimer' \in BOOLEAN
        /\ heartBeatTimer' \in BOOLEAN /\ connectionFailTimer' \in BOOLEAN
        /\ outQ' \subseteq Call
    BY <1>14, ZenonT(30) DEF CallResultReceived, BootNotificationConf, HeartbeatConf,
       OtherConf, NotHandled
  <2> QED
    BY <2>1, <2>2, <2>3, Zenon
<1>15. ASSUME NEW k \in Call, CallErrorReceived(k) PROVE FlagsOK'
  <2>1. /\ UNCHANGED <<connTimer, ocppConnRetryTimer, idlessTransaction, failed>>
        /\ UNCHANGED <<ocppConnectionStatus, bootNotifTimer, heartBeatTimer>>
        /\ UNCHANGED <<connectionFailTimer, outQ>>
        /\ isSendHeaetbeatState' \in BOOLEAN /\ heartbeatLost' \in BOOLEAN
    BY <1>15, Zenon DEF CallErrorReceived, NotHandled, ResetHeartbeatTriggerCount
  <2>2. late' \subseteq Call /\ givenUp' \in BOOLEAN
    BY <1>15, Zenon DEF CallErrorReceived, RemoveSentCallMessage, GivenUpWhileLeft
  <2> QED
    BY <2>1, <2>2, Zenon
<1>16. CASE OtherMessageReceived
    BY <1>16, Zenon DEF OtherMessageReceived, ResetHeartbeatTriggerCount
<1>17. CASE ResetRejected
    BY <1>17, Zenon DEF ResetRejected, ResetHeartbeatTriggerCount
<1>18. CASE Reboot
    BY <1>18, Zenon DEF Reboot
<1>19. CASE IdlessTransactionChanges
    BY <1>19, Zenon DEF IdlessTransactionChanges
<1>20. CASE UNCHANGED vars
    BY <1>20, Zenon DEF vars
<1> QED
    BY <1>1, <1>2, <1>3, <1>4, <1>5, <1>6, <1>7, <1>8, <1>9, <1>10, <1>11,
       <1>12, <1>13, <1>14, <1>15, <1>16, <1>17, <1>18, <1>19, <1>20 DEF Next

(* Every step leaves the state, the socket and the counter in their ranges. *)
LEMMA ConnectionValues == IInv /\ [Next]_vars => ValuesOK'
<1> SUFFICES ASSUME IInv, [Next]_vars PROVE ValuesOK'
    OBVIOUS
<1> USE DEF IInv, ValuesOK, State, RegistrationStatus, Socket, Call,
       Transactional, NoCall, clientVars, timerVars, heartbeatVars, netVars,
       sentVars, historyVars
<1>1. ASSUME NEW k \in Call, SubmitCall(k) PROVE ValuesOK'
    BY <1>1 DEF SubmitCall, Queued, Offline, BootAccepted
<1>2. ASSUME NEW k \in Call, CallSent(k) PROVE ValuesOK'
    BY <1>2 DEF CallSent
<1>3. ASSUME NEW k \in Call, TriggerMessage(k) PROVE ValuesOK'
    BY <1>3 DEF TriggerMessage, Queued, ResetHeartbeatTriggerCount, BootAccepted
<1>4. CASE NoReply
    BY <1>4 DEF NoReply, SameQueue, NotAwaitedAnyMore, GivenUpWhileLeft
<1>5. CASE Blink
    BY <1>5 DEF Blink, ConnectServer, IsConnectedOrConnecting
<1>6. CASE OcppConnRetryWaited
    BY <1>6 DEF OcppConnRetryWaited, ConnectServer
<1>7. CASE Connected
    BY <1>7 DEF Connected, BootAccepted
<1>8. CASE Disconnected
    BY <1>8 DEF Disconnected, SocketLost, QueueStops, NotAwaitedAnyMore,
       GivenUpWhileLeft
<1>9. CASE WsTimeout
    BY <1>9 DEF WsTimeout, SocketLost, QueueStops, NotAwaitedAnyMore,
       GivenUpWhileLeft
<1>10. CASE BootNotifTimeout
    BY <1>10 DEF BootNotifTimeout, Queued
<1>11. CASE IncrHeartbeatTriggerCount
    BY <1>11 DEF IncrHeartbeatTriggerCount
<1>12. CASE HeartBeatTimeout
    BY <1>12 DEF HeartBeatTimeout, Queued, Offline
<1>13. CASE ConnectionFailTimeout
    BY <1>13 DEF ConnectionFailTimeout
<1>14. ASSUME NEW k \in Call, CallResultReceived(k) PROVE ValuesOK'
    BY <1>14 DEF CallResultReceived, RemoveSentCallMessage, GivenUpWhileLeft,
       SameQueue, ResetHeartbeatTriggerCount, BootNotificationConf, HeartbeatConf,
       OtherConf, NotHandled
<1>15. ASSUME NEW k \in Call, CallErrorReceived(k) PROVE ValuesOK'
    BY <1>15 DEF CallErrorReceived, RemoveSentCallMessage, GivenUpWhileLeft,
       SameQueue, ResetHeartbeatTriggerCount, NotHandled
<1>16. CASE OtherMessageReceived
    BY <1>16 DEF OtherMessageReceived, ResetHeartbeatTriggerCount
<1>17. CASE ResetRejected
    BY <1>17 DEF ResetRejected, ResetHeartbeatTriggerCount
<1>18. CASE Reboot
    BY <1>18 DEF Reboot
<1>19. CASE IdlessTransactionChanges
    BY <1>19 DEF IdlessTransactionChanges
<1>20. CASE UNCHANGED vars
    BY <1>20 DEF vars
<1> QED
    BY <1>1, <1>2, <1>3, <1>4, <1>5, <1>6, <1>7, <1>8, <1>9, <1>10, <1>11,
       <1>12, <1>13, <1>14, <1>15, <1>16, <1>17, <1>18, <1>19, <1>20 DEF Next

(* Every step keeps state, timers and awaited call in line with the socket. *)
LEMMA ConnectionSocket == IInv /\ [Next]_vars => (SocketInv /\ StateFollowsSocket /\ AnswerCounts)'
<1> SUFFICES ASSUME IInv, [Next]_vars PROVE (SocketInv /\ StateFollowsSocket /\ AnswerCounts)'
    OBVIOUS
<1> USE DEF IInv, SocketInv, StateFollowsSocket, AnswerCounts, Call,
       Transactional, NoCall, clientVars, timerVars, heartbeatVars, netVars,
       sentVars, historyVars
<1>1. ASSUME NEW k \in Call, SubmitCall(k) PROVE (SocketInv /\ StateFollowsSocket /\ AnswerCounts)'
    BY <1>1 DEF SubmitCall, Queued, Offline, BootAccepted
<1>2. ASSUME NEW k \in Call, CallSent(k) PROVE (SocketInv /\ StateFollowsSocket /\ AnswerCounts)'
    BY <1>2 DEF CallSent
<1>3. ASSUME NEW k \in Call, TriggerMessage(k) PROVE (SocketInv /\ StateFollowsSocket /\ AnswerCounts)'
    BY <1>3 DEF TriggerMessage, Queued, ResetHeartbeatTriggerCount, BootAccepted
<1>4. CASE NoReply
    BY <1>4 DEF NoReply, SameQueue, NotAwaitedAnyMore, GivenUpWhileLeft
<1>5. CASE Blink
    BY <1>5 DEF Blink, ConnectServer, IsConnectedOrConnecting
<1>6. CASE OcppConnRetryWaited
    BY <1>6 DEF OcppConnRetryWaited, ConnectServer
<1>7. CASE Connected
    BY <1>7 DEF Connected, BootAccepted
<1>8. CASE Disconnected
    BY <1>8 DEF Disconnected, SocketLost, QueueStops, NotAwaitedAnyMore,
       GivenUpWhileLeft
<1>9. CASE WsTimeout
    BY <1>9 DEF WsTimeout, SocketLost, QueueStops, NotAwaitedAnyMore,
       GivenUpWhileLeft
<1>10. CASE BootNotifTimeout
    BY <1>10 DEF BootNotifTimeout, Queued
<1>11. CASE IncrHeartbeatTriggerCount
    BY <1>11 DEF IncrHeartbeatTriggerCount
<1>12. CASE HeartBeatTimeout
    BY <1>12 DEF HeartBeatTimeout, Queued, Offline
<1>13. CASE ConnectionFailTimeout
    BY <1>13 DEF ConnectionFailTimeout
<1>14. ASSUME NEW k \in Call, CallResultReceived(k) PROVE (SocketInv /\ StateFollowsSocket /\ AnswerCounts)'
    BY <1>14 DEF CallResultReceived, RemoveSentCallMessage, GivenUpWhileLeft,
       SameQueue, ResetHeartbeatTriggerCount, BootNotificationConf, HeartbeatConf,
       OtherConf, NotHandled
<1>15. ASSUME NEW k \in Call, CallErrorReceived(k) PROVE (SocketInv /\ StateFollowsSocket /\ AnswerCounts)'
    BY <1>15 DEF CallErrorReceived, RemoveSentCallMessage, GivenUpWhileLeft,
       SameQueue, ResetHeartbeatTriggerCount, NotHandled
<1>16. CASE OtherMessageReceived
    BY <1>16 DEF OtherMessageReceived, ResetHeartbeatTriggerCount
<1>17. CASE ResetRejected
    BY <1>17 DEF ResetRejected, ResetHeartbeatTriggerCount
<1>18. CASE Reboot
    BY <1>18 DEF Reboot
<1>19. CASE IdlessTransactionChanges
    BY <1>19 DEF IdlessTransactionChanges
<1>20. CASE UNCHANGED vars
    BY <1>20 DEF vars
<1> QED
    BY <1>1, <1>2, <1>3, <1>4, <1>5, <1>6, <1>7, <1>8, <1>9, <1>10, <1>11,
       <1>12, <1>13, <1>14, <1>15, <1>16, <1>17, <1>18, <1>19, <1>20 DEF Next

(* Every step leaves the failure timer a cause, or stops it. *)
LEMMA ConnectionCause == IInv /\ [Next]_vars => FailureHasCause'
<1> SUFFICES ASSUME IInv, [Next]_vars PROVE FailureHasCause'
    OBVIOUS
<1> USE DEF IInv, SocketInv, FailureHasCause, Call, Transactional, NoCall,
       clientVars, timerVars, heartbeatVars, netVars, sentVars, historyVars
<1>1. ASSUME NEW k \in Call, SubmitCall(k) PROVE FailureHasCause'
    BY <1>1, Zenon DEF SubmitCall, Queued, Offline, BootAccepted
<1>2. ASSUME NEW k \in Call, CallSent(k) PROVE FailureHasCause'
    BY <1>2, Zenon DEF CallSent
<1>3. ASSUME NEW k \in Call, TriggerMessage(k) PROVE FailureHasCause'
    BY <1>3, Zenon DEF TriggerMessage, Queued, ResetHeartbeatTriggerCount,
       BootAccepted
<1>4. CASE NoReply
    BY <1>4, Zenon DEF NoReply, SameQueue, NotAwaitedAnyMore, GivenUpWhileLeft
<1>5. CASE Blink
    BY <1>5, Zenon DEF Blink, ConnectServer, IsConnectedOrConnecting
<1>6. CASE OcppConnRetryWaited
    BY <1>6, Zenon DEF OcppConnRetryWaited, ConnectServer
<1>7. CASE Connected
    BY <1>7, Zenon DEF Connected, BootAccepted
<1>8. CASE Disconnected
    BY <1>8, Zenon DEF Disconnected, SocketLost, QueueStops, NotAwaitedAnyMore,
       GivenUpWhileLeft
<1>9. CASE WsTimeout
    BY <1>9, Zenon DEF WsTimeout, SocketLost, QueueStops, NotAwaitedAnyMore,
       GivenUpWhileLeft
<1>10. CASE BootNotifTimeout
    BY <1>10, Zenon DEF BootNotifTimeout, Queued
<1>11. CASE IncrHeartbeatTriggerCount
    BY <1>11, Zenon DEF IncrHeartbeatTriggerCount
<1>12. CASE HeartBeatTimeout
    BY <1>12, Zenon DEF HeartBeatTimeout, Queued, Offline
<1>13. CASE ConnectionFailTimeout
    BY <1>13, Zenon DEF ConnectionFailTimeout
<1>14. ASSUME NEW k \in Call, CallResultReceived(k) PROVE FailureHasCause'
    BY <1>14, Zenon DEF CallResultReceived, RemoveSentCallMessage, GivenUpWhileLeft,
       SameQueue, ResetHeartbeatTriggerCount, BootNotificationConf, HeartbeatConf,
       OtherConf, NotHandled
<1>15. ASSUME NEW k \in Call, CallErrorReceived(k) PROVE FailureHasCause'
    BY <1>15, Zenon DEF CallErrorReceived, RemoveSentCallMessage, GivenUpWhileLeft,
       SameQueue, ResetHeartbeatTriggerCount, NotHandled
<1>16. CASE OtherMessageReceived
    BY <1>16, Zenon DEF OtherMessageReceived, ResetHeartbeatTriggerCount
<1>17. CASE ResetRejected
    BY <1>17, Zenon DEF ResetRejected, ResetHeartbeatTriggerCount
<1>18. CASE Reboot
    BY <1>18, Zenon DEF Reboot
<1>19. CASE IdlessTransactionChanges
    BY <1>19, Zenon DEF IdlessTransactionChanges
<1>20. CASE UNCHANGED vars
    BY <1>20, Zenon DEF vars
<1> QED
    BY <1>1, <1>2, <1>3, <1>4, <1>5, <1>6, <1>7, <1>8, <1>9, <1>10, <1>11,
       <1>12, <1>13, <1>14, <1>15, <1>16, <1>17, <1>18, <1>19, <1>20 DEF Next

-----------------------------------------------------------------------------
(* The inductive invariant holds in every reachable state, for any         *)
(* interval of the heartbeat and whatever the network and the CS do.       *)
THEOREM ConnectionInvariant == Spec => []IInv
<1>1. IInv /\ [Next]_vars => IInv'
    BY ConnectionFlags, ConnectionValues, ConnectionSocket, ConnectionCause DEF IInv
<1> QED
    BY ConnectionInit, <1>1, PTL DEF Spec

(* Type correctness of the client's connection (OcppClient, MainWindow).   *)
THEOREM ConnectionTypeCorrect == Spec => []TypeOK
<1>1. IInv => TypeOK
    BY DEF IInv, FlagsOK, ValuesOK, TypeOK
<1> QED
    BY <1>1, ConnectionInvariant, PTL

(* The state of OcppClient follows the socket: a closed socket leaves it   *)
(* Idle, from where alone ConnectServer opens one.                         *)
THEOREM ConnectionStateFollowsSocket == Spec => []StateFollowsSocket
<1>1. IInv => StateFollowsSocket
    BY DEF IInv
<1> QED
    BY <1>1, ConnectionInvariant, PTL

(* OcppDataReceived drops no answer for the state it comes in, unless the  *)
(* heartbeat failed meanwhile, or the queue gave up on a call before: only *)
(* then are there calls in its sent lists that nobody waits for.           *)
THEOREM ConnectionAnswerCounts == Spec => []AnswerCounts
<1>1. IInv => AnswerCounts
    BY DEF IInv
<1> QED
    BY <1>1, ConnectionInvariant, PTL

(* The failure timer runs only for a heartbeat that is on its way, or was  *)
(* lost.                                                                   *)
THEOREM ConnectionFailureHasCause == Spec => []FailureHasCause
<1>1. IInv => FailureHasCause
    BY DEF IInv
<1> QED
    BY <1>1, ConnectionInvariant, PTL
=============================================================================
