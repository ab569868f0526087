--------------------------- MODULE OcppConnection ---------------------------
(***************************************************************************)
(* The connection to the central system (CS): the state of OcppClient, its *)
(* timers, registration, heartbeat and the flag that says whether the CS   *)
(* is on line (OCPP/ocppclient.cpp), with the retry timer and the Blink    *)
(* tick of MainWindow that open the connection (mainwindow.cpp). The       *)
(* WebSocket is the environment. The out-message queue is reduced to what  *)
(* OcppOutMessageQueue shows of it: calls waiting to be sent, at most one  *)
(* call whose answer is awaited, and calls nobody waits for any more whose *)
(* answers still match.                                                    *)
(***************************************************************************)
EXTENDS Naturals, FiniteSets

CONSTANTS
    HeartbeatTriggerCount,  \* seconds without a message before a heartbeat is due
    MaxLate                 \* bound: kinds of call sent and not waited for

ASSUME TriggerAssumption == HeartbeatTriggerCount \in Nat
ASSUME LateAssumption == MaxLate \in Nat

VARIABLES                   \* OcppClient
    st,
    chargerRegStatus,
    ocppConnectionStatus,   \* the CS is taken to be on line
    connTimer,              \* running timers
    bootNotifTimer,
    heartBeatTimer,         \* with heartbeatTriggerCountTimer
    connectionFailTimer,
    heartbeatTriggerCount,
    isSendHeaetbeatState

VARIABLES
    ocppConnRetryTimer,     \* MainWindow: waits to connect again
    idlessTransaction,      \* registry: the active transaction has no id yet
    socket,                 \* ws
    outQ,                   \* ocppMsgOutQ: kinds of call waiting to be sent
    awaited,                \* ocppMsgOutQ: the call sent and waited for (WaitReply), or NoCall
    late                    \* ocppMsgOutQ: the other calls in its sent lists

VARIABLES
    failed,                 \* history: the failure timer fired, and no call was sent since
    heartbeatLost,          \* history: the last heartbeat got no answer that counted
    givenUp                 \* history: a call was given up, and calls sent are left since

sentVars == <<awaited, late>>
clientVars == <<st, chargerRegStatus, ocppConnectionStatus>>
timerVars == <<connTimer, bootNotifTimer, connectionFailTimer, ocppConnRetryTimer>>
heartbeatVars == <<heartBeatTimer, heartbeatTriggerCount, isSendHeaetbeatState>>
netVars == <<socket, outQ, sentVars>>
historyVars == <<failed, heartbeatLost, givenUp>>
vars == <<clientVars, timerVars, heartbeatVars, idlessTransaction, netVars, historyVars>>

State == {"Idle", "Connecting", "Connected", "Disconnecting", "CallMessageSent",
          "CallResponseRcvd"}
RegistrationStatus == {"Unknown", "Pending", "Rejected", "Accepted"}
Socket == {"Closed", "Opening", "Open"}
Transactional == {"Transaction"}
Call == {"BootNotification", "Heartbeat", "Authorize", "StatusNotification"} \cup Transactional
NoCall == "none"

Offline == ~ocppConnectionStatus
IsConnectedOrConnecting == socket = "Open" \/ st = "Connecting"
BootAccepted == chargerRegStatus = "Accepted"

TypeOK ==
    /\ st \in State
    /\ chargerRegStatus \in RegistrationStatus
    /\ ocppConnectionStatus \in BOOLEAN
    /\ connTimer \in BOOLEAN /\ bootNotifTimer \in BOOLEAN /\ heartBeatTimer \in BOOLEAN
    /\ connectionFailTimer \in BOOLEAN /\ isSendHeaetbeatState \in BOOLEAN
    /\ ocppConnRetryTimer \in BOOLEAN /\ idlessTransaction \in BOOLEAN
    /\ failed \in BOOLEAN /\ heartbeatLost \in BOOLEAN /\ givenUp \in BOOLEAN
    /\ heartbeatTriggerCount \in 0..HeartbeatTriggerCount
    /\ socket \in Socket
    /\ outQ \subseteq Call
    /\ awaited \in Call \cup {NoCall}
    /\ late \subseteq Call

Init ==
    /\ st = "Idle"
    /\ chargerRegStatus = "Unknown"
    /\ ocppConnectionStatus = FALSE
    /\ connTimer = FALSE
    /\ bootNotifTimer = FALSE
    /\ heartBeatTimer = FALSE
    /\ connectionFailTimer = FALSE
    /\ heartbeatTriggerCount = 0
    /\ isSendHeaetbeatState = FALSE
    /\ ocppConnRetryTimer = FALSE
    /\ idlessTransaction = FALSE
    /\ socket = "Closed"
    /\ outQ = {}
    /\ awaited = NoCall
    /\ late = {}
    /\ failed = FALSE
    /\ heartbeatLost = FALSE
    /\ givenUp = FALSE

-----------------------------------------------------------------------------
(* Submitting and sending calls *)

(* The queue takes other calls than transactional ones only while the      *)
(* socket is connected.                                                    *)
Queued(calls) ==
    outQ \cup {k \in calls : socket = "Open" \/ k \in Transactional}

(* addAuthorizeReq while on line, a call of the requester, a status        *)
(* notification once accepted.                                             *)
SubmitCall(k) ==
    /\ k \in {"Authorize", "Transaction", "StatusNotification"}
    /\ k = "Authorize" => ~Offline
    /\ k = "StatusNotification" => BootAccepted
    /\ outQ' = Queued({k})
    /\ UNCHANGED <<clientVars, timerVars, heartbeatVars, idlessTransaction, socket, sentVars,
                   historyVars>>

(* Fault: the call that follows an answer is not noted. *)
CallSentFirstOnly(k) ==
    /\ socket = "Open" /\ awaited = NoCall
    /\ k \in outQ
    /\ k \in Transactional => outQ \subseteq Transactional
    /\ outQ' = outQ \ {k}
    /\ awaited' = k
    /\ st' = IF st = "Connected" THEN "CallMessageSent" ELSE st
    /\ failed' = FALSE
    /\ UNCHANGED <<chargerRegStatus, ocppConnectionStatus, timerVars, heartbeatVars,
                   idlessTransaction, socket, late, heartbeatLost, givenUp>>

(* The queue has written a call: onMsgSent. *)
CallSent(k) ==
    /\ socket = "Open" /\ awaited = NoCall
    /\ k \in outQ
    /\ k \in Transactional => outQ \subseteq Transactional
    /\ outQ' = outQ \ {k}
    /\ awaited' = k
    /\ st' = "CallMessageSent"
    /\ failed' = FALSE
    /\ UNCHANGED <<chargerRegStatus, ocppConnectionStatus, timerVars, heartbeatVars,
                   idlessTransaction, socket, late, heartbeatLost, givenUp>>

SameQueue(k, other) == k \in Transactional <=> other \in Transactional

(* Nobody waits any more for the answer of the call awaited. *)
NotAwaitedAnyMore ==
    /\ awaited' = NoCall
    /\ heartbeatLost' = (heartbeatLost \/ awaited = "Heartbeat")

GivenUpWhileLeft == givenUp' = (givenUp /\ late' # {})

(* No answer in time: the queue puts the calls of its current list back to *)
(* be sent again, or gives up. A call given up stays in the sent list: the *)
(* signal msgNoReplyError, which would remove it, is connected to nothing. *)
NoReply ==
    /\ awaited # NoCall
    /\ \/ /\ outQ' = outQ \cup {k \in late \cup {awaited} : SameQueue(k, awaited)}
          /\ late' = {k \in late : ~SameQueue(k, awaited)}
          /\ GivenUpWhileLeft
       \/ /\ late' = late \cup {awaited}
          /\ Cardinality(late') <= MaxLate
          /\ givenUp' = TRUE
          /\ UNCHANGED outQ
    /\ NotAwaitedAnyMore
    /\ UNCHANGED <<clientVars, timerVars, heartbeatVars, idlessTransaction, socket, failed>>

-----------------------------------------------------------------------------
(* Opening and losing the connection *)

(* Fault: nothing limits the time to connect. *)
ConnectServerUntimed ==
    IF st = "Idle"
    THEN /\ st' = "Connecting"
         /\ socket' = "Opening"
         /\ UNCHANGED connTimer
    ELSE UNCHANGED <<st, connTimer, socket>>

(* ConnectServer opens the socket only from Idle. A live socket is         *)
(* replaced without a signal.                                              *)
ConnectServer ==
    IF st = "Idle"
    THEN /\ st' = "Connecting"
         /\ connTimer' = TRUE
         /\ socket' = "Opening"
    ELSE UNCHANGED <<st, connTimer, socket>>

(* Blink, twice a second *)
Blink ==
    /\ ~IsConnectedOrConnecting
    /\ ~ocppConnRetryTimer
    /\ ConnectServer
    /\ UNCHANGED <<chargerRegStatus, ocppConnectionStatus, bootNotifTimer, connectionFailTimer,
                   ocppConnRetryTimer, heartbeatVars, idlessTransaction, outQ, sentVars,
                   historyVars>>

(* onOcppConnRetryWaited *)
OcppConnRetryWaited ==
    /\ ocppConnRetryTimer
    /\ ocppConnRetryTimer' = idlessTransaction
    /\ IF idlessTransaction THEN UNCHANGED <<st, connTimer, socket>> ELSE ConnectServer
    /\ UNCHANGED <<chargerRegStatus, ocppConnectionStatus, bootNotifTimer, connectionFailTimer,
                   heartbeatVars, idlessTransaction, outQ, sentVars, historyVars>>

(* onConnected, with MainWindow::onOcppConnected called by it. After the   *)
(* failure timer has fired in between the signal is not expected, and      *)
(* nobody is told.                                                         *)
Connected ==
    /\ socket = "Opening"
    /\ socket' = "Open"
    /\ IF st = "Connecting"
       THEN /\ connTimer' = FALSE
            /\ st' = "Connected"
            /\ ocppConnRetryTimer' = FALSE
            /\ failed' = FALSE
            /\ outQ' = outQ \cup IF BootAccepted THEN {"StatusNotification"}
                                                 ELSE {"BootNotification"}
       ELSE UNCHANGED <<connTimer, st, ocppConnRetryTimer, outQ, failed>>
    /\ UNCHANGED <<chargerRegStatus, ocppConnectionStatus, bootNotifTimer, connectionFailTimer,
                   heartbeatVars, idlessTransaction, sentVars, heartbeatLost, givenUp>>

(* When the socket closes, the queue drops Authorize and everything sent   *)
(* that is not transactional. Transactional calls sent are put back, if    *)
(* theirs is the current list, and otherwise stay in the sent list.        *)
QueueStops ==
    LET sent == (late \cup {awaited}) \cap Transactional IN
    /\ \/ /\ awaited \in Transactional \cup {NoCall}
          /\ outQ' = (outQ \ {"Authorize"}) \cup sent
          /\ late' = {}
       \/ /\ awaited \notin Transactional
          /\ outQ' = outQ \ {"Authorize"}
          /\ late' = sent
    /\ GivenUpWhileLeft
    /\ NotAwaitedAnyMore

(* Fault: the state is left as it was. *)
SocketLostKeepingState ==
    /\ QueueStops
    /\ socket' = "Closed"
    /\ UNCHANGED st
    /\ heartBeatTimer' = FALSE
    /\ heartbeatTriggerCount' = 0
    /\ ocppConnRetryTimer' = TRUE
    /\ failed' = FALSE

(* onDisconnected, and the queue's onWsStateChanged before it: the calls   *)
(* timed out, MainWindow starts its retry timer. connTimer, bootNotifTimer *)
(* and connectionFailTimer go on.                                          *)
SocketLost ==
    /\ QueueStops
    /\ socket' = "Closed"
    /\ st' = "Idle"
    /\ heartBeatTimer' = FALSE
    /\ heartbeatTriggerCount' = 0
    /\ ocppConnRetryTimer' = TRUE
    /\ failed' = FALSE

Disconnected ==
    /\ socket # "Closed"
    /\ SocketLost
    /\ UNCHANGED <<chargerRegStatus, ocppConnectionStatus, connTimer, bootNotifTimer,
                   connectionFailTimer, isSendHeaetbeatState, idlessTransaction>>

(* onWsTimeout: connecting has taken too long and is aborted. *)
WsTimeout ==
    /\ connTimer
    /\ connTimer' = FALSE
    /\ IF st = "Connecting"
       THEN SocketLost
       ELSE UNCHANGED <<socket, st, heartBeatTimer, heartbeatTriggerCount, ocppConnRetryTimer,
                        outQ, sentVars, historyVars>>
    /\ UNCHANGED <<chargerRegStatus, ocppConnectionStatus, bootNotifTimer,
                   connectionFailTimer, isSendHeaetbeatState, idlessTransaction>>

-----------------------------------------------------------------------------
(* Registration and heartbeat *)

(* onBootNotifTimeout *)
BootNotifTimeout ==
    /\ bootNotifTimer
    /\ bootNotifTimer' = FALSE
    /\ outQ' = IF chargerRegStatus \in {"Pending", "Rejected"}
               THEN Queued({"BootNotification"}) ELSE outQ
    /\ UNCHANGED <<clientVars, connTimer, connectionFailTimer, ocppConnRetryTimer,
                   heartbeatVars, idlessTransaction, socket, sentVars, historyVars>>

(* Fault: goes on counting after a heartbeat is due. *)
IncrHeartbeatTriggerCountAlways ==
    /\ heartBeatTimer
    /\ heartbeatTriggerCount' = heartbeatTriggerCount + 1
    /\ UNCHANGED <<clientVars, timerVars, heartBeatTimer, isSendHeaetbeatState,
                   idlessTransaction, netVars, historyVars>>

(* incrHeartbeatTriggerCount *)
IncrHeartbeatTriggerCount ==
    /\ heartBeatTimer
    /\ heartbeatTriggerCount < HeartbeatTriggerCount
    /\ heartbeatTriggerCount' = heartbeatTriggerCount + 1
    /\ UNCHANGED <<clientVars, timerVars, heartBeatTimer, isSendHeaetbeatState,
                   idlessTransaction, netVars, historyVars>>

(* onHeartBeatTimeout: ocppSendHeartbeat, processHeartbeatWithResponse *)
HeartBeatTimeout ==
    /\ heartBeatTimer
    /\ heartbeatTriggerCount >= HeartbeatTriggerCount
    /\ isSendHeaetbeatState' = TRUE
    /\ connectionFailTimer' = (connectionFailTimer \/ ~Offline)
    /\ outQ' = Queued({"Heartbeat"})
    /\ UNCHANGED <<clientVars, connTimer, bootNotifTimer, ocppConnRetryTimer, heartBeatTimer,
                   heartbeatTriggerCount, idlessTransaction, socket, sentVars, historyVars>>

(* onConnectionFailTimeout: the socket is left as it is. *)
ConnectionFailTimeout ==
    /\ connectionFailTimer
    /\ connectionFailTimer' = FALSE
    /\ ocppConnectionStatus' = FALSE
    /\ st' = "Idle"
    /\ failed' = TRUE
    /\ UNCHANGED <<chargerRegStatus, connTimer, bootNotifTimer, ocppConnRetryTimer,
                   heartbeatVars, idlessTransaction, netVars, heartbeatLost, givenUp>>

-----------------------------------------------------------------------------
(* Messages of the CS *)

(* resetHeartbeatTriggerCount, after every message *)
ResetHeartbeatTriggerCount ==
    /\ heartbeatTriggerCount' = IF isSendHeaetbeatState THEN heartbeatTriggerCount ELSE 0
    /\ isSendHeaetbeatState' = FALSE

(* BootNotification.conf. A charger that is not accepted starts the timer  *)
(* to try again, and its status stays what it was.                         *)
BootNotificationConf(status, withInterval) ==
    /\ ocppConnectionStatus' = (status = "Accepted")
    /\ chargerRegStatus' = IF status = "Accepted" THEN "Accepted" ELSE chargerRegStatus
    /\ heartBeatTimer' = (heartBeatTimer \/ (status = "Accepted" /\ withInterval))
    /\ bootNotifTimer' = (bootNotifTimer \/ status = "NotAccepted")
    /\ outQ' = IF status = "Accepted" THEN outQ \cup {"StatusNotification"} ELSE outQ
    /\ UNCHANGED connectionFailTimer

(* Fault: the failure timer goes on. *)
HeartbeatConfStillTimed ==
    /\ ocppConnectionStatus' = TRUE
    /\ UNCHANGED <<chargerRegStatus, heartBeatTimer, bootNotifTimer, outQ, connectionFailTimer>>

HeartbeatConf ==
    /\ connectionFailTimer' = FALSE
    /\ ocppConnectionStatus' = TRUE
    /\ UNCHANGED <<chargerRegStatus, heartBeatTimer, bootNotifTimer, outQ>>

(* handleCallResultMessage for the other calls; a malformed answer to a    *)
(* transactional call leaves the flag alone.                               *)
OtherConf(k) ==
    /\ \/ ocppConnectionStatus' = TRUE
       \/ k \in Transactional /\ UNCHANGED ocppConnectionStatus
    /\ UNCHANGED <<chargerRegStatus, heartBeatTimer, bootNotifTimer, outQ, connectionFailTimer>>

NotHandled ==
    UNCHANGED <<ocppConnectionStatus, chargerRegStatus, heartBeatTimer, bootNotifTimer, outQ,
                connectionFailTimer>>

(* removeSentCallMessage, for an answer to k: the call awaited, or a late  *)
(* one, while the queue is at the list k is in. Any answer that matches    *)
(* ends the waiting, and the call awaited is left over if it was not its.  *)
(* Of a kind there may be several calls.                                   *)
RemoveSentCallMessage(k) ==
    /\ socket = "Open"
    /\ \/ k = awaited /\ UNCHANGED late
       \/ /\ k \in late
          /\ awaited # NoCall => SameQueue(k, awaited)
          /\ \E left \in {late, late \ {k}} : late' = left \cup ({awaited} \ {NoCall})
          /\ Cardinality(late') <= MaxLate
    /\ awaited' = NoCall
    /\ GivenUpWhileLeft

(* OcppDataReceived: a CallResult counts only in CallMessageSent. *)
CallResultReceived(k) ==
    /\ RemoveSentCallMessage(k)
    /\ IF st = "CallMessageSent"
       THEN /\ st' = "CallResponseRcvd"
            /\ CASE k = "BootNotification" ->
                        \E status \in {"Accepted", "NotAccepted", "Malformed"} :
                            \E withInterval \in BOOLEAN :
                                BootNotificationConf(status, withInterval)
                 [] k = "Heartbeat" -> HeartbeatConf
                 [] OTHER -> OtherConf(k)
       ELSE UNCHANGED st /\ NotHandled
    /\ heartbeatLost' = IF k = "Heartbeat" /\ st = "CallMessageSent" THEN FALSE
                        ELSE heartbeatLost \/ awaited = "Heartbeat"
    /\ ResetHeartbeatTriggerCount
    /\ UNCHANGED <<connTimer, ocppConnRetryTimer, idlessTransaction, socket, failed>>

(* OcppDataReceived: a CallError is only logged. *)
CallErrorReceived(k) ==
    /\ RemoveSentCallMessage(k)
    /\ st' = IF st = "CallMessageSent" THEN "CallResponseRcvd" ELSE st
    /\ NotHandled
    /\ heartbeatLost' = (heartbeatLost \/ awaited = "Heartbeat")
    /\ ResetHeartbeatTriggerCount
    /\ UNCHANGED <<connTimer, ocppConnRetryTimer, idlessTransaction, socket, failed>>

(* A message that matches no call, or a call of the CS that leaves the     *)
(* connection alone, or any call before the charger is accepted.           *)
OtherMessageReceived ==
    /\ socket = "Open"
    /\ ResetHeartbeatTriggerCount
    /\ UNCHANGED <<clientVars, timerVars, heartBeatTimer, idlessTransaction, netVars,
                   historyVars>>

(* TriggerMessage.req for a BootNotification or a StatusNotification *)
TriggerMessage(k) ==
    /\ socket = "Open"
    /\ BootAccepted
    /\ k \in {"BootNotification", "StatusNotification"}
    /\ outQ' = Queued({k})
    /\ ResetHeartbeatTriggerCount
    /\ UNCHANGED <<clientVars, timerVars, heartBeatTimer, idlessTransaction, socket, sentVars,
                   historyVars>>

(* Reset.req of no known type: rejected, and yet no longer accepted. *)
ResetRejected ==
    /\ socket = "Open"
    /\ BootAccepted
    /\ chargerRegStatus' = "Unknown"
    /\ ResetHeartbeatTriggerCount
    /\ UNCHANGED <<st, ocppConnectionStatus, timerVars, heartBeatTimer, idlessTransaction,
                   netVars, historyVars>>

(* Reset.req Hard or Soft, a power failure: the system starts again. *)
Reboot ==
    /\ st' = "Idle" /\ chargerRegStatus' = "Unknown" /\ ocppConnectionStatus' = FALSE
    /\ connTimer' = FALSE /\ bootNotifTimer' = FALSE /\ heartBeatTimer' = FALSE
    /\ connectionFailTimer' = FALSE /\ ocppConnRetryTimer' = FALSE
    /\ heartbeatTriggerCount' = 0 /\ isSendHeaetbeatState' = FALSE
    /\ idlessTransaction' = FALSE
    /\ socket' = "Closed" /\ outQ' = {} /\ awaited' = NoCall /\ late' = {}
    /\ failed' = FALSE /\ heartbeatLost' = FALSE /\ givenUp' = FALSE

(* A session starts without a transaction id, gets it or ends. *)
IdlessTransactionChanges ==
    /\ idlessTransaction' = ~idlessTransaction
    /\ UNCHANGED <<clientVars, timerVars, heartbeatVars, netVars, historyVars>>

-----------------------------------------------------------------------------
Next ==
    \/ \E k \in Call :
        \/ SubmitCall(k) \/ CallSent(k)
        \/ CallResultReceived(k) \/ CallErrorReceived(k) \/ TriggerMessage(k)
    \/ NoReply
    \/ Blink
    \/ OcppConnRetryWaited
    \/ Connected
    \/ Disconnected
    \/ WsTimeout
    \/ BootNotifTimeout
    \/ IncrHeartbeatTriggerCount
    \/ HeartBeatTimeout
    \/ ConnectionFailTimeout
    \/ OtherMessageReceived
    \/ ResetRejected
    \/ Reboot
    \/ IdlessTransactionChanges

Spec == Init /\ [][Next]_vars

(* The event loop fires the timers; nothing is assumed of the network.     *)
FairSpec ==
    /\ Spec
    /\ WF_vars(Blink)
    /\ WF_vars(OcppConnRetryWaited)
    /\ WF_vars(WsTimeout)

-----------------------------------------------------------------------------
(* st, which decides whether the client may connect and whether an answer  *)
(* counts, follows the socket through timeouts, failures and losses in any *)
(* order: a closed socket leaves the client Idle, from where alone it can  *)
(* connect again, and connecting is always guarded by connTimer. Idle with *)
(* an open socket comes only of the heartbeat failure.                     *)
StateFollowsSocket ==
    /\ socket = "Closed" => st = "Idle"
    /\ st = "Connecting" => socket = "Opening" /\ connTimer
    /\ st \in {"Connected", "CallMessageSent", "CallResponseRcvd"} => socket = "Open"
    /\ st = "Idle" /\ socket # "Closed" => failed

(* The answer to a call sent is not dropped for the state it comes in      *)
(* (OcppDataReceived handles a CallResult only in CallMessageSent): not    *)
(* that to the call the queue waits for, unless the heartbeat failed       *)
(* meanwhile; and no other call is left in its sent lists, unless the      *)
(* queue gave up on one before. After that the answer to the call given up *)
(* may come while another is awaited, is taken for the end of the waiting, *)
(* and the answer to the other is dropped.                                 *)
AnswerCounts ==
    /\ awaited # NoCall => st = "CallMessageSent" \/ failed
    /\ late # {} => givenUp

(* The timer that will declare the CS off line runs only while a heartbeat *)
(* is on its way, or has got no answer: an answered one stops it           *)
(* (ocppSendHeartbeat, Heartbeat.conf). It outlives the connection, so the *)
(* heartbeat may be one of an earlier connection.                          *)
FailureHasCause ==
    connectionFailTimer =>
        "Heartbeat" \in outQ \/ awaited = "Heartbeat" \/ heartbeatLost

(* The client never stays without a connection attempt: whatever happened, *)
(* a closed socket is opened, unless sessions without a transaction id     *)
(* keep the retry timer waiting (onOcppConnRetryWaited), and no attempt to *)
(* connect goes on for ever (onWsTimeout, Blink).                          *)
KeepsConnecting ==
    /\ []<>idlessTransaction \/ []<>(socket # "Closed")
    /\ []<>(socket # "Opening")
=============================================================================
