------------------------ MODULE TransactionReporting ------------------------
(***************************************************************************)
(* From a charging session to its record at the central system (CS): the   *)
(* transaction registry and the message requester, composed by the         *)
(* handlers of MainWindow (mainwindow.cpp), with the charger's connector   *)
(* that starts and ends sessions (ccharger.cpp), its file of the session   *)
(* in progress, the outgoing call queue and the CS. Each action is one     *)
(* event handler run to completion in the Qt event loop. The program may   *)
(* be restarted between any two of them.                                   *)
(***************************************************************************)
EXTENDS OcppTransactionMessageRequester, FiniteSets

CONSTANTS
    NoSession,
    MaxTrans,       \* bound: transaction objects created between restarts
    MaxMeterVals,   \* bound: meter values sampled per transaction
    MaxPending,     \* bound: zero-delay timers under way when another event comes
    MaxRestarts     \* bound: restarts

ASSUME ReportingAssumption ==
    /\ NoSession \notin Session
    /\ MaxRestarts \in Nat

VARIABLES
    connector,      \* phase, the session on it, and the resumed transaction id (-1: none)
    progressFile    \* ChargeProgress.csv; session NoSession: no record

VARIABLES
    ws,             \* the socket is connected
    checkPending,   \* the timer for onCheckTransactionTimeout runs
    csTrans         \* the CS's transactions, by transaction id

VARIABLES
    restarts,
    resumed,        \* history: sessions resumed after a restart
    unreported      \* history: a call has left the queue without the requester being told

netVars == <<calls, ocppOnline, ws, checkPending>>
connVars == <<connector, progressFile>>
historyVars == <<restarts, resumed, unreported>>
vars == <<registryVars, requesterVars, netVars, connVars, csTrans, historyVars>>

Idle == [phase |-> "idle", session |-> NoSession, resumedId |-> -1]
NoRecord == [session |-> NoSession, transactionId |-> -1, resumed |-> FALSE]

TypeOK ==
    /\ RegistryTypeOK
    /\ RequesterTypeOK
    /\ connector \in [phase: {"idle", "accepted", "resuming", "charging"},
                      session: Session \cup {NoSession}, resumedId: Int]
    /\ progressFile \in [session: Session \cup {NoSession}, transactionId: Int, resumed: BOOLEAN]
    /\ ws \in BOOLEAN
    /\ checkPending \in BOOLEAN
    /\ csTrans \in Seq([session: Session, meterVal: Int, stopped: BOOLEAN])
    /\ restarts \in 0..MaxRestarts
    /\ resumed \subseteq Session
    /\ unreported \in BOOLEAN

Init ==
    /\ RegistryInit
    /\ RequesterInit
    /\ calls = <<>>
    /\ ocppOnline = FALSE
    /\ connector = Idle
    /\ progressFile = NoRecord
    /\ ws = FALSE
    /\ checkPending = FALSE
    /\ csTrans = <<>>
    /\ restarts = 0
    /\ resumed = {}
    /\ unreported = FALSE

-----------------------------------------------------------------------------
(* The connector (CCharger) and MainWindow's handlers of its signals *)

NeverUsed(s) ==
    /\ s # connector.session
    /\ progressFile.session # s
    /\ \A i \in DOMAIN trans : trans[i].session # s
    /\ \A i \in DOMAIN offlineFile : offlineFile[i].session # s
    /\ \A i \in DOMAIN csTrans : csTrans[i].session # s

(* onChargeCommandAccepted for a new session. *)
ChargeCommandAccepted(s) ==
    /\ connector.phase = "idle"
    /\ NeverUsed(s)
    /\ Len(trans) < MaxTrans /\ processPending < MaxPending
    /\ connector' = [phase |-> "accepted", session |-> s, resumedId |-> -1]
    /\ StartNew(s)
    /\ NextTransaction(transItems')
    /\ UNCHANGED <<netVars, progressFile, csTrans, historyVars>>

(* onChargeCommandAccepted for a session resumed after a restart: the      *)
(* signal comes once from ResumeCharge and again if the charger board has  *)
(* to be enabled. nextTransaction, called last, does nothing: the          *)
(* requester has taken the resumed transaction or was busy.                *)
ResumeTransaction(s, id) ==
    /\ AddActive(s, id)
    /\ UNCHANGED currentTransc
    /\ OnChargingResumed(Len(trans) + 1)

ResumedCommandAccepted ==
    /\ connector.phase = "resuming"
    /\ Len(trans) < MaxTrans /\ processPending < MaxPending
    /\ connector' = [connector EXCEPT !.phase = "charging"]
    /\ ResumeTransaction(connector.session, connector.resumedId)
    /\ UNCHANGED <<netVars, progressFile, csTrans, historyVars>>

(* onChargeCommandCanceled *)
ChargeCommandCanceled ==
    /\ connector.phase \in {"accepted", "resuming"}
    /\ processPending < MaxPending
    /\ connector' = Idle
    /\ Cancel
    /\ OnChargingEnded(GetNewest)
    /\ UNCHANGED <<netVars, progressFile, csTrans, historyVars>>

(* The contactor closes. *)
ChargingBegins ==
    /\ connector.phase = "accepted"
    /\ connector' = [connector EXCEPT !.phase = "charging"]
    /\ UNCHANGED <<registryVars, requesterVars, netVars, progressFile, csTrans, historyVars>>

(* onChargeFinished. Without an active currentTransc nothing is marked.    *)
ChargeFinished ==
    /\ connector.phase = "charging"
    /\ processPending < MaxPending
    /\ connector' = Idle
    /\ \/ /\ Finish
          /\ OnChargingEnded(currentTransc)
       \/ /\ ~CanFinish
          /\ UNCHANGED <<registryVars, requesterVars>>
    /\ UNCHANGED <<netVars, progressFile, csTrans, historyVars>>

(* onMeterSampleTimeout *)
MeterSampleTimeout ==
    /\ processPending < MaxPending
    /\ UpdateActiveTransactionMeterValue
    /\ trans'[GetNewest].meterVals <= MaxMeterVals
    /\ OnMeterValUpdated(GetNewest, trans'[GetNewest].meterVals)
    /\ UNCHANGED <<netVars, connVars, csTrans, historyVars>>

(* ModifyRecord, while the charging window is shown. *)
ModifyRecord ==
    /\ connector.phase = "charging"
    /\ progressFile' =
         [session |-> connector.session,
          transactionId |-> IF GetActiveTrans = NoTrans THEN -1 ELSE trans[GetActiveTrans].transactionId,
          resumed |-> connector.resumedId >= 0]
    /\ UNCHANGED <<registryVars, requesterVars, netVars, connector, csTrans, historyVars>>

(* ClearRecord, by the finish window once no transaction is active. *)
ClearRecord ==
    /\ connector.phase = "idle"
    /\ progressFile # NoRecord
    /\ GetActiveTrans = NoTrans
    /\ progressFile' = NoRecord
    /\ UNCHANGED <<registryVars, requesterVars, netVars, connector, csTrans, historyVars>>

-----------------------------------------------------------------------------
(* process, and MainWindow's handlers of the requester's signals *)

(* The code runs saveTransactionToRecord before removeByTransactionId.     *)
OnTransactionCompleted(id) ==
    /\ currentTransc' = NoTrans
    /\ RemoveBy(WithTransactionId(id))
    /\ ResetAndTakeOldest(transItems', processPending)
    /\ UNCHANGED <<trans, meterSampleTimer>>

(* removeByTransactionId is tried only when no transaction has the tag.    *)
OnTransactionError(tag, id) ==
    /\ IF tag # NoTag /\ Range(transItems) \cap WithAuthId(tag) # {}
       THEN RemoveBy(WithAuthId(tag))
       ELSE RemoveBy(WithTransactionId(id))
    /\ ResetAndTakeOldest(transItems', processPending - 1)
    /\ UNCHANGED <<trans, currentTransc, meterSampleTimer>>

ProcessCompleted ==
    /\ sendProgress = "Completed"
    /\ OnTransactionCompleted(trans[curTrans].transactionId)
    /\ UNCHANGED calls

ProcessError ==
    /\ sendProgress = "Error"
    /\ OnTransactionError(AuthId(curTrans), trans[curTrans].transactionId)
    /\ UNCHANGED calls

Process ==
    /\ processPending > 0
    /\ \/ /\ ProcessIdle \/ ProcessStartTx \/ ProcessMeter \/ ProcessStopTx \/ ProcessWaitReply
          /\ UNCHANGED registryVars
       \/ ProcessCompleted
       \/ ProcessError
    /\ UNCHANGED <<ocppOnline, ws, checkPending, connVars, csTrans, historyVars>>

-----------------------------------------------------------------------------
(* The connection and the CS *)

(* onOcppConnected; the next connection attempt comes only after the timer *)
(* of the last one (timing assumption).                                    *)
WsConnected ==
    /\ ~ws /\ ~checkPending
    /\ ws' = TRUE
    /\ checkPending' = TRUE
    /\ UNCHANGED <<registryVars, requesterVars, calls, ocppOnline, connVars, csTrans, historyVars>>

(* A lost connection does not make the client offline. *)
WsDisconnected ==
    /\ ws
    /\ ws' = FALSE
    /\ UNCHANGED <<registryVars, requesterVars, calls, ocppOnline, checkPending, connVars, csTrans, historyVars>>

OnCheckTransactionTimeout ==
    /\ checkPending
    /\ processPending < MaxPending
    /\ checkPending' = FALSE
    /\ NextTransaction(transItems)
    /\ UNCHANGED <<registryVars, calls, ocppOnline, ws, connVars, csTrans, historyVars>>

(* The CS answers a BootNotification, Heartbeat or StatusNotification. *)
OtherReply ==
    /\ ws /\ ~ocppOnline
    /\ ocppOnline' = TRUE
    /\ UNCHANGED <<registryVars, requesterVars, calls, ws, checkPending, connVars, csTrans, historyVars>>

(* onConnectionFailTimeout: heartbeats went unanswered. *)
ConnectionFailTimeout ==
    /\ ocppOnline
    /\ ocppOnline' = FALSE
    /\ UNCHANGED <<registryVars, requesterVars, calls, ws, checkPending, connVars, csTrans, historyVars>>

(* The first call of the queue reaches the CS. *)
CsReceives ==
    /\ ws /\ calls # <<>> /\ ~Head(calls).received
    /\ LET call == Head(calls)
           id == call.transactionId
       IN \/ /\ call.action = "StartTransaction"
             /\ csTrans' = Append(csTrans, [session |-> call.session, meterVal |-> -1, stopped |-> FALSE])
             /\ calls' = [calls EXCEPT ![1].received = TRUE, ![1].transactionId = Len(csTrans) + 1]
          \/ /\ call.action # "StartTransaction"
             /\ csTrans' = IF id \notin DOMAIN csTrans THEN csTrans
                           ELSE [csTrans EXCEPT
                                  ![id].meterVal = IF call.action = "MeterValues" THEN call.meterVal ELSE @,
                                  ![id].stopped = @ \/ call.action = "StopTransaction"]
             /\ calls' = [calls EXCEPT ![1].received = TRUE]
    /\ UNCHANGED <<registryVars, requesterVars, ocppOnline, ws, checkPending, connVars, historyVars>>

(* handleCallResultMessage, for a reply the client accepts; an answer to a *)
(* StopTransaction without a positive id makes it throw.                   *)
Reply ==
    /\ ws /\ calls # <<>> /\ Head(calls).received
    /\ processPending < MaxPending
    /\ calls' = Tail(calls)
    /\ LET call == Head(calls)
       IN \/ /\ \/ /\ call.action = "StartTransaction"
                   /\ OnStartTransactionResponded(IdTag[call.session], call.transactionId)
                \/ /\ call.action = "MeterValues"
                   /\ OnMeterValueResponded(call.transactionId)
                \/ /\ call.action = "StopTransaction" /\ call.transactionId > 0
                   /\ \E accepted \in BOOLEAN :
                        OnStopTransactionResponded(accepted, call.transactionId)
             /\ ocppOnline' = TRUE
          \/ /\ call.action = "StopTransaction" /\ call.transactionId <= 0
             /\ UNCHANGED <<trans, requesterVars, ocppOnline>>
    /\ UNCHANGED <<transItems, currentTransc, meterSampleTimer, offlineFile,
                   ws, checkPending, connVars, csTrans, historyVars>>

(* The call leaves the queue and the requester is not told: a CallError, a *)
(* reply without the fields expected or at an unexpected client state, or  *)
(* the queue discards the call.                                            *)
ReplyNotReported ==
    /\ calls # <<>>
    /\ calls' = Tail(calls)
    /\ unreported' = TRUE
    /\ UNCHANGED <<registryVars, requesterVars, ocppOnline, ws, checkPending, connVars, csTrans,
                   restarts, resumed>>

-----------------------------------------------------------------------------
(* The program ends, perhaps with the power, and starts again: the         *)
(* registry is loaded; ChargerPostModBus then reads the progress record at *)
(* the first message of the charger board, before anything else runs.      *)
StartUp ==
    /\ restarts < MaxRestarts
    /\ restarts' = restarts + 1
    /\ currentTransc' = NoTrans
    /\ progressFile' = NoRecord
    /\ ocppOnline' = FALSE
    /\ ws' = FALSE
    /\ checkPending' = FALSE
    /\ unreported' = FALSE
    /\ UNCHANGED csTrans

(* No record, or no resuming from it. In that case a StopTransaction is    *)
(* sent for it at once.                                                    *)
Restart ==
    /\ StartUp
    /\ \/ UNCHANGED offlineFile
       \/ connector.phase = "charging" /\ TornAppend
    /\ trans' = Loaded
    /\ transItems' = [i \in DOMAIN Loaded |-> i]
    /\ meterSampleTimer' = FALSE
    /\ sendProgress' = "Idle"
    /\ meterValIdx' = -1
    /\ curTrans' = NoTrans
    /\ processPending' = 0
    /\ connector' = Idle
    /\ calls' = IF progressFile = NoRecord THEN <<>>
                ELSE << Call("StopTransaction", progressFile.session, progressFile.transactionId, -1) >>
    /\ UNCHANGED resumed

(* The EV is still connected: ResumeCharge. The charger board was powered  *)
(* all along and goes on charging, or has to be enabled again.             *)
RestartResuming ==
    /\ StartUp
    /\ progressFile.transactionId > 0 /\ ~progressFile.resumed
    /\ LET s == progressFile.session
           new == Len(Loaded) + 1
       IN /\ new <= MaxTrans
          /\ trans' = Append(Loaded, Started(s, progressFile.transactionId))
          /\ transItems' = [i \in 1..new |-> i]
          /\ curTrans' = new
          /\ resumed' = resumed \cup {s}
          /\ \E phase \in {"resuming", "charging"} :
               connector' = [phase |-> phase, session |-> s, resumedId |-> progressFile.transactionId]
    /\ meterSampleTimer' = TRUE
    /\ sendProgress' = "Meter"
    /\ meterValIdx' = -1
    /\ processPending' = 1
    /\ calls' = <<>>
    /\ UNCHANGED offlineFile

Charger ==
    \/ \E s \in Session : ChargeCommandAccepted(s)
    \/ ResumedCommandAccepted
    \/ ChargeCommandCanceled
    \/ ChargingBegins
    \/ ChargeFinished
    \/ MeterSampleTimeout
    \/ ModifyRecord
    \/ ClearRecord

Reporting ==
    \/ Process
    \/ WsConnected \/ WsDisconnected
    \/ OtherReply
    \/ CsReceives \/ Reply

Next ==
    \/ Charger
    \/ Reporting
    \/ OnCheckTransactionTimeout
    \/ ConnectionFailTimeout
    \/ ReplyNotReported
    \/ Restart \/ RestartResuming

Spec == Init /\ [][Next]_vars

(* The event loop runs the timers that are due, MainWindow's retry timer   *)
(* reconnects, and a CS that is connected again and again takes and        *)
(* answers the first call in the end. Heartbeats are answered, each call   *)
(* as expected, and no session is resumed.                                 *)
Fairness ==
    /\ WF_vars(Process)
    /\ WF_vars(OnCheckTransactionTimeout)
    /\ WF_vars(WsConnected)
    /\ SF_vars(OtherReply)
    /\ SF_vars(CsReceives)
    /\ SF_vars(Reply)

(* The first reply of the CS may come after onCheckTransactionTimeout. *)
FairSpec ==
    /\ Init
    /\ [][Charger \/ Reporting \/ Restart \/ OnCheckTransactionTimeout]_vars
    /\ Fairness

(* The first reply of the CS comes within the second it takes. *)
TimelySpec ==
    /\ Init
    /\ [][Charger \/ Reporting \/ Restart \/ (OnCheckTransactionTimeout /\ ocppOnline)]_vars
    /\ Fairness
-----------------------------------------------------------------------------
(* Properties *)

Registered(t) == \E i \in DOMAIN transItems : transItems[i] = t
CurSession == trans[curTrans].session
WaitedFor ==
    [StartTxWaitReply |-> "StartTransaction", MeterWaitReply |-> "MeterValues",
     StopTxWaitReply |-> "StopTransaction"]
NothingLeftToSend(t) == NextMeterValIdx >= trans[t].meterVals

(* Whatever the requester has to do next, a timer for process is under     *)
(* way: no handler leaves it with work and without a wake-up. Without a    *)
(* timer in Meter, the transaction is still charging and every sampled     *)
(* value has been confirmed.                                               *)
NoLostWakeup ==
    processPending = 0 =>
      \/ sendProgress = "Idle" /\ curTrans = NoTrans
      \/ sendProgress \in DOMAIN WaitedFor
      \/ sendProgress = "Meter" /\ IsActive(curTrans) /\ NothingLeftToSend(curTrans)

(* The requester reports a transaction that the registry still has, from   *)
(* the moment it takes it until it is removed, and it is the oldest one as *)
(* long as no session was resumed.                                         *)
CursorRegistered ==
    /\ sendProgress # "Idle" => curTrans # NoTrans
    /\ curTrans # NoTrans => Registered(curTrans)
    /\ curTrans # NoTrans /\ resumed = {} => curTrans = Head(transItems)

(* MeterValues and StopTransaction are only made for a transaction that    *)
(* has its id and its tag, StopTransaction only for one that has ended:    *)
(* the exceptions of process for the contrary are never thrown. Except for *)
(* a session resumed without a tag: with the id its record was given, of   *)
(* an older active transaction (ModifyRecord), it passes for authorized    *)
(* until its StopTransaction is to be made.                                *)
ReportStage ==
    /\ sendProgress \in {"Meter", "MeterWaitReply", "StopTx", "StopTxWaitReply", "Completed"} =>
         /\ HasTransactionId(curTrans)
         /\ HasAuthorizationId(curTrans) \/ CurSession \in resumed
    /\ sendProgress \in {"StopTx", "StopTxWaitReply", "Completed"} => ~IsActive(curTrans)

(* The requester waits only for a call that it has made for the current    *)
(* transaction and that is still to be answered, the last in the queue,    *)
(* unless an answer was not reported to it.                                *)
AwaitedCallInFlight ==
    sendProgress \in DOMAIN WaitedFor /\ ~unreported =>
      /\ calls # <<>>
      /\ Last(calls).action = WaitedFor[sendProgress]
      /\ Last(calls).session = CurSession

(* A finished transaction waiting to be reported is on file, to be loaded  *)
(* at the next start, unless a record before it is torn.                   *)
FinishedOnFile ==
    \A i \in DOMAIN transItems :
      trans[transItems[i]].st = "Finished" =>
        \/ \E j \in DOMAIN Loaded : Loaded[j].session = trans[transItems[i]].session
        \/ \E j \in DOMAIN offlineFile : ~offlineFile[j].whole

(* The CS is never told that a session has stopped that is still going on, *)
(* unless it was resumed.                                                  *)
StopMeansEnded ==
    \A i \in DOMAIN csTrans :
      csTrans[i].stopped /\ csTrans[i].session \notin resumed =>
        csTrans[i].session # connector.session

(* The meter values of a session reach the CS in the order sampled, from   *)
(* the first one and without a gap, unless it was resumed; after a restart *)
(* a value may come again.                                                 *)
MeterWithoutGap ==
    [][\A i \in DOMAIN csTrans :
         csTrans[i].session \notin resumed => csTrans'[i].meterVal <= csTrans[i].meterVal + 1]_vars

IsOldest(s) == transItems # <<>> /\ trans[Head(transItems)].session = s

(* The oldest transaction, once ended, is reported and removed, if it has  *)
(* a tag or an id. Without either StartTransaction is refused,             *)
(* onTransactionError finds nothing to remove by, and the requester takes  *)
(* the same transaction again, for ever.                                   *)
OldestReported ==
    \A s \in Session :
      (/\ IsOldest(s) /\ ~IsActive(Head(transItems))
       /\ HasAuthorizationId(Head(transItems)) \/ HasTransactionId(Head(transItems)))
        ~> ~IsOldest(s)

-----------------------------------------------------------------------------
(* What comments say and the code does not do *)

(* evchargingtransactionregistry.cpp:93 "Mark the currently active         *)
(* transaction as finish": a session that has left the connector has no    *)
(* active transaction.                                                     *)
FinishMarksActive ==
    connector.phase = "idle" => GetActiveTrans = NoTrans

=============================================================================
