------------------ MODULE OcppTransactionMessageRequester ------------------
(***************************************************************************)
(* OcppTransactionMessageRequester                                         *)
(* (OCPP/ocpptransactionmessagerequester.cpp): reports the registry's      *)
(* transactions to the central system, one at a time, each as a            *)
(* StartTransaction, its MeterValues and a StopTransaction call. The       *)
(* handlers are operators over the requester's next state.                 *)
(***************************************************************************)
EXTENDS EvChargingTransactionRegistry

VARIABLES
    sendProgress,
    meterValIdx,     \* last confirmed meter value of curTrans
    curTrans,
    processPending,  \* zero-delay timers that will call process
    calls,           \* transactional calls in OcppOutMessageQueue, first to be sent first
    ocppOnline       \* OcppClient::ocppConnectionStatus, i.e. ~isOffline()

requesterVars == <<sendProgress, meterValIdx, curTrans, processPending>>

SendOcppProgress ==
    {"Idle", "StartTx", "StartTxWaitReply", "Meter", "MeterWaitReply", "StopTx",
     "StopTxWaitReply", "Completed", "Error"}

(* A call; received says whether the CS has it. A StartTransaction has its *)
(* transactionId from then on.                                             *)
CallMessage ==
    [action: {"StartTransaction", "MeterValues", "StopTransaction"}, session: Session,
     transactionId: Int, meterVal: Int, received: BOOLEAN]

Call(action, s, id, idx) ==
    [action |-> action, session |-> s, transactionId |-> id, meterVal |-> idx, received |-> FALSE]

RequesterTypeOK ==
    /\ sendProgress \in SendOcppProgress
    /\ meterValIdx \in Nat \cup {-1}
    /\ curTrans \in DOMAIN trans \cup {NoTrans}
    /\ processPending \in Nat
    /\ calls \in Seq(CallMessage)
    /\ ocppOnline \in BOOLEAN

RequesterInit ==
    /\ sendProgress = "Idle"
    /\ meterValIdx = -1
    /\ curTrans = NoTrans
    /\ processPending = 0

Submit(action, idx) ==
    calls' = Append(calls, Call(action, trans[curTrans].session, trans[curTrans].transactionId, idx))

(* sendProgress = p; scheduleProcess(), from a signal handler. *)
GoTo(p) ==
    /\ sendProgress' = p
    /\ processPending' = processPending + 1

Unconcerned == UNCHANGED requesterVars

-----------------------------------------------------------------------------
(* nextTransaction at progress Idle, when the list is items and curTrans,  *)
(* meterValIdx and the timers under way are as given.                      *)
TakeOldest(items, cur, idx, pending) ==
    LET ready == items # <<>> /\ ocppOnline
    IN /\ curTrans' = IF ready THEN Head(items) ELSE cur
       /\ meterValIdx' = IF ready THEN -1 ELSE idx
       /\ processPending' = IF ready THEN pending + 1 ELSE pending

(* It is called at other progress without effect. *)
NextTransaction(items) ==
    /\ IF sendProgress = "Idle"
       THEN TakeOldest(items, curTrans, meterValIdx, processPending)
       ELSE UNCHANGED <<curTrans, meterValIdx, processPending>>
    /\ UNCHANGED sendProgress

(* Fault: keeps the cursor. *)
ResetKeepingCursor(items, pending) ==
    /\ sendProgress' = "Idle"
    /\ TakeOldest(items, curTrans, -1, pending)

(* Fault: nobody goes on with the next transaction. *)
ResetOnly(items, pending) ==
    /\ sendProgress' = "Idle"
    /\ TakeOldest(<<>>, NoTrans, -1, pending)

(* reset, then nextTransaction. *)
ResetAndTakeOldest(items, pending) ==
    /\ sendProgress' = "Idle"
    /\ TakeOldest(items, NoTrans, -1, pending)

-----------------------------------------------------------------------------
(* process: one zero-delay timer fires. Here it only moves on to p, with   *)
(* another timer started, or stays where it is.                            *)
Step(p) ==
    /\ sendProgress' = p
    /\ UNCHANGED processPending

Stay ==
    /\ processPending' = processPending - 1
    /\ UNCHANGED sendProgress

(* Fault: the saved index is not checked. *)
ProcessIdleUnchecked ==
    /\ sendProgress = "Idle"
    /\ \/ /\ curTrans = NoTrans
          /\ Stay
          /\ UNCHANGED meterValIdx
       \/ /\ curTrans # NoTrans /\ ~HasTransactionId(curTrans)
          /\ Step("StartTx")
          /\ UNCHANGED meterValIdx
       \/ /\ curTrans # NoTrans /\ HasTransactionId(curTrans)
          /\ Step("Meter")
          /\ meterValIdx' = trans[curTrans].lastSentMeterValIdx - 1
    /\ UNCHANGED <<curTrans, calls>>

(* Fault: one value too far. *)
ProcessIdleOneTooFar ==
    /\ sendProgress = "Idle"
    /\ \/ /\ curTrans = NoTrans
          /\ Stay
          /\ UNCHANGED meterValIdx
       \/ /\ curTrans # NoTrans /\ ~HasTransactionId(curTrans)
          /\ Step("StartTx")
          /\ UNCHANGED meterValIdx
       \/ /\ curTrans # NoTrans /\ HasTransactionId(curTrans)
          /\ Step("Meter")
          /\ meterValIdx' = IF HasSentMeterValIdx(curTrans)
                            THEN trans[curTrans].lastSentMeterValIdx + 1 ELSE meterValIdx
    /\ UNCHANGED <<curTrans, calls>>

ProcessIdle ==
    /\ sendProgress = "Idle"
    /\ \/ /\ curTrans = NoTrans
          /\ Stay
          /\ UNCHANGED meterValIdx
       \/ /\ curTrans # NoTrans /\ ~HasTransactionId(curTrans)
          /\ Step("StartTx")
          /\ UNCHANGED meterValIdx
       \/ /\ curTrans # NoTrans /\ HasTransactionId(curTrans)
          /\ Step("Meter")
          /\ meterValIdx' = IF HasSentMeterValIdx(curTrans)
                            THEN trans[curTrans].lastSentMeterValIdx - 1 ELSE meterValIdx
    /\ UNCHANGED <<curTrans, calls>>

ProcessStartTx ==
    /\ sendProgress = "StartTx"
    /\ \/ /\ HasAuthorizationId(curTrans)
          /\ Submit("StartTransaction", -1)
          /\ Step("StartTxWaitReply")
       \/ /\ ~HasAuthorizationId(curTrans)
          /\ Step("Error")
          /\ UNCHANGED calls
    /\ UNCHANGED <<meterValIdx, curTrans>>

NextMeterValIdx == IF meterValIdx < 0 THEN 0 ELSE meterValIdx + 1

(* Fault: does not wait for the transaction to end. *)
ProcessMeterToStop ==
    /\ sendProgress = "Meter"
    /\ \/ /\ NextMeterValIdx < trans[curTrans].meterVals
          /\ Submit("MeterValues", NextMeterValIdx)
          /\ Step("MeterWaitReply")
       \/ /\ NextMeterValIdx >= trans[curTrans].meterVals
          /\ Step("StopTx")
          /\ UNCHANGED calls
    /\ UNCHANGED <<meterValIdx, curTrans>>

(* Only ever entered with a transaction id: the exception for a missing    *)
(* one cannot be thrown (ReportStage).                                      *)
ProcessMeter ==
    /\ sendProgress = "Meter"
    /\ \/ /\ NextMeterValIdx < trans[curTrans].meterVals
          /\ Submit("MeterValues", NextMeterValIdx)
          /\ Step("MeterWaitReply")
       \/ /\ NextMeterValIdx >= trans[curTrans].meterVals
          /\ IF IsActive(curTrans) THEN Stay ELSE Step("StopTx")
          /\ UNCHANGED calls
    /\ UNCHANGED <<meterValIdx, curTrans>>

(* Only ever entered with an ended transaction that has its id             *)
(* (ReportStage). Without a tag the exception is thrown.                   *)
ProcessStopTx ==
    /\ sendProgress = "StopTx"
    /\ \/ /\ HasAuthorizationId(curTrans)
          /\ Submit("StopTransaction", -1)
          /\ Step("StopTxWaitReply")
       \/ /\ ~HasAuthorizationId(curTrans)
          /\ Step("Error")
          /\ UNCHANGED calls
    /\ UNCHANGED <<meterValIdx, curTrans>>

ProcessWaitReply ==
    /\ sendProgress \in {"StartTxWaitReply", "MeterWaitReply", "StopTxWaitReply"}
    /\ Stay
    /\ UNCHANGED <<meterValIdx, curTrans, calls>>

-----------------------------------------------------------------------------
(* Responses of the CS, as OcppClient signals them *)

OnStartTransactionResponded(tag, id) ==
    /\ IF sendProgress = "StartTxWaitReply"
       THEN IF tag = AuthId(curTrans)
            THEN /\ SetTransactionId(curTrans, id)
                 /\ GoTo("Meter")
                 /\ meterValIdx' = -1
            ELSE /\ GoTo("Error")
                 /\ UNCHANGED <<trans, meterValIdx>>
       ELSE UNCHANGED <<trans, sendProgress, meterValIdx, processPending>>
    /\ UNCHANGED curTrans

OnMeterValueResponded(id) ==
    /\ IF sendProgress = "MeterWaitReply"
       THEN IF id = trans[curTrans].transactionId
            THEN /\ meterValIdx' = NextMeterValIdx
                 /\ trans' = [trans EXCEPT ![curTrans].lastSentMeterValIdx = NextMeterValIdx]
                 /\ GoTo("Meter")
            ELSE /\ GoTo("Error")
                 /\ UNCHANGED <<trans, meterValIdx>>
       ELSE UNCHANGED <<trans, sendProgress, meterValIdx, processPending>>
    /\ UNCHANGED curTrans

OnStopTransactionResponded(accepted, id) ==
    /\ IF sendProgress = "StopTxWaitReply"
       THEN GoTo(IF accepted /\ id = trans[curTrans].transactionId THEN "Completed" ELSE "Error")
       ELSE UNCHANGED <<sendProgress, processPending>>
    /\ UNCHANGED <<trans, meterValIdx, curTrans>>

-----------------------------------------------------------------------------
(* Signals of the registry about transaction t *)

(* Another active transaction takes the place of the oldest. *)
OnChargingResumed(t) ==
    IF sendProgress = "Idle"
    THEN GoTo("Meter") /\ curTrans' = t /\ UNCHANGED meterValIdx
    ELSE Unconcerned

(* Fault: off by one. *)
IsWaitingOneLess(t, count) ==
    /\ sendProgress = "Meter" /\ t = curTrans
    /\ meterValIdx < 0 \/ count - meterValIdx <= 1

(* Fault: any transaction is taken for the current one. *)
IsWaitingForAny(t, count) ==
    /\ sendProgress = "Meter"
    /\ meterValIdx < 0 \/ count - meterValIdx <= 2

IsWaitingForMeterValue(t, count) ==
    /\ sendProgress = "Meter" /\ t = curTrans
    /\ meterValIdx < 0 \/ count - meterValIdx <= 2

OnMeterValUpdated(t, count) ==
    /\ processPending' = IF IsWaitingForMeterValue(t, count) THEN processPending + 1 ELSE processPending
    /\ UNCHANGED <<sendProgress, meterValIdx, curTrans>>

(* Fault: the end of the charging goes before an answer awaited. *)
OnChargingEndedAtOnce(t) ==
    IF t = curTrans /\ sendProgress # "Idle"
    THEN GoTo("StopTx") /\ UNCHANGED <<meterValIdx, curTrans>>
    ELSE Unconcerned

(* onChargingCanceled and onChargingFinished *)
OnChargingEnded(t) ==
    IF IsWaitingForMeterValue(t, trans[t].meterVals)
    THEN GoTo("StopTx") /\ UNCHANGED <<meterValIdx, curTrans>>
    ELSE Unconcerned
=============================================================================
