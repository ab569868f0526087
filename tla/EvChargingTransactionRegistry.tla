------------------- MODULE EvChargingTransactionRegistry -------------------
(***************************************************************************)
(* EvChargingTransaction and EvChargingTransactionRegistry                 *)
(* (evchargingtransaction.cpp, evchargingtransactionregistry.cpp): the     *)
(* charging transactions not yet reported to the central system, and the   *)
(* file that keeps the finished ones over a restart.                       *)
(*                                                                         *)
(* The operations are called by MainWindow and by the message requester in *)
(* the middle of their handlers; they are operators over the registry's    *)
(* next state, composed into actions in TransactionReporting.              *)
(***************************************************************************)
EXTENDS Integers, Sequences, SequencesExt, Selections

CONSTANTS
    Session,    \* charging sessions, known by their start time
    IdTag,      \* IdTag[s]: the tag that authorized session s
    NoTag       \* the null or empty idTag

VARIABLES
    trans,            \* every EvChargingTransaction object created since the start-up
    transItems,       \* the registry's list, oldest first, of indices into trans
    currentTransc,    \* EvChargingTransaction::currentTransc; NoTrans: nullptr
    meterSampleTimer, \* whether the timer runs
    offlineFile       \* offline_transaction_records.csv, one record per transaction

registryVars == <<trans, transItems, currentTransc, meterSampleTimer, offlineFile>>

NoTrans == 0
Status == {"Active", "Canceled", "Finished"}

Transaction ==
    [session: Session, st: Status, transactionId: Int, meterVals: Nat, lastSentMeterValIdx: Int]

(* A record the power failed on is not whole: it lacks its TransStop line. *)
FileRecord ==
    [session: Session, transactionId: Int, meterVals: Nat, lastSentMeterValIdx: Int, whole: BOOLEAN]

RegistryTypeOK ==
    /\ trans \in Seq(Transaction)
    /\ transItems \in Seq(DOMAIN trans)
    /\ currentTransc \in DOMAIN trans \cup {NoTrans}
    /\ meterSampleTimer \in BOOLEAN
    /\ offlineFile \in Seq(FileRecord)

RegistryInit ==
    /\ trans = <<>>
    /\ transItems = <<>>
    /\ currentTransc = NoTrans
    /\ meterSampleTimer = FALSE
    /\ offlineFile = <<>>

-----------------------------------------------------------------------------
(* EvChargingTransaction *)

IsActive(t) == trans[t].st = "Active"
HasTransactionId(t) == trans[t].transactionId >= 0
AuthId(t) == IdTag[trans[t].session]
HasAuthorizationId(t) == AuthId(t) # NoTag
HasSentMeterValIdx(t) == trans[t].lastSentMeterValIdx >= 0

(* A freshly constructed and activated transaction. *)
Started(s, id) ==
    [session |-> s, st |-> "Active", transactionId |-> id, meterVals |-> 0,
     lastSentMeterValIdx |-> -1]

SetTransactionId(t, id) ==
    trans' = [trans EXCEPT ![t].transactionId = id, ![t].lastSentMeterValIdx = -1]

(* toStringList: nothing for a transaction that is not finished. *)
ToFileRecord(ts, t) ==
    [session |-> ts[t].session, transactionId |-> ts[t].transactionId,
     meterVals |-> ts[t].meterVals, lastSentMeterValIdx |-> ts[t].lastSentMeterValIdx,
     whole |-> TRUE]

(* fromStringList: setTransactionId restores the index only with an id. *)
FromFileRecord(r) ==
    [session |-> r.session, st |-> "Finished", transactionId |-> r.transactionId,
     meterVals |-> r.meterVals,
     lastSentMeterValIdx |-> IF r.transactionId >= 0 THEN r.lastSentMeterValIdx ELSE -1]

-----------------------------------------------------------------------------
(* EvChargingTransactionRegistry *)

GetNewest == IF transItems = <<>> THEN NoTrans ELSE Last(transItems)

(* getActiveTrans walks the list from its end and does not stop at the     *)
(* first active transaction: it returns the oldest one.                    *)
GetActiveTrans ==
    LET i == SelectInSeq(transItems, IsActive)
    IN IF i = 0 THEN NoTrans ELSE transItems[i]

(* addActive; the new transaction becomes the newest. *)
AddActive(s, id) ==
    /\ trans' = Append(trans, Started(s, id))
    /\ transItems' = Append(transItems, Len(trans) + 1)
    /\ meterSampleTimer' = TRUE
    /\ UNCHANGED offlineFile

StartNew(s) ==
    /\ AddActive(s, -1)
    /\ currentTransc' = Len(trans) + 1

(* cancel acts on the newest transaction, which it requires to be active. *)
Cancel ==
    /\ GetNewest # NoTrans /\ IsActive(GetNewest)
    /\ trans' = [trans EXCEPT ![GetNewest].st = "Canceled"]
    /\ meterSampleTimer' = FALSE
    /\ UNCHANGED <<transItems, currentTransc, offlineFile>>

(* finish acts on currentTransc, and does nothing without one. *)
CanFinish == currentTransc # NoTrans /\ IsActive(currentTransc)

Finish ==
    /\ CanFinish
    /\ trans' = [trans EXCEPT ![currentTransc].st = "Finished"]
    /\ meterSampleTimer' = FALSE
    /\ offlineFile' = Append(offlineFile, ToFileRecord(trans, currentTransc))
    /\ UNCHANGED <<transItems, currentTransc>>

(* The power fails while addOfflineTransactionsToFile appends. *)
TornAppend ==
    /\ CanFinish
    /\ offlineFile' = Append(offlineFile,
                             [ToFileRecord(trans, currentTransc) EXCEPT !.whole = FALSE])

(* Fault: transactions without an id are left out. *)
SaveIdentifiedTransactionsToFile(ts, items) ==
    LET finished == Selected(items, {t \in DOMAIN ts : ts[t].st = "Finished" /\ ts[t].transactionId >= 0})
    IN offlineFile' = [i \in DOMAIN finished |-> ToFileRecord(ts, finished[i])]

(* saveOfflineTransactionsToFile replaces the file as a whole. *)
SaveOfflineTransactionsToFile(ts, items) ==
    LET finished == Selected(items, {t \in DOMAIN ts : ts[t].st = "Finished"})
    IN offlineFile' = [i \in DOMAIN finished |-> ToFileRecord(ts, finished[i])]

WithAuthId(tag) == {t \in DOMAIN trans : AuthId(t) = tag}
WithTransactionId(id) == {t \in DOMAIN trans : HasTransactionId(t) /\ trans[t].transactionId = id}

(* removeByAuthId and removeByTransactionId: the first match only. *)
RemoveBy(matching) ==
    IF Range(transItems) \cap matching # {}
    THEN /\ transItems' = RemoveFirstMatch(transItems, LAMBDA t : t \in matching)
         /\ SaveOfflineTransactionsToFile(trans, transItems')
    ELSE UNCHANGED <<transItems, offlineFile>>

UpdateActiveTransactionMeterValue ==
    /\ meterSampleTimer
    /\ GetNewest # NoTrans /\ IsActive(GetNewest)
    /\ trans' = [trans EXCEPT ![GetNewest].meterVals = @ + 1]
    /\ UNCHANGED <<transItems, currentTransc, meterSampleTimer, offlineFile>>

(* loadOfflineTransactionsFromFile: a record without its last line is      *)
(* dropped at the end of the file, and elsewhere ends the loading.         *)
Loaded ==
    LET torn == SelectInSeq(offlineFile, LAMBDA r : ~r.whole)
        whole == IF torn = 0 THEN offlineFile ELSE SubSeq(offlineFile, 1, torn - 1)
    IN [i \in DOMAIN whole |-> FromFileRecord(whole[i])]
=============================================================================
