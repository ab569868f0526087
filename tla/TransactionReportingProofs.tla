--------------------- MODULE TransactionReportingProofs ---------------------
(***************************************************************************)
(* Proofs about TransactionReporting, for any sessions and tags and any    *)
(* number of transactions, meter values, timers and restarts: what the     *)
(* requester reports is registered and has its id, it never sleeps with    *)
(* something to send, the call it waits for is in the queue, what has      *)
(* ended is on file, and the CS is never told that a session has stopped   *)
(* that still goes on.                                                     *)
(*                                                                         *)
(* The last is about ids: each is an id of the CS's transactions, but not  *)
(* always that of the session it is used for, as a progress record may be  *)
(* given the id of an older active transaction. It is then at least the    *)
(* id of a session that has left the connector (Identifies).               *)
(*                                                                         *)
(* The meter values of a session reach the CS without a gap. For that,     *)
(* GapInv follows the index of the last value from the queue through the   *)
(* registry to the file, and ids where two transactions have the same.     *)
(***************************************************************************)
EXTENDS TransactionReporting, SelectionsProofs

(* The CS may be told that session s has stopped.                          *)
MayBeStopped(s) == s # connector.session \/ s \in resumed

(* id is the CS's for s, or for a session that may be stopped.             *)
Identifies(id, s) ==
    /\ id \in DOMAIN csTrans
    /\ csTrans[id].session = s \/ MayBeStopped(csTrans[id].session)

(* A transaction without a tag gets no id but by being resumed.            *)
Tagged(s) == IdTag[s] # NoTag \/ s \in resumed

ConnectorInv ==
    /\ connector.phase = "idle" => connector = Idle
    /\ connector.phase # "idle" => connector.session \in Session
    /\ connector.phase = "resuming" \/ connector.resumedId >= 0 =>
         /\ connector.session \in resumed
         /\ connector.resumedId > 0
         /\ Identifies(connector.resumedId, connector.session)
    /\ progressFile # NoRecord => progressFile.session \in Session

(* Ids in the registry, on its file and in the progress record.            *)
IdInv ==
    /\ \A t \in DOMAIN trans : HasTransactionId(t) =>
         Identifies(trans[t].transactionId, trans[t].session) /\ Tagged(trans[t].session)
    /\ \A i \in DOMAIN offlineFile : offlineFile[i].transactionId >= 0 =>
         /\ Identifies(offlineFile[i].transactionId, offlineFile[i].session)
         /\ Tagged(offlineFile[i].session)
    /\ progressFile.transactionId >= 0 =>
         Identifies(progressFile.transactionId, progressFile.session)

EndedInv ==
    \A t \in DOMAIN trans : ~IsActive(t) => MayBeStopped(trans[t].session)

(* There is one StartTransaction call at most, the one waited for, last in *)
(* the queue.                                                              *)
StartInv ==
    /\ sendProgress = "StartTxWaitReply" => HasAuthorizationId(curTrans)
    /\ \A i \in DOMAIN calls : calls[i].action = "StartTransaction" =>
         /\ sendProgress = "StartTxWaitReply"
         /\ calls[i].session = CurSession
         /\ i = Len(calls)
         /\ calls[i].received =>
              /\ calls[i].transactionId \in DOMAIN csTrans
              /\ csTrans[calls[i].transactionId].session = calls[i].session

StopInv ==
    \A i \in DOMAIN calls : calls[i].action = "StopTransaction" /\ calls[i].transactionId >= 0 =>
         /\ calls[i].transactionId \in DOMAIN csTrans
         /\ MayBeStopped(csTrans[calls[i].transactionId].session)

(* The StopTransaction waited for has an id the client passes on.          *)
AwaitedStop ==
    sendProgress = "StopTxWaitReply" /\ ~unreported => Last(calls).transactionId > 0

(* FinishedOnFile, before the file is loaded.                              *)
FileInv ==
    \A i \in DOMAIN transItems :
      trans[transItems[i]].st = "Finished" =>
        \/ \E j \in DOMAIN offlineFile : offlineFile[j].session = trans[transItems[i]].session
        \/ \E j \in DOMAIN offlineFile : ~offlineFile[j].whole

IInv ==
    /\ TypeOK
    /\ CursorRegistered
    /\ ConnectorInv
    /\ IdInv
    /\ EndedInv
    /\ ReportStage
    /\ NoLostWakeup
    /\ StartInv
    /\ StopInv
    /\ AwaitedCallInFlight
    /\ AwaitedStop
    /\ FileInv
    /\ StopMeansEnded

-----------------------------------------------------------------------------
(* The registry's lists *)

(* What SelectInSeq returns: the index of the first match, or 0. *)
FirstMatch(q, M) ==
    LET I == {j \in 1..Len(q) : q[j] \in M}
    IN IF I # {} THEN Min(I) ELSE 0

LEMMA FirstMatchProperties ==
    ASSUME NEW A, NEW q \in Seq(A), NEW M
    PROVE  /\ FirstMatch(q, M) \in 0..Len(q)
           /\ FirstMatch(q, M) = 0 => \A j \in DOMAIN q : q[j] \notin M
           /\ FirstMatch(q, M) # 0 => q[FirstMatch(q, M)] \in M
<1> DEFINE I == {j \in 1..Len(q) : q[j] \in M}
<1> PICK i : i = FirstMatch(q, M)
  OBVIOUS
<1>1. i = IF I # {} THEN CHOOSE x \in I : \A y \in I : x <= y ELSE 0
  BY DEF FirstMatch, Min
<1>2. Len(q) \in Nat /\ DOMAIN q = 1..Len(q)
  BY LenProperties
<1>3. I # {} => \E x \in I : \A y \in I : x <= y
  <2> I \in SUBSET Nat
    BY <1>2
  <2> QED
    BY NatMin
<1>4. I # {} => i \in I
  BY <1>1, <1>3
<1>5. CASE I = {}
  <2>1. i = 0 /\ \A j \in 1..Len(q) : q[j] \notin M
    BY <1>1, <1>5
  <2> QED
    BY <2>1, <1>2
<1>6. CASE I # {}
  <2>1. i \in 1..Len(q) /\ q[i] \in M
    BY <1>4, <1>6
  <2> QED
    BY <2>1, <1>2
<1> QED
  BY <1>5, <1>6

(* What RemoveFirstMatch leaves if there is a match. *)
WithoutFirst(q, M) == RemoveAt(q, FirstMatch(q, M))

LEMMA WithoutFirstType ==
    ASSUME NEW A, NEW q \in Seq(A), NEW M, \E j \in DOMAIN q : q[j] \in M
    PROVE  WithoutFirst(q, M) \in Seq(A)
<1>1. Len(q) \in Nat /\ DOMAIN q = 1..Len(q) /\ \A j \in 1..Len(q) : q[j] \in A
  BY LenProperties
<1> DEFINE i == FirstMatch(q, M)
<1>2. WithoutFirst(q, M) = SubSeq(q, 1, i - 1) \o SubSeq(q, i + 1, Len(q))
  BY DEF WithoutFirst, RemoveAt
<1> HIDE DEF i
<1>3. i \in 1..Len(q)
  <2>1. i \in 0..Len(q) /\ (i = 0 => \A j \in DOMAIN q : q[j] \notin M)
    BY FirstMatchProperties DEF i
  <2> QED
    BY <2>1, <1>1
<1>4. /\ i - 1 \in Int /\ i + 1 \in Int /\ 1 \in Int /\ Len(q) \in Int
      /\ \A j \in 1..(i-1) : q[j] \in A
      /\ \A j \in (i+1)..Len(q) : q[j] \in A
  BY <1>1, <1>3
<1>5. SubSeq(q, 1, i - 1) \in Seq(A) /\ SubSeq(q, i + 1, Len(q)) \in Seq(A)
  BY <1>4, SubSeqProperties
<1> QED
  BY <1>2, <1>5, ConcatProperties

LEMMA ListTypes ==
    ASSUME TypeOK
    PROVE  /\ Len(trans) \in Nat /\ DOMAIN trans = 1..Len(trans)
           /\ \A t \in DOMAIN trans : trans[t] \in Transaction
           /\ Len(transItems) \in Nat /\ DOMAIN transItems = 1..Len(transItems)
           /\ \A i \in DOMAIN transItems : transItems[i] \in DOMAIN trans
           /\ Len(offlineFile) \in Nat /\ DOMAIN offlineFile = 1..Len(offlineFile)
           /\ \A i \in DOMAIN offlineFile : offlineFile[i] \in FileRecord
           /\ Len(calls) \in Nat /\ DOMAIN calls = 1..Len(calls)
           /\ \A i \in DOMAIN calls : calls[i] \in CallMessage
           /\ Len(csTrans) \in Nat /\ DOMAIN csTrans = 1..Len(csTrans)
           /\ \A i \in DOMAIN csTrans : csTrans[i] \in [session: Session, meterVal: Int, stopped: BOOLEAN]
<1>1. /\ trans \in Seq(Transaction) /\ transItems \in Seq(DOMAIN trans)
      /\ offlineFile \in Seq(FileRecord) /\ calls \in Seq(CallMessage)
      /\ csTrans \in Seq([session: Session, meterVal: Int, stopped: BOOLEAN])
  BY DEF TypeOK, RegistryTypeOK, RequesterTypeOK
<1> QED
  BY <1>1, LenProperties, ElementOfSeq

(* addActive *)
LEMMA Added ==
    ASSUME TypeOK, NEW s \in Session, NEW id \in Int, AddActive(s, id)
    PROVE  /\ trans' \in Seq(Transaction) /\ Len(trans') = Len(trans) + 1
           /\ DOMAIN trans' = DOMAIN trans \cup {Len(trans) + 1}
           /\ \A t \in DOMAIN trans : trans'[t] = trans[t]
           /\ trans'[Len(trans) + 1] = Started(s, id)
           /\ transItems' \in Seq(DOMAIN trans') /\ Len(transItems') = Len(transItems) + 1
           /\ DOMAIN transItems' = DOMAIN transItems \cup {Len(transItems) + 1}
           /\ \A i \in DOMAIN transItems : transItems'[i] = transItems[i]
           /\ transItems'[Len(transItems) + 1] = Len(trans) + 1
<1>1. trans \in Seq(Transaction) /\ transItems \in Seq(DOMAIN trans)
  BY DEF TypeOK, RegistryTypeOK
<1>2. Started(s, id) \in Transaction
  BY DEF Started, Transaction, Status
<1>3. /\ trans' = Append(trans, Started(s, id))
      /\ transItems' = Append(transItems, Len(trans) + 1)
  BY DEF AddActive
<1>4. /\ trans' \in Seq(Transaction) /\ Len(trans') = Len(trans) + 1
      /\ \A t \in 1..Len(trans) : trans'[t] = trans[t]
      /\ trans'[Len(trans) + 1] = Started(s, id)
  BY <1>1, <1>2, <1>3, AppendProperties
<1>5. DOMAIN trans' = 1..Len(trans') /\ Len(trans) \in Nat /\ DOMAIN trans = 1..Len(trans)
  BY <1>4, ListTypes, LenProperties
<1>6. DOMAIN trans' = DOMAIN trans \cup {Len(trans) + 1}
  BY <1>4, <1>5
<1>7. transItems \in Seq(DOMAIN trans') /\ Len(trans) + 1 \in DOMAIN trans'
  BY <1>1, <1>6, SeqMonotonic
<1>8. /\ transItems' \in Seq(DOMAIN trans') /\ Len(transItems') = Len(transItems) + 1
      /\ \A i \in 1..Len(transItems) : transItems'[i] = transItems[i]
      /\ transItems'[Len(transItems) + 1] = Len(trans) + 1
  BY <1>3, <1>7, AppendProperties
<1>9. /\ DOMAIN transItems' = 1..Len(transItems')
      /\ Len(transItems) \in Nat /\ DOMAIN transItems = 1..Len(transItems)
  BY <1>8, ListTypes, LenProperties
<1>10. DOMAIN transItems' = DOMAIN transItems \cup {Len(transItems) + 1}
  BY <1>8, <1>9
<1> QED
  BY <1>4, <1>5, <1>6, <1>8, <1>9, <1>10

(* A change of one transaction. *)
LEMMA Changed ==
    ASSUME TypeOK, NEW t \in DOMAIN trans, NEW tr \in Transaction,
           trans' = [trans EXCEPT ![t] = tr]
    PROVE  /\ trans' \in Seq(Transaction) /\ Len(trans') = Len(trans)
           /\ DOMAIN trans' = DOMAIN trans
           /\ trans'[t] = tr
           /\ \A u \in DOMAIN trans : u # t => trans'[u] = trans[u]
<1>1. trans \in Seq(Transaction) /\ t \in 1..Len(trans)
  BY ListTypes DEF TypeOK, RegistryTypeOK
<1>2. /\ trans' \in Seq(Transaction) /\ Len(trans') = Len(trans)
      /\ \A j \in 1..Len(trans) : trans'[j] = IF j = t THEN tr ELSE trans[j]
  BY <1>1, ExceptSeq
<1> QED
  BY <1>1, <1>2, ListTypes, LenProperties

(* What a start-up finds in the file. *)
LEMMA LoadedProperties ==
    ASSUME TypeOK
    PROVE  /\ Loaded \in Seq(Transaction)
           /\ Len(Loaded) \in Nat /\ DOMAIN Loaded = 1..Len(Loaded)
           /\ DOMAIN Loaded \subseteq DOMAIN offlineFile
           /\ (\A j \in DOMAIN offlineFile : offlineFile[j].whole) => DOMAIN Loaded = DOMAIN offlineFile
           /\ \A i \in DOMAIN Loaded : Loaded[i] = FromFileRecord(offlineFile[i])
<1> DEFINE Torn == {r \in FileRecord : ~r.whole}
           torn == FirstMatch(offlineFile, Torn)
           whole == IF torn = 0 THEN offlineFile ELSE SubSeq(offlineFile, 1, torn - 1)
<1>1. offlineFile \in Seq(FileRecord) /\ Len(offlineFile) \in Nat
      /\ DOMAIN offlineFile = 1..Len(offlineFile)
      /\ \A i \in DOMAIN offlineFile : offlineFile[i] \in FileRecord
  BY ListTypes DEF TypeOK, RegistryTypeOK
<1>2. Loaded = [i \in DOMAIN whole |-> FromFileRecord(whole[i])]
  <2>1. torn = SelectInSeq(offlineFile, LAMBDA r : ~r.whole)
    <3>1. {j \in 1..Len(offlineFile) : offlineFile[j] \in Torn} = {j \in 1..Len(offlineFile) : ~offlineFile[j].whole}
      BY <1>1
    <3> HIDE DEF Torn
    <3> QED
      BY <3>1 DEF FirstMatch, SelectInSeq
  <2> QED
    BY <2>1 DEF Loaded
<1>3. /\ torn \in 0..Len(offlineFile)
      /\ torn # 0 => offlineFile[torn] \in Torn
  <2> HIDE DEF Torn
  <2> QED
    BY <1>1, FirstMatchProperties
<1> HIDE DEF torn
<1>4. /\ whole \in Seq(FileRecord)
      /\ Len(whole) \in Nat /\ DOMAIN whole = 1..Len(whole) /\ DOMAIN whole \subseteq DOMAIN offlineFile
      /\ \A i \in DOMAIN whole : whole[i] = offlineFile[i]
  <2>1. CASE torn = 0
    BY <1>1, <2>1
  <2>2. CASE torn # 0
    <3>1. \A i \in 1..(torn - 1) : offlineFile[i] \in FileRecord
      BY <1>1, <1>3
    <3>2. /\ whole \in Seq(FileRecord)
          /\ Len(whole) = IF 1 <= torn - 1 THEN torn - 1 - 1 + 1 ELSE 0
          /\ \A i \in 1..(torn - 1 - 1 + 1) : whole[i] = offlineFile[1 + i - 1]
      BY <1>3, <2>2, <3>1, SubSeqProperties
    <3>3. DOMAIN whole = 1..Len(whole) /\ Len(whole) = torn - 1
      BY <1>3, <2>2, <3>2, LenProperties
    <3> HIDE DEF whole
    <3> QED
      BY <1>1, <1>3, <2>2, <3>2, <3>3
  <2> QED
    BY <2>1, <2>2
<1>5. (\A j \in DOMAIN offlineFile : offlineFile[j].whole) => whole = offlineFile
  BY <1>1, <1>3
<1> HIDE DEF whole
<1>6. \A i \in DOMAIN whole : FromFileRecord(whole[i]) \in Transaction
  <2> TAKE i \in DOMAIN whole
  <2>1. whole[i] \in FileRecord
    BY <1>1, <1>4
  <2> QED
    BY <2>1 DEF FromFileRecord, FileRecord, Transaction, Status
<1>7. Loaded \in [1..Len(whole) -> Transaction] /\ Loaded \in Seq(Transaction)
  BY <1>2, <1>4, <1>6, SeqDef
<1> QED
  BY <1>1, <1>2, <1>4, <1>5, <1>7, LenProperties

(* saveOfflineTransactionsToFile puts the finished ones on file, no other. *)
LEMMA SavedProperties ==
    ASSUME TypeOK, NEW items \in Seq(DOMAIN trans), SaveOfflineTransactionsToFile(trans, items)
    PROVE  /\ offlineFile' \in Seq(FileRecord)
           /\ \A j \in DOMAIN offlineFile' :
                \E t \in DOMAIN trans : offlineFile'[j] = ToFileRecord(trans, t)
           /\ \A i \in DOMAIN items : trans[items[i]].st = "Finished" =>
                \E j \in DOMAIN offlineFile' : offlineFile'[j] = ToFileRecord(trans, items[i])
<1> DEFINE F == {t \in DOMAIN trans : trans[t].st = "Finished"}
           finished == Selected(items, F)
<1>1. offlineFile' = [i \in DOMAIN finished |-> ToFileRecord(trans, finished[i])]
  BY DEF SaveOfflineTransactionsToFile
<1>2. /\ finished \in Seq(DOMAIN trans)
      /\ \A i \in DOMAIN items : items[i] \in F => \E j \in DOMAIN finished : finished[j] = items[i]
  <2> HIDE DEF F
  <2> QED
    BY SelectedProperties, SelectedHas
<1> HIDE DEF finished
<1>3. /\ Len(finished) \in Nat /\ DOMAIN finished = 1..Len(finished)
      /\ \A i \in DOMAIN finished : finished[i] \in DOMAIN trans
  BY <1>2, LenProperties, ElementOfSeq
<1>4. \A t \in DOMAIN trans : ToFileRecord(trans, t) \in FileRecord
  <2> TAKE t \in DOMAIN trans
  <2>1. trans[t] \in Transaction
    BY ListTypes
  <2> QED
    BY <2>1 DEF ToFileRecord, FileRecord, Transaction
<1>5. offlineFile' \in [1..Len(finished) -> FileRecord]
  BY <1>1, <1>3, <1>4
<1>6. offlineFile' \in Seq(FileRecord)
  BY <1>3, <1>5, SeqDef
<1>7. \A i \in DOMAIN items : items[i] \in DOMAIN trans
  BY ElementOfSeq, LenProperties
<1> QED
  BY <1>1, <1>2, <1>3, <1>6, <1>7

(* removeByAuthId and removeByTransactionId *)
LEMMA Removed ==
    ASSUME TypeOK, NEW M, RemoveBy(M)
    PROVE  /\ transItems' \in Seq(DOMAIN trans) /\ offlineFile' \in Seq(FileRecord)
           /\ \/ UNCHANGED <<transItems, offlineFile>>
              \/ SaveOfflineTransactionsToFile(trans, transItems')
<1>1. transItems \in Seq(DOMAIN trans) /\ offlineFile \in Seq(FileRecord)
  BY DEF TypeOK, RegistryTypeOK
<1>2. CASE Range(transItems) \cap M # {}
  <2>1. \E j \in DOMAIN transItems : transItems[j] \in M
    BY <1>2 DEF Range
  <2>2. /\ transItems' = RemoveFirstMatch(transItems, LAMBDA x : x \in M)
        /\ SaveOfflineTransactionsToFile(trans, transItems')
    BY <1>2 DEF RemoveBy
  <2>3. transItems' = WithoutFirst(transItems, M)
    BY <2>1, <2>2, ListTypes DEF RemoveFirstMatch, SelectInSeq, FirstMatch, WithoutFirst
  <2>4. transItems' \in Seq(DOMAIN trans)
    BY <1>1, <2>1, <2>3, WithoutFirstType
  <2> QED
    BY <2>2, <2>4, SavedProperties
<1>3. CASE Range(transItems) \cap M = {}
  BY <1>1, <1>3 DEF RemoveBy
<1> QED
  BY <1>2, <1>3

LEMMA NewestAndActive ==
    ASSUME TypeOK
    PROVE  /\ GetNewest # NoTrans => GetNewest \in DOMAIN trans /\ transItems # <<>>
           /\ GetActiveTrans # NoTrans => GetActiveTrans \in DOMAIN trans /\ IsActive(GetActiveTrans)
           /\ transItems # <<>> =>
                /\ 1 \in DOMAIN transItems /\ Head(transItems) = transItems[1]
                /\ Head(transItems) \in DOMAIN trans
<1>1. /\ Len(transItems) \in Nat /\ DOMAIN transItems = 1..Len(transItems)
      /\ \A i \in DOMAIN transItems : transItems[i] \in DOMAIN trans
      /\ transItems \in Seq(DOMAIN trans)
  BY ListTypes DEF TypeOK, RegistryTypeOK
<1>2. transItems # <<>> => Len(transItems) \in DOMAIN transItems /\ 1 \in DOMAIN transItems
  BY <1>1
<1>3. GetNewest # NoTrans => GetNewest \in DOMAIN trans /\ transItems # <<>>
  BY <1>1, <1>2 DEF GetNewest, Last
<1> DEFINE A == {t \in DOMAIN trans : IsActive(t)}
           i == FirstMatch(transItems, A)
<1>4. GetActiveTrans = IF i = 0 THEN NoTrans ELSE transItems[i]
  <2>1. {j \in 1..Len(transItems) : transItems[j] \in A} = {j \in 1..Len(transItems) : IsActive(transItems[j])}
    BY <1>1
  <2> HIDE DEF A
  <2> QED
    BY <2>1 DEF GetActiveTrans, SelectInSeq, FirstMatch
<1>5. i \in 0..Len(transItems) /\ (i # 0 => transItems[i] \in A)
  <2> HIDE DEF A
  <2> QED
    BY <1>1, FirstMatchProperties
<1> HIDE DEF i
<1>6. GetActiveTrans # NoTrans => GetActiveTrans \in A
  BY <1>4, <1>5
<1> QED
  BY <1>1, <1>2, <1>3, <1>6

(* The changes the handlers make to a transaction.                         *)
OnlyChanges(t) ==
    /\ trans' \in Seq(Transaction) /\ Len(trans') = Len(trans)
    /\ DOMAIN trans' = DOMAIN trans
    /\ \A u \in DOMAIN trans : u # t => trans'[u] = trans[u]
    /\ trans'[t].session = trans[t].session

LEMMA Ended ==
    ASSUME TypeOK, NEW t \in DOMAIN trans, NEW st \in Status, trans' = [trans EXCEPT ![t].st = st]
    PROVE  /\ OnlyChanges(t)
           /\ trans'[t] = [trans[t] EXCEPT !.st = st]
<1> DEFINE tr == [trans[t] EXCEPT !.st = st]
<1>1. trans[t] \in Transaction
  BY ListTypes
<1>2. tr \in Transaction /\ tr.session = trans[t].session
  BY <1>1 DEF Transaction
<1>3. trans' = [trans EXCEPT ![t] = tr]
  OBVIOUS
<1> HIDE DEF tr
<1>4. /\ OnlyChanges(t)
      /\ trans'[t] = tr
  BY <1>2, <1>3, Changed DEF OnlyChanges
<1> QED
  BY <1>4 DEF tr

LEMMA ValueAdded ==
    ASSUME TypeOK, NEW t \in DOMAIN trans, trans' = [trans EXCEPT ![t].meterVals = @ + 1]
    PROVE  /\ OnlyChanges(t)
           /\ trans'[t] = [trans[t] EXCEPT !.meterVals = @ + 1]
<1> DEFINE tr == [trans[t] EXCEPT !.meterVals = @ + 1]
<1>1. trans[t] \in Transaction
  BY ListTypes
<1>2. tr \in Transaction /\ tr.session = trans[t].session
  BY <1>1 DEF Transaction
<1>3. trans' = [trans EXCEPT ![t] = tr]
  OBVIOUS
<1> HIDE DEF tr
<1>4. /\ OnlyChanges(t)
      /\ trans'[t] = tr
  BY <1>2, <1>3, Changed DEF OnlyChanges
<1> QED
  BY <1>4 DEF tr

LEMMA IdSet ==
    ASSUME TypeOK, NEW t \in DOMAIN trans, NEW id \in Int, SetTransactionId(t, id)
    PROVE  /\ OnlyChanges(t)
           /\ trans'[t] = [trans[t] EXCEPT !.transactionId = id, !.lastSentMeterValIdx = -1]
<1> DEFINE tr == [trans[t] EXCEPT !.transactionId = id, !.lastSentMeterValIdx = -1]
<1>1. trans[t] \in Transaction
  BY ListTypes
<1>2. tr \in Transaction /\ tr.session = trans[t].session
  <2> DEFINE ti == [trans[t] EXCEPT !.transactionId = id]
  <2>1. ti \in Transaction /\ ti.session = trans[t].session
    BY <1>1 DEF Transaction
  <2>2. tr = [ti EXCEPT !.lastSentMeterValIdx = -1]
    OBVIOUS
  <2> HIDE DEF ti, tr
  <2> QED
    BY <2>1, <2>2 DEF Transaction
<1>3. trans' = [trans EXCEPT ![t] = tr]
  BY ListTypes DEF SetTransactionId
<1> HIDE DEF tr
<1>4. /\ OnlyChanges(t)
      /\ trans'[t] = tr
  BY <1>2, <1>3, Changed DEF OnlyChanges
<1> QED
  BY <1>4 DEF tr

LEMMA Confirmed ==
    ASSUME TypeOK, NEW t \in DOMAIN trans, NEW idx \in Int,
           trans' = [trans EXCEPT ![t].lastSentMeterValIdx = idx]
    PROVE  /\ OnlyChanges(t)
           /\ trans'[t] = [trans[t] EXCEPT !.lastSentMeterValIdx = idx]
<1> DEFINE tr == [trans[t] EXCEPT !.lastSentMeterValIdx = idx]
<1>1. trans[t] \in Transaction
  BY ListTypes
<1>2. tr \in Transaction /\ tr.session = trans[t].session
  BY <1>1 DEF Transaction
<1>3. trans' = [trans EXCEPT ![t] = tr]
  OBVIOUS
<1> HIDE DEF tr
<1>4. /\ OnlyChanges(t)
      /\ trans'[t] = tr
  BY <1>2, <1>3, Changed DEF OnlyChanges
<1> QED
  BY <1>4 DEF tr

-----------------------------------------------------------------------------
(* Types *)

CursorInUse == sendProgress # "Idle" => curTrans # NoTrans

(* Only these steps change the registry.                                   *)
LEMMA RegistryUnchanged ==
    ASSUME Next, ~UNCHANGED registryVars
    PROVE  \/ \E s \in Session : ChargeCommandAccepted(s)
           \/ ResumedCommandAccepted \/ ChargeCommandCanceled
           \/ ChargeFinished /\ Finish /\ OnChargingEnded(currentTransc)
           \/ MeterSampleTimeout
           \/ Process /\ (ProcessCompleted \/ ProcessError)
           \/ Reply
           \/ Restart \/ RestartResuming
  BY DEF Next, Charger, Reporting, ChargingBegins, ChargeFinished, ModifyRecord, ClearRecord,
     Process, WsConnected, WsDisconnected, OtherReply, CsReceives, OnCheckTransactionTimeout,
     ConnectionFailTimeout, ReplyNotReported

(* removeBy and reset at the end of a report *)
LEMMA ReportDone ==
    ASSUME Process, ProcessCompleted \/ ProcessError
    PROVE  /\ \E M : RemoveBy(M)
           /\ UNCHANGED <<trans, meterSampleTimer, calls>>
           /\ currentTransc' \in {currentTransc, NoTrans}
           /\ \E n \in {processPending, processPending - 1} : ResetAndTakeOldest(transItems', n)
  BY DEF ProcessCompleted, ProcessError, OnTransactionCompleted, OnTransactionError

(* What an answer does to the registry.                                    *)
LEMMA Answered ==
    ASSUME TypeOK, CursorInUse, Reply
    PROVE  /\ UNCHANGED <<transItems, currentTransc, meterSampleTimer, offlineFile>>
           /\ \/ UNCHANGED trans
              \/ /\ sendProgress = "StartTxWaitReply" /\ curTrans \in DOMAIN trans
                 /\ Head(calls).action = "StartTransaction" /\ Head(calls).received
                 /\ Head(calls).transactionId \in Int
                 /\ IdTag[Head(calls).session] = AuthId(curTrans)
                 /\ SetTransactionId(curTrans, Head(calls).transactionId)
                 /\ sendProgress' = "Meter" /\ UNCHANGED curTrans
              \/ /\ sendProgress = "MeterWaitReply" /\ curTrans \in DOMAIN trans
                 /\ trans' = [trans EXCEPT ![curTrans].lastSentMeterValIdx = NextMeterValIdx]
                 /\ NextMeterValIdx \in Int /\ UNCHANGED curTrans
<1>1. calls # <<>> => Head(calls) \in CallMessage
  BY HeadTailProperties DEF TypeOK, RequesterTypeOK
<1>2. curTrans \in DOMAIN trans \cup {NoTrans} /\ NextMeterValIdx \in Int
  BY DEF TypeOK, RequesterTypeOK, NextMeterValIdx
<1>3. /\ UNCHANGED <<transItems, currentTransc, meterSampleTimer, offlineFile>>
      /\ calls # <<>> /\ Head(calls).received
      /\ \/ /\ Head(calls).action = "StartTransaction"
            /\ OnStartTransactionResponded(IdTag[Head(calls).session], Head(calls).transactionId)
         \/ OnMeterValueResponded(Head(calls).transactionId)
         \/ UNCHANGED trans
  BY DEF Reply, OnStopTransactionResponded
<1>4. CASE /\ Head(calls).action = "StartTransaction"
           /\ OnStartTransactionResponded(IdTag[Head(calls).session], Head(calls).transactionId)
  <2>1. Head(calls).transactionId \in Int
    BY <1>1, <1>3 DEF CallMessage
  <2> QED
    BY <1>2, <1>3, <1>4, <2>1 DEF OnStartTransactionResponded, CursorInUse, GoTo
<1>5. CASE OnMeterValueResponded(Head(calls).transactionId)
  BY <1>2, <1>3, <1>5 DEF OnMeterValueResponded, CursorInUse
<1> QED
  BY <1>3, <1>4, <1>5

LEMMA RegistryType ==
    ASSUME TypeOK, CursorInUse, ConnectorInv, Next
    PROVE  RegistryTypeOK'
<1> USE DEF RegistryTypeOK
<1>1. RegistryTypeOK /\ Len(trans) \in Nat /\ DOMAIN trans = 1..Len(trans)
  BY ListTypes DEF TypeOK
<1>2. ASSUME NEW t \in DOMAIN trans, OnlyChanges(t),
             UNCHANGED <<transItems, currentTransc>>, meterSampleTimer' \in BOOLEAN,
             offlineFile' \in Seq(FileRecord)
      PROVE  RegistryTypeOK'
  BY <1>1, <1>2 DEF OnlyChanges
<1>3. ASSUME NEW s \in Session, NEW id \in Int, AddActive(s, id),
             currentTransc' \in {currentTransc, Len(trans) + 1}
      PROVE  RegistryTypeOK'
  BY <1>1, <1>3, Added DEF AddActive
<1>4. ASSUME NEW s \in Session, ChargeCommandAccepted(s)
      PROVE  RegistryTypeOK'
  BY <1>3, <1>4 DEF ChargeCommandAccepted, StartNew
<1>5. CASE ResumedCommandAccepted
  <2>1. connector.session \in Session /\ connector.resumedId \in Int
    BY <1>5 DEF ResumedCommandAccepted, ConnectorInv, TypeOK
  <2> QED
    BY <1>3, <1>5, <2>1 DEF ResumedCommandAccepted, ResumeTransaction
<1>6. CASE ChargeCommandCanceled
  <2>1. /\ GetNewest \in DOMAIN trans /\ trans' = [trans EXCEPT ![GetNewest].st = "Canceled"]
        /\ meterSampleTimer' = FALSE
        /\ UNCHANGED <<transItems, currentTransc, offlineFile>>
    BY <1>6, NewestAndActive DEF ChargeCommandCanceled, Cancel
  <2>2. OnlyChanges(GetNewest)
    BY <2>1, Ended DEF Status
  <2> QED
    BY <1>1, <1>2, <2>1, <2>2
<1>7. CASE ChargeFinished /\ Finish
  <2>1. /\ currentTransc \in DOMAIN trans /\ trans' = [trans EXCEPT ![currentTransc].st = "Finished"]
        /\ meterSampleTimer' = FALSE /\ UNCHANGED <<transItems, currentTransc>>
        /\ offlineFile' = Append(offlineFile, ToFileRecord(trans, currentTransc))
    BY <1>1, <1>7 DEF Finish, CanFinish
  <2>2. OnlyChanges(currentTransc)
    BY <2>1, Ended DEF Status
  <2>3. offlineFile' \in Seq(FileRecord)
    <3>1. trans[currentTransc] \in Transaction
      BY <2>1, ListTypes
    <3>2. ToFileRecord(trans, currentTransc) \in FileRecord
      BY <3>1 DEF ToFileRecord, FileRecord, Transaction
    <3> QED
      BY <1>1, <2>1, <3>2, AppendProperties
  <2> QED
    BY <1>1, <1>2, <2>1, <2>2, <2>3
<1>8. CASE MeterSampleTimeout
  <2>1. /\ GetNewest \in DOMAIN trans /\ trans' = [trans EXCEPT ![GetNewest].meterVals = @ + 1]
        /\ UNCHANGED <<transItems, currentTransc, meterSampleTimer, offlineFile>>
    BY <1>8, NewestAndActive DEF MeterSampleTimeout, UpdateActiveTransactionMeterValue
  <2>2. OnlyChanges(GetNewest)
    BY <2>1, ValueAdded
  <2> QED
    BY <1>1, <1>2, <2>1, <2>2
<1>9. CASE Process /\ (ProcessCompleted \/ ProcessError)
  <2>1. PICK M : RemoveBy(M)
    BY <1>9, ReportDone
  <2>2. UNCHANGED <<trans, meterSampleTimer>> /\ currentTransc' \in {currentTransc, NoTrans}
    BY <1>9, ReportDone
  <2> QED
    BY <1>1, <2>1, <2>2, Removed
<1>10. CASE Reply
  <2>1. \/ UNCHANGED trans
        \/ curTrans \in DOMAIN trans /\ OnlyChanges(curTrans)
    BY <1>10, Answered, IdSet, Confirmed
  <2> QED
    BY <1>1, <1>2, <1>10, <2>1, Answered
<1>11. CASE Restart
  <2>1. transItems' \in Seq(DOMAIN Loaded)
    <3>1. transItems' = [i \in 1..Len(Loaded) |-> i] /\ Len(Loaded) \in Nat
          /\ DOMAIN Loaded = 1..Len(Loaded)
      BY <1>11, LoadedProperties DEF Restart
    <3> QED
      BY <3>1, SeqDef
  <2>2. trans' = Loaded /\ currentTransc' = NoTrans /\ meterSampleTimer' = FALSE
        /\ (UNCHANGED offlineFile \/ TornAppend)
    BY <1>11 DEF Restart, StartUp
  <2>3. TornAppend => offlineFile' \in Seq(FileRecord)
    <3> SUFFICES ASSUME TornAppend PROVE offlineFile' \in Seq(FileRecord)
      OBVIOUS
    <3>1. currentTransc \in DOMAIN trans
      BY <1>1 DEF TornAppend, CanFinish
    <3>2. trans[currentTransc] \in Transaction
      BY <3>1, ListTypes
    <3>3. [ToFileRecord(trans, currentTransc) EXCEPT !.whole = FALSE] \in FileRecord
      BY <3>2 DEF ToFileRecord, FileRecord, Transaction
    <3> QED
      BY <1>1, <3>3, AppendProperties DEF TornAppend
  <2> QED
    BY <1>1, <2>1, <2>2, <2>3, LoadedProperties
<1>12. CASE RestartResuming
  <2> DEFINE s == progressFile.session
             id == progressFile.transactionId
             new == Len(Loaded) + 1
  <2>1. s \in Session /\ id \in Int
    BY <1>12 DEF RestartResuming, ConnectorInv, TypeOK, NoRecord
  <2>2. /\ trans' = Append(Loaded, Started(s, id))
        /\ transItems' = [i \in 1..new |-> i]
        /\ currentTransc' = NoTrans /\ meterSampleTimer' = TRUE
        /\ UNCHANGED offlineFile
    BY <1>12 DEF RestartResuming, StartUp
  <2>3. Started(s, id) \in Transaction
    BY <2>1 DEF Started, Transaction, Status
  <2> HIDE DEF s, id
  <2>4. /\ trans' \in Seq(Transaction) /\ Len(trans') = Len(Loaded) + 1
        /\ Len(Loaded) \in Nat /\ DOMAIN trans' = 1..Len(trans')
    BY <2>2, <2>3, LoadedProperties, AppendProperties, LenProperties
  <2>5. transItems' \in Seq(DOMAIN trans')
    <3>1. transItems' \in [1..new -> 1..new]
      BY <2>2
    <3> QED
      BY <2>4, <3>1, SeqDef
  <2> QED
    BY <1>1, <2>2, <2>4, <2>5
<1>13. CASE UNCHANGED registryVars
  BY <1>1, <1>13 DEF registryVars
<1> QED
  BY <1>4, <1>5, <1>6, <1>7, <1>8, <1>9, <1>10, <1>11, <1>12, <1>13, RegistryUnchanged

(* Between restarts no transaction is forgotten, and what has ended stays. *)
LEMMA TransStep ==
    ASSUME TypeOK, CursorInUse, ConnectorInv, Next, ~Restart, ~RestartResuming,
           NEW t \in DOMAIN trans
    PROVE  /\ t \in DOMAIN trans'
           /\ trans'[t].session = trans[t].session
           /\ ~IsActive(t) => trans'[t].st = trans[t].st
<1>1. trans[t] \in Transaction
  BY ListTypes
<1>2. ASSUME NEW s \in Session, NEW id \in Int, AddActive(s, id)
      PROVE  t \in DOMAIN trans' /\ trans'[t] = trans[t]
  BY <1>2, Added
<1>3. ASSUME NEW s \in Session, ChargeCommandAccepted(s)
      PROVE  t \in DOMAIN trans' /\ trans'[t] = trans[t]
  BY <1>2, <1>3 DEF ChargeCommandAccepted, StartNew
<1>4. CASE ResumedCommandAccepted
  <2>1. connector.session \in Session /\ connector.resumedId \in Int
    BY <1>4 DEF ResumedCommandAccepted, ConnectorInv, TypeOK
  <2> QED
    BY <1>2, <1>4, <2>1 DEF ResumedCommandAccepted, ResumeTransaction
<1>5. CASE ChargeCommandCanceled
  <2>1. GetNewest \in DOMAIN trans /\ IsActive(GetNewest)
        /\ trans' = [trans EXCEPT ![GetNewest].st = "Canceled"]
    BY <1>5, NewestAndActive DEF ChargeCommandCanceled, Cancel
  <2> QED
    BY <2>1, Ended DEF Status, OnlyChanges
<1>6. CASE ChargeFinished /\ Finish
  <2>1. currentTransc \in DOMAIN trans /\ IsActive(currentTransc)
        /\ trans' = [trans EXCEPT ![currentTransc].st = "Finished"]
    BY <1>6 DEF Finish, CanFinish, TypeOK, RegistryTypeOK
  <2> QED
    BY <2>1, Ended DEF Status, OnlyChanges
<1>7. CASE MeterSampleTimeout
  <2>1. GetNewest \in DOMAIN trans /\ IsActive(GetNewest)
        /\ trans' = [trans EXCEPT ![GetNewest].meterVals = @ + 1]
    BY <1>7, NewestAndActive DEF MeterSampleTimeout, UpdateActiveTransactionMeterValue
  <2> QED
    BY <2>1, ValueAdded DEF OnlyChanges
<1>8. CASE Process /\ (ProcessCompleted \/ ProcessError)
  BY <1>8, ReportDone
<1>9. CASE Reply
  <2>1. CASE UNCHANGED trans
    BY <2>1
  <2>2. CASE curTrans \in DOMAIN trans /\ Head(calls).transactionId \in Int
             /\ SetTransactionId(curTrans, Head(calls).transactionId)
    <3>1. OnlyChanges(curTrans) /\ trans'[curTrans].st = trans[curTrans].st
      <4>1. trans[curTrans] \in Transaction
        BY <2>2, ListTypes
      <4> QED
        BY <2>2, <4>1, IdSet DEF Transaction
    <3> QED
      BY <3>1 DEF OnlyChanges
  <2>3. CASE curTrans \in DOMAIN trans /\ NextMeterValIdx \in Int
             /\ trans' = [trans EXCEPT ![curTrans].lastSentMeterValIdx = NextMeterValIdx]
    <3>1. OnlyChanges(curTrans) /\ trans'[curTrans].st = trans[curTrans].st
      <4>1. trans[curTrans] \in Transaction
        BY <2>3, ListTypes
      <4> QED
        BY <2>3, <4>1, Confirmed DEF Transaction
    <3> QED
      BY <3>1 DEF OnlyChanges
  <2> QED
    BY <1>9, <2>1, <2>2, <2>3, Answered
<1>10. CASE UNCHANGED registryVars
  BY <1>10 DEF registryVars
<1> QED
  BY <1>3, <1>4, <1>5, <1>6, <1>7, <1>8, <1>9, <1>10, RegistryUnchanged

(* The queue of calls between restarts *)
LEMMA QueueStep ==
    ASSUME TypeOK, Next, ~Restart, ~RestartResuming
    PROVE  \/ UNCHANGED calls
           \/ /\ sendProgress = "StartTx" /\ HasAuthorizationId(curTrans) /\ Process
              /\ Submit("StartTransaction", -1) /\ sendProgress' = "StartTxWaitReply"
              /\ UNCHANGED <<trans, curTrans, csTrans>>
           \/ /\ sendProgress = "Meter" /\ Process
              /\ Submit("MeterValues", NextMeterValIdx) /\ sendProgress' = "MeterWaitReply"
              /\ UNCHANGED <<trans, curTrans, csTrans>>
           \/ /\ sendProgress = "StopTx" /\ HasAuthorizationId(curTrans) /\ Process
              /\ Submit("StopTransaction", -1) /\ sendProgress' = "StopTxWaitReply"
              /\ UNCHANGED <<trans, curTrans, csTrans>>
           \/ CsReceives
           \/ (Reply \/ ReplyNotReported) /\ calls # <<>> /\ calls' = Tail(calls)
<1>1. CASE Process
  <2>1. Process => UNCHANGED csTrans
    BY DEF Process
  <2>2. CASE /\ ProcessIdle \/ ProcessStartTx \/ ProcessMeter \/ ProcessStopTx \/ ProcessWaitReply
             /\ UNCHANGED registryVars
    BY <1>1, <2>1, <2>2 DEF ProcessIdle, ProcessStartTx, ProcessMeter, ProcessStopTx, ProcessWaitReply, Step,
       registryVars
  <2>3. CASE ProcessCompleted \/ ProcessError
    BY <2>3 DEF ProcessCompleted, ProcessError
  <2> QED
    BY <1>1, <2>2, <2>3 DEF Process
<1>2. CASE ~Process
  BY <1>2 DEF Next, Charger, Reporting, ChargeCommandAccepted, ResumedCommandAccepted,
     ChargeCommandCanceled, ChargingBegins, ChargeFinished, MeterSampleTimeout, ModifyRecord, ClearRecord,
     WsConnected, WsDisconnected, OtherReply, OnCheckTransactionTimeout,
     ConnectionFailTimeout, Reply, ReplyNotReported, netVars
<1> QED
  BY <1>1, <1>2

LEMMA CallType ==
    ASSUME TypeOK, curTrans \in DOMAIN trans,
           NEW action \in {"StartTransaction", "MeterValues", "StopTransaction"}, NEW idx \in Int,
           Submit(action, idx)
    PROVE  LET new == Call(action, trans[curTrans].session, trans[curTrans].transactionId, idx) IN
           /\ new \in CallMessage
           /\ calls' \in Seq(CallMessage) /\ Len(calls') = Len(calls) + 1
           /\ DOMAIN calls' = DOMAIN calls \cup {Len(calls) + 1} /\ Len(calls) + 1 \notin DOMAIN calls
           /\ \A i \in DOMAIN calls : calls'[i] = calls[i]
           /\ calls'[Len(calls) + 1] = new
<1> DEFINE new == Call(action, trans[curTrans].session, trans[curTrans].transactionId, idx)
<1>1. new \in CallMessage
  <2>1. trans[curTrans] \in Transaction
    BY ListTypes
  <2> QED
    BY <2>1 DEF Call, CallMessage, Transaction
<1>2. calls \in Seq(CallMessage) /\ calls' = Append(calls, new)
  BY DEF Submit, TypeOK, RequesterTypeOK
<1>3. Len(calls) \in Nat /\ DOMAIN calls = 1..Len(calls)
  BY ListTypes
<1> HIDE DEF new
<1>4. /\ calls' \in Seq(CallMessage) /\ Len(calls') = Len(calls) + 1
      /\ \A i \in 1..Len(calls) : calls'[i] = calls[i]
      /\ calls'[Len(calls) + 1] = new
  BY <1>1, <1>2, AppendProperties
<1>5. DOMAIN calls' = 1..Len(calls')
  BY <1>4, LenProperties
<1>6. DOMAIN calls' = DOMAIN calls \cup {Len(calls) + 1} /\ Len(calls) + 1 \notin DOMAIN calls
  BY <1>3, <1>4, <1>5
<1> QED
  BY <1>1, <1>3, <1>4, <1>6 DEF new

(* The CS has the first call. *)
LEMMA Received ==
    ASSUME TypeOK, CsReceives
    PROVE  /\ calls' \in Seq(CallMessage) /\ Len(calls') = Len(calls) /\ calls # <<>>
           /\ DOMAIN calls' = DOMAIN calls
           /\ \A i \in DOMAIN calls :
                /\ calls'[i].action = calls[i].action
                /\ calls'[i].session = calls[i].session
                /\ calls'[i].meterVal = calls[i].meterVal
                /\ i # 1 => calls'[i] = calls[i]
                /\ calls[i].action # "StartTransaction" => calls'[i].transactionId = calls[i].transactionId
           /\ \/ /\ calls[1].action = "StartTransaction"
                 /\ calls'[1].transactionId = Len(csTrans) + 1
                 /\ csTrans' = Append(csTrans, [session |-> calls[1].session, meterVal |-> -1, stopped |-> FALSE])
              \/ /\ calls[1].action # "StartTransaction"
                 /\ csTrans' = IF calls[1].transactionId \notin DOMAIN csTrans THEN csTrans
                               ELSE [csTrans EXCEPT
                                      ![calls[1].transactionId].meterVal =
                                            IF calls[1].action = "MeterValues" THEN calls[1].meterVal ELSE @,
                                      ![calls[1].transactionId].stopped =
                                            @ \/ calls[1].action = "StopTransaction"]
<1>1. /\ calls \in Seq(CallMessage) /\ Len(calls) \in Nat /\ DOMAIN calls = 1..Len(calls)
      /\ calls # <<>> /\ Len(csTrans) \in Nat
  BY ListTypes DEF TypeOK, RequesterTypeOK, CsReceives
<1>2. 1 \in DOMAIN calls /\ Head(calls) = calls[1] /\ calls[1] \in CallMessage
  BY <1>1, ListTypes
<1>3. PICK c \in CallMessage :
        /\ calls' = [calls EXCEPT ![1] = c]
        /\ c.action = calls[1].action /\ c.session = calls[1].session /\ c.meterVal = calls[1].meterVal
        /\ c.transactionId = IF calls[1].action = "StartTransaction" THEN Len(csTrans) + 1
                             ELSE calls[1].transactionId
  <2>1. CASE calls[1].action = "StartTransaction"
    <3> DEFINE c1 == [calls[1] EXCEPT !.received = TRUE]
               id == Len(csTrans) + 1
               c == [c1 EXCEPT !.transactionId = id]
    <3>1. c1 \in CallMessage /\ c1.action = calls[1].action /\ c1.session = calls[1].session /\ c1.meterVal = calls[1].meterVal
      BY <1>2 DEF CallMessage
    <3>2. c \in CallMessage /\ c.action = calls[1].action /\ c.session = calls[1].session /\ c.meterVal = calls[1].meterVal
          /\ c.transactionId = Len(csTrans) + 1
      <4>1. id \in Int
        BY <1>1
      <4> HIDE DEF c1, id
      <4>2. c \in CallMessage /\ c.action = c1.action /\ c.session = c1.session /\ c.meterVal = c1.meterVal
            /\ c.transactionId = id
        BY <3>1, <4>1 DEF CallMessage
      <4> QED
        BY <3>1, <4>2 DEF id
    <3>3. calls' = [calls EXCEPT ![1].received = TRUE, ![1].transactionId = Len(csTrans) + 1]
      BY <1>2, <2>1 DEF CsReceives
    <3>4. calls' = [calls EXCEPT ![1] = c]
      BY <1>2, <3>3
    <3> HIDE DEF c
    <3> QED
      BY <2>1, <3>2, <3>4
  <2>2. CASE calls[1].action # "StartTransaction"
    <3> DEFINE c == [calls[1] EXCEPT !.received = TRUE]
    <3>1. c \in CallMessage /\ c.action = calls[1].action /\ c.session = calls[1].session /\ c.meterVal = calls[1].meterVal
          /\ c.transactionId = calls[1].transactionId
      BY <1>2 DEF CallMessage
    <3>2. calls' = [calls EXCEPT ![1] = c]
      BY <1>2, <2>2 DEF CsReceives
    <3> HIDE DEF c
    <3> QED
      BY <2>2, <3>1, <3>2
  <2> QED
    BY <2>1, <2>2
<1>4. /\ calls' \in Seq(CallMessage) /\ Len(calls') = Len(calls)
      /\ \A j \in 1..Len(calls) : calls'[j] = IF j = 1 THEN c ELSE calls[j]
  BY <1>1, <1>2, <1>3, ExceptSeq
<1>5. DOMAIN calls' = DOMAIN calls
  BY <1>1, <1>4, LenProperties
<1>6. \/ /\ calls[1].action = "StartTransaction"
         /\ csTrans' = Append(csTrans, [session |-> calls[1].session, meterVal |-> -1, stopped |-> FALSE])
      \/ /\ calls[1].action # "StartTransaction"
         /\ csTrans' = IF calls[1].transactionId \notin DOMAIN csTrans THEN csTrans
                       ELSE [csTrans EXCEPT
                              ![calls[1].transactionId].meterVal =
                                    IF calls[1].action = "MeterValues" THEN calls[1].meterVal ELSE @,
                              ![calls[1].transactionId].stopped =
                                    @ \/ calls[1].action = "StopTransaction"]
  BY <1>2 DEF CsReceives
<1> QED
  BY <1>1, <1>3, <1>4, <1>5, <1>6

CsTransaction == [session: Session, meterVal: Int, stopped: BOOLEAN]

(* The CS forgets nothing, and what it gets new is the call it receives.   *)
LEMMA CsStep ==
    ASSUME TypeOK, Next
    PROVE  /\ csTrans' \in Seq(CsTransaction) /\ DOMAIN csTrans \subseteq DOMAIN csTrans'
           /\ \A i \in DOMAIN csTrans :
                /\ csTrans'[i].session = csTrans[i].session
                /\ csTrans'[i].stopped =>
                     \/ csTrans[i].stopped
                     \/ /\ CsReceives /\ 1 \in DOMAIN calls
                        /\ calls[1].action = "StopTransaction" /\ calls[1].transactionId = i
           /\ \A i \in DOMAIN csTrans' : i \notin DOMAIN csTrans =>
                /\ CsReceives /\ 1 \in DOMAIN calls
                /\ calls[1].action = "StartTransaction"
                /\ i = Len(csTrans) + 1
                /\ csTrans'[i].session = calls[1].session /\ csTrans'[i].stopped = FALSE
<1>1. /\ csTrans \in Seq(CsTransaction) /\ Len(csTrans) \in Nat /\ DOMAIN csTrans = 1..Len(csTrans)
      /\ \A i \in DOMAIN csTrans : csTrans[i] \in CsTransaction
  BY ListTypes DEF TypeOK, CsTransaction
<1>2. CASE UNCHANGED csTrans
  BY <1>1, <1>2
<1>3. CASE ~UNCHANGED csTrans
  <2>1. CsReceives
    BY <1>3 DEF Next, Charger, Reporting, ChargeCommandAccepted, ResumedCommandAccepted,
       ChargeCommandCanceled, ChargingBegins, ChargeFinished, MeterSampleTimeout, ModifyRecord,
       ClearRecord, Process, WsConnected, WsDisconnected, OtherReply, OnCheckTransactionTimeout,
       ConnectionFailTimeout, Reply, ReplyNotReported, Restart, RestartResuming, StartUp
  <2>2. calls # <<>> /\ DOMAIN calls = 1..Len(calls) /\ Len(calls) \in Nat /\ calls \in Seq(CallMessage)
    BY <2>1, Received, ListTypes DEF TypeOK, RequesterTypeOK
  <2>3. 1 \in DOMAIN calls /\ calls[1] \in CallMessage
    BY <2>2, ListTypes
  <2>4. CASE calls[1].action = "StartTransaction"
    <3> DEFINE new == [session |-> calls[1].session, meterVal |-> -1, stopped |-> FALSE]
    <3>1. new \in CsTransaction /\ csTrans' = Append(csTrans, new)
      BY <2>1, <2>3, <2>4, Received DEF CsTransaction, CallMessage
    <3>2. new.session = calls[1].session /\ new.stopped = FALSE
      OBVIOUS
    <3> HIDE DEF new
    <3>3. /\ csTrans' \in Seq(CsTransaction) /\ Len(csTrans') = Len(csTrans) + 1
          /\ \A i \in 1..Len(csTrans) : csTrans'[i] = csTrans[i]
          /\ csTrans'[Len(csTrans) + 1] = new
      BY <1>1, <3>1, AppendProperties
    <3>4. DOMAIN csTrans' = 1..(Len(csTrans) + 1)
      BY <3>3, LenProperties
    <3> QED
      BY <1>1, <2>1, <2>3, <2>4, <3>2, <3>3, <3>4
  <2>5. CASE calls[1].action # "StartTransaction"
    <3> DEFINE id == calls[1].transactionId
               val == IF calls[1].action = "MeterValues" THEN calls[1].meterVal ELSE csTrans[id].meterVal
               stop == csTrans[id].stopped \/ calls[1].action = "StopTransaction"
               new == [csTrans[id] EXCEPT !.meterVal = val, !.stopped = stop]
    <3>1. id \in DOMAIN csTrans /\ csTrans' = [csTrans EXCEPT ![id] = new]
      <4>1. csTrans' = IF calls[1].transactionId \notin DOMAIN csTrans THEN csTrans
                       ELSE [csTrans EXCEPT
                              ![calls[1].transactionId].meterVal =
                                    IF calls[1].action = "MeterValues" THEN calls[1].meterVal ELSE @,
                              ![calls[1].transactionId].stopped =
                                    @ \/ calls[1].action = "StopTransaction"]
        BY <2>1, <2>5, Received
      <4>2. id \in DOMAIN csTrans
        BY <1>3, <4>1
      <4> QED
        BY <4>1, <4>2
    <3>2. new \in CsTransaction /\ new.session = csTrans[id].session /\ new.stopped = stop
      <4>1. csTrans[id] \in CsTransaction /\ val \in Int
        BY <1>1, <2>3, <3>1 DEF CsTransaction, CallMessage
      <4>2. stop \in BOOLEAN
        OBVIOUS
      <4> HIDE DEF val, stop
      <4> DEFINE n1 == [csTrans[id] EXCEPT !.meterVal = val]
      <4>3. n1 \in CsTransaction /\ n1.session = csTrans[id].session
        BY <4>1 DEF CsTransaction
      <4>4. new = [n1 EXCEPT !.stopped = stop]
        OBVIOUS
      <4> HIDE DEF n1, new, id
      <4> QED
        BY <4>2, <4>3, <4>4 DEF CsTransaction
    <3>3. new.stopped => csTrans[id].stopped \/ calls[1].action = "StopTransaction"
      BY <3>2
    <3> HIDE DEF new, stop
    <3>4. /\ csTrans' \in Seq(CsTransaction) /\ Len(csTrans') = Len(csTrans)
          /\ \A j \in 1..Len(csTrans) : csTrans'[j] = IF j = id THEN new ELSE csTrans[j]
      BY <1>1, <3>1, <3>2, ExceptSeq
    <3>5. DOMAIN csTrans' = DOMAIN csTrans
      BY <1>1, <3>4, LenProperties
    <3>6. ASSUME NEW i \in DOMAIN csTrans
          PROVE  /\ csTrans'[i].session = csTrans[i].session
                 /\ csTrans'[i].stopped =>
                      \/ csTrans[i].stopped
                      \/ calls[1].action = "StopTransaction" /\ id = i
      <4>1. CASE i = id
        BY <1>1, <3>2, <3>3, <3>4, <4>1
      <4>2. CASE i # id
        BY <1>1, <3>4, <4>2
      <4> QED
        BY <4>1, <4>2
    <3> QED
      BY <2>1, <2>3, <3>4, <3>5, <3>6
  <2> QED
    BY <2>4, <2>5
<1> QED
  BY <1>2, <1>3

(* The types of what is neither the registry's nor the requester's.        *)
RestTypeOK ==
    /\ connector \in [phase: {"idle", "accepted", "resuming", "charging"},
                      session: Session \cup {NoSession}, resumedId: Int]
    /\ progressFile \in [session: Session \cup {NoSession}, transactionId: Int, resumed: BOOLEAN]
    /\ ocppOnline \in BOOLEAN /\ ws \in BOOLEAN /\ checkPending \in BOOLEAN /\ unreported \in BOOLEAN
    /\ restarts \in 0..MaxRestarts
    /\ resumed \subseteq Session

LEMMA RestType ==
    ASSUME TypeOK, ConnectorInv, Next
    PROVE  RestTypeOK'
<1> USE DEF RestTypeOK
<1>1. RestTypeOK
  BY DEF TypeOK, RequesterTypeOK
<1>2. CASE /\ UNCHANGED <<connector, progressFile, restarts, resumed>>
           /\ {ocppOnline', ws', checkPending', unreported'}
                 \subseteq {ocppOnline, ws, checkPending, unreported, TRUE, FALSE}
  BY <1>1, <1>2
<1>3. CASE \/ Process \/ MeterSampleTimeout
           \/ WsConnected \/ WsDisconnected \/ OtherReply \/ CsReceives \/ Reply
           \/ OnCheckTransactionTimeout \/ ConnectionFailTimeout \/ ReplyNotReported
  BY <1>2, <1>3 DEF Process, MeterSampleTimeout, WsConnected, WsDisconnected, OtherReply, CsReceives,
     Reply, OnCheckTransactionTimeout, ConnectionFailTimeout, ReplyNotReported, connVars, netVars,
     historyVars
<1>4. ASSUME UNCHANGED <<ocppOnline, ws, checkPending, unreported, restarts, resumed>>,
             connector' \in [phase: {"idle", "accepted", "resuming", "charging"},
                             session: Session \cup {NoSession}, resumedId: Int],
             progressFile' \in [session: Session \cup {NoSession}, transactionId: Int, resumed: BOOLEAN]
      PROVE  RestTypeOK'
  BY <1>1, <1>4
<1>5. ASSUME NEW s \in Session, ChargeCommandAccepted(s)
      PROVE  RestTypeOK'
  <2>1. connector' = [phase |-> "accepted", session |-> s, resumedId |-> -1]
        /\ UNCHANGED <<ocppOnline, ws, checkPending, unreported, restarts, resumed, progressFile>>
    BY <1>5 DEF ChargeCommandAccepted, netVars, historyVars
  <2> QED
    BY <1>1, <1>4, <2>1
<1>6. CASE ResumedCommandAccepted \/ ChargingBegins
  <2>1. connector' = [connector EXCEPT !.phase = "charging"]
        /\ UNCHANGED <<ocppOnline, ws, checkPending, unreported, restarts, resumed, progressFile>>
    BY <1>6 DEF ResumedCommandAccepted, ChargingBegins, netVars, historyVars
  <2> QED
    BY <1>1, <1>4, <2>1
<1>7. CASE ChargeCommandCanceled \/ ChargeFinished
  <2>1. connector' = Idle
        /\ UNCHANGED <<ocppOnline, ws, checkPending, unreported, restarts, resumed, progressFile>>
    BY <1>7 DEF ChargeCommandCanceled, ChargeFinished, netVars, historyVars
  <2> QED
    BY <1>1, <1>4, <2>1 DEF Idle
<1>8. CASE ModifyRecord
  <2>1. GetActiveTrans # NoTrans => trans[GetActiveTrans].transactionId \in Int
    BY NewestAndActive, ListTypes DEF Transaction
  <2>2. progressFile' \in [session: Session \cup {NoSession}, transactionId: Int, resumed: BOOLEAN]
    <3>1. (IF GetActiveTrans = NoTrans THEN -1 ELSE trans[GetActiveTrans].transactionId) \in Int
      BY <2>1
    <3>2. connector.session \in Session \cup {NoSession} /\ (connector.resumedId >= 0) \in BOOLEAN
      BY <1>1
    <3> QED
      BY <1>8, <3>1, <3>2 DEF ModifyRecord
  <2>3. UNCHANGED <<connector, ocppOnline, ws, checkPending, unreported, restarts, resumed>>
    BY <1>8 DEF ModifyRecord, netVars, historyVars
  <2> QED
    BY <1>1, <1>4, <2>2, <2>3
<1>9. CASE ClearRecord
  <2>1. progressFile' = NoRecord
        /\ UNCHANGED <<connector, ocppOnline, ws, checkPending, unreported, restarts, resumed>>
    BY <1>9 DEF ClearRecord, netVars, historyVars
  <2> QED
    BY <1>1, <1>4, <2>1 DEF NoRecord
<1>10. ASSUME StartUp
       PROVE  /\ progressFile' \in [session: Session \cup {NoSession}, transactionId: Int, resumed: BOOLEAN]
              /\ ocppOnline' = FALSE /\ ws' = FALSE /\ checkPending' = FALSE /\ unreported' = FALSE
              /\ restarts' \in 0..MaxRestarts
  BY <1>1, <1>10, ReportingAssumption DEF StartUp, NoRecord
<1>11. CASE Restart
  <2>1. connector' = Idle /\ UNCHANGED resumed /\ StartUp
    BY <1>11 DEF Restart
  <2> QED
    BY <1>1, <1>10, <2>1 DEF Idle
<1>12. CASE RestartResuming
  <2>1. progressFile.session \in Session /\ progressFile.transactionId \in Int
    BY <1>12 DEF RestartResuming, ConnectorInv, TypeOK, NoRecord
  <2>2. /\ StartUp /\ resumed' = resumed \cup {progressFile.session}
        /\ connector' \in [phase: {"idle", "accepted", "resuming", "charging"},
                             session: Session \cup {NoSession}, resumedId: Int]
    BY <1>12, <2>1 DEF RestartResuming
  <2> QED
    BY <1>1, <1>10, <2>1, <2>2
<1> QED
  BY <1>3, <1>5, <1>6, <1>7, <1>8, <1>9, <1>11, <1>12 DEF Next, Charger, Reporting

LEMMA TakenOldest ==
    ASSUME NEW D, NEW items \in Seq(D), NEW cur \in D \cup {NoTrans}, NEW idx \in Nat \cup {-1},
           NEW pending \in Nat, TakeOldest(items, cur, idx, pending)
    PROVE  /\ curTrans' \in D \cup {NoTrans}
           /\ meterValIdx' \in Nat \cup {-1}
           /\ processPending' \in Nat
<1>1. items # <<>> => Head(items) \in D
  BY HeadTailProperties
<1> QED
  BY <1>1 DEF TakeOldest

(* The types of the requester's own variables. *)
OwnTypeOK ==
    /\ sendProgress \in SendOcppProgress
    /\ meterValIdx \in Nat \cup {-1}
    /\ curTrans \in DOMAIN trans \cup {NoTrans}
    /\ processPending \in Nat

(* Next is taken by the handler at Idle, and nothing is changed otherwise. *)
LEMMA NextTaken ==
    ASSUME OwnTypeOK, NEW D, DOMAIN trans \subseteq D, NEW items \in Seq(D), NextTransaction(items)
    PROVE  /\ UNCHANGED sendProgress
           /\ curTrans' \in D \cup {NoTrans}
           /\ meterValIdx' \in Nat \cup {-1}
           /\ processPending' \in Nat
<1>1. CASE sendProgress = "Idle"
  <2>1. TakeOldest(items, curTrans, meterValIdx, processPending) /\ UNCHANGED sendProgress
    BY <1>1 DEF NextTransaction
  <2>2. curTrans \in D \cup {NoTrans} /\ meterValIdx \in Nat \cup {-1} /\ processPending \in Nat
    BY DEF OwnTypeOK
  <2> QED
    BY <2>1, <2>2, TakenOldest
<1>2. CASE sendProgress # "Idle"
  BY <1>2 DEF NextTransaction, OwnTypeOK
<1> QED
  BY <1>1, <1>2

LEMMA OwnType ==
    ASSUME TypeOK, CursorInUse, ConnectorInv, Next
    PROVE  OwnTypeOK'
<1> USE DEF OwnTypeOK
<1>1. OwnTypeOK /\ transItems \in Seq(DOMAIN trans) /\ DOMAIN trans = 1..Len(trans) /\ Len(trans) \in Nat
  BY ListTypes DEF TypeOK, RequesterTypeOK, RegistryTypeOK
<1>2. RegistryTypeOK' /\ NextMeterValIdx \in Nat
  BY <1>1, RegistryType DEF NextMeterValIdx
<1>3. CASE Restart
  <2>1. /\ sendProgress' = "Idle" /\ meterValIdx' = -1 /\ curTrans' = NoTrans /\ processPending' = 0
    BY <1>3 DEF Restart
  <2> QED
    BY <2>1 DEF SendOcppProgress
<1>4. CASE RestartResuming
  <2>1. /\ sendProgress' = "Meter" /\ meterValIdx' = -1 /\ processPending' = 1
        /\ curTrans' = Len(Loaded) + 1 /\ transItems' = [i \in 1..(Len(Loaded) + 1) |-> i]
    BY <1>4 DEF RestartResuming
  <2>2. Len(Loaded) + 1 \in DOMAIN transItems' /\ transItems'[Len(Loaded) + 1] = Len(Loaded) + 1
    BY <2>1, LoadedProperties
  <2>3. \A i \in DOMAIN transItems' : transItems'[i] \in DOMAIN trans'
    BY <1>2, ElementOfSeq, LenProperties DEF RegistryTypeOK
  <2> QED
    BY <2>1, <2>2, <2>3 DEF SendOcppProgress
<1>5. CASE ~Restart /\ ~RestartResuming
  <2>1. DOMAIN trans \subseteq DOMAIN trans' /\ transItems' \in Seq(DOMAIN trans')
    BY <1>2, <1>5, TransStep DEF RegistryTypeOK
  <2>2. ASSUME NEW items, items \in Seq(DOMAIN trans'), NextTransaction(items)
        PROVE  OwnTypeOK'
    BY <1>1, <2>1, <2>2, NextTaken
  <2>3. ASSUME NEW t, OnChargingEnded(t)
        PROVE  OwnTypeOK'
    BY <1>1, <2>1, <2>3 DEF OnChargingEnded, GoTo, Unconcerned, requesterVars, SendOcppProgress
  <2>4. CASE UNCHANGED requesterVars
    BY <1>1, <2>1, <2>4 DEF requesterVars
  <2>5. ASSUME NEW s \in Session, ChargeCommandAccepted(s)
        PROVE  OwnTypeOK'
    BY <2>1, <2>2, <2>5 DEF ChargeCommandAccepted
  <2>6. CASE ResumedCommandAccepted
    <3>1. OnChargingResumed(Len(trans) + 1)
      BY <2>6 DEF ResumedCommandAccepted, ResumeTransaction
    <3>2. Len(trans) + 1 \in DOMAIN trans'
      <4>1. connector.session \in Session /\ connector.resumedId \in Int /\ AddActive(connector.session, connector.resumedId)
        BY <2>6 DEF ResumedCommandAccepted, ResumeTransaction, ConnectorInv, TypeOK
      <4> QED
        BY <4>1, Added
    <3> QED
      BY <1>1, <2>4, <3>1, <3>2 DEF OnChargingResumed, GoTo, Unconcerned, SendOcppProgress
  <2>7. CASE ChargeCommandCanceled
    BY <2>3, <2>7 DEF ChargeCommandCanceled
  <2>8. CASE ChargeFinished
    BY <2>3, <2>4, <2>8 DEF ChargeFinished
  <2>9. CASE MeterSampleTimeout
    <3>1. UNCHANGED <<sendProgress, meterValIdx, curTrans>> /\ processPending' \in {processPending, processPending + 1}
      BY <2>9 DEF MeterSampleTimeout, OnMeterValUpdated
    <3> QED
      BY <1>1, <2>1, <3>1
  <2>10. CASE OnCheckTransactionTimeout
    <3>1. NextTransaction(transItems) /\ transItems \in Seq(DOMAIN trans')
      BY <1>1, <2>1, <2>10, SeqMonotonic DEF OnCheckTransactionTimeout
    <3> QED
      BY <2>2, <3>1
  <2>11. CASE Process
    <3>1. processPending \in Nat \ {0}
      BY <1>1, <2>11 DEF Process
    <3>2. CASE ProcessIdle \/ ProcessStartTx \/ ProcessMeter \/ ProcessStopTx \/ ProcessWaitReply
      <4>1. curTrans # NoTrans => trans[curTrans].lastSentMeterValIdx \in Int
        BY <1>1, ListTypes DEF Transaction
      <4>2. meterValIdx' \in Nat \cup {-1}
        BY <1>1, <3>2, <4>1 DEF ProcessIdle, ProcessStartTx, ProcessMeter, ProcessStopTx, ProcessWaitReply, HasSentMeterValIdx
      <4>3. /\ sendProgress' \in SendOcppProgress /\ UNCHANGED curTrans
            /\ processPending' \in {processPending, processPending - 1}
        BY <1>1, <3>2 DEF ProcessIdle, ProcessStartTx, ProcessMeter, ProcessStopTx, ProcessWaitReply,
           Step, Stay, SendOcppProgress
      <4> QED
        BY <1>1, <2>1, <3>1, <4>2, <4>3
    <3>3. CASE ProcessCompleted \/ ProcessError
      <4>1. PICK n \in {processPending, processPending - 1} : ResetAndTakeOldest(transItems', n)
        BY <2>11, <3>3, ReportDone
      <4>2. TakeOldest(transItems', NoTrans, -1, n) /\ sendProgress' = "Idle" /\ n \in Nat
        BY <3>1, <4>1 DEF ResetAndTakeOldest
      <4>3. NoTrans \in DOMAIN trans' \cup {NoTrans} /\ -1 \in Nat \cup {-1}
        OBVIOUS
      <4> QED
        BY <2>1, <4>2, <4>3, TakenOldest DEF SendOcppProgress
    <3> QED
      BY <2>11, <3>2, <3>3 DEF Process
  <2>12. CASE Reply
    <3>1. /\ sendProgress' \in SendOcppProgress /\ UNCHANGED curTrans
          /\ processPending' \in {processPending, processPending + 1}
          /\ meterValIdx' \in {meterValIdx, -1, NextMeterValIdx}
      BY <1>1, <2>12 DEF Reply, OnStartTransactionResponded, OnMeterValueResponded, OnStopTransactionResponded,
         GoTo, SendOcppProgress, requesterVars
    <3> QED
      BY <1>1, <1>2, <2>1, <3>1
  <2> QED
    BY <1>5, <2>4, <2>5, <2>6, <2>7, <2>8, <2>9, <2>10, <2>11, <2>12
    DEF Next, Charger, Reporting, ChargingBegins, ModifyRecord, ClearRecord, WsConnected, WsDisconnected,
        OtherReply, CsReceives, ConnectionFailTimeout, ReplyNotReported
<1> QED
  BY <1>3, <1>4, <1>5

LEMMA CallsType ==
    ASSUME TypeOK, CursorInUse, ConnectorInv, Next
    PROVE  calls' \in Seq(CallMessage)
<1>1. calls \in Seq(CallMessage) /\ curTrans \in DOMAIN trans \cup {NoTrans}
  BY DEF TypeOK, RequesterTypeOK
<1>2. CASE Restart
  <2>1. \/ calls' = <<>>
        \/ /\ progressFile # NoRecord
           /\ calls' = << Call("StopTransaction", progressFile.session, progressFile.transactionId, -1) >>
    BY <1>2 DEF Restart
  <2>2. progressFile # NoRecord =>
          Call("StopTransaction", progressFile.session, progressFile.transactionId, -1) \in CallMessage
    BY DEF ConnectorInv, TypeOK, Call, CallMessage
  <2>3. ASSUME NEW c \in CallMessage PROVE << c >> \in Seq(CallMessage)
    OBVIOUS
  <2> DEFINE c == Call("StopTransaction", progressFile.session, progressFile.transactionId, -1)
  <2>4. c \in CallMessage => << c >> \in Seq(CallMessage)
    <3> HIDE DEF c
    <3> QED
      BY <2>3
  <2>5. << >> \in Seq(CallMessage)
    OBVIOUS
  <2>6. (calls' = << >> \/ (progressFile # NoRecord /\ calls' = << c >>)) /\ (progressFile # NoRecord => c \in CallMessage)
    BY <2>1, <2>2
  <2> HIDE DEF c
  <2> QED
    BY <2>4, <2>5, <2>6
<1>3. CASE RestartResuming
  BY <1>3 DEF RestartResuming
<1>4. CASE ~Restart /\ ~RestartResuming
  <2>1. CASE CsReceives
    BY <2>1, Received
  <2>2. CASE calls # <<>> /\ calls' = Tail(calls)
    BY <1>1, <2>2, HeadTailProperties
  <2>3. NextMeterValIdx \in Int /\ -1 \in Int
    BY DEF NextMeterValIdx, TypeOK, RequesterTypeOK
  <2>4. ASSUME NEW action \in {"StartTransaction", "MeterValues", "StopTransaction"}, NEW idx \in Int,
               sendProgress # "Idle", Submit(action, idx)
        PROVE  calls' \in Seq(CallMessage)
    <3>1. curTrans \in DOMAIN trans
      BY <1>1, <2>4 DEF CursorInUse
    <3> QED
      BY <2>4, <3>1, CallType
  <2> QED
    BY <1>1, <1>4, <2>1, <2>2, <2>3, <2>4, QueueStep
<1> QED
  BY <1>2, <1>3, <1>4

LEMMA TypeStep ==
    ASSUME TypeOK, CursorInUse, ConnectorInv, Next
    PROVE  TypeOK'
<1>1. RegistryTypeOK' /\ OwnTypeOK' /\ RestTypeOK' /\ calls' \in Seq(CallMessage)
      /\ csTrans' \in Seq(CsTransaction)
  BY RegistryType, OwnType, RestType, CallsType, CsStep
<1> QED
  BY <1>1 DEF TypeOK, RequesterTypeOK, OwnTypeOK, RestTypeOK, CsTransaction

(* The elements of the lists after a step *)
LEMMA ListTypesNext ==
    ASSUME TypeOK'
    PROVE  /\ Len(trans') \in Nat /\ DOMAIN trans' = 1..Len(trans')
           /\ \A t \in DOMAIN trans' : trans'[t] \in Transaction
           /\ Len(transItems') \in Nat /\ DOMAIN transItems' = 1..Len(transItems')
           /\ \A i \in DOMAIN transItems' : transItems'[i] \in DOMAIN trans'
           /\ \A i \in DOMAIN offlineFile' : offlineFile'[i] \in FileRecord
           /\ Len(calls') \in Nat /\ DOMAIN calls' = 1..Len(calls')
           /\ \A i \in DOMAIN calls' : calls'[i] \in CallMessage
           /\ \A i \in DOMAIN csTrans' : csTrans'[i] \in CsTransaction
<1>1. /\ trans' \in Seq(Transaction) /\ transItems' \in Seq(DOMAIN trans')
      /\ offlineFile' \in Seq(FileRecord) /\ calls' \in Seq(CallMessage)
      /\ csTrans' \in Seq(CsTransaction)
  BY DEF TypeOK, RegistryTypeOK, RequesterTypeOK, CsTransaction
<1> QED
  BY <1>1, LenProperties, ElementOfSeq

(* MayBeStopped and Identifies after a step, for the same s and id. *)
MayBeStoppedNext(s) == s # connector'.session \/ s \in resumed'
IdentifiesNext(id, s) ==
    /\ id \in DOMAIN csTrans'
    /\ csTrans'[id].session = s \/ MayBeStoppedNext(csTrans'[id].session)

(* A session that may be stopped stays so, unless it begins now.           *)
LEMMA MayBeStoppedStays ==
    ASSUME TypeOK, ConnectorInv, Next, NEW s \in Session, MayBeStopped(s), ~ChargeCommandAccepted(s)
    PROVE  MayBeStoppedNext(s)
<1> USE DEF MayBeStoppedNext
<1>1. CASE connector'.session = connector.session /\ UNCHANGED resumed
  BY <1>1 DEF MayBeStopped
<1>2. CASE connector' = Idle
  BY <1>2, ReportingAssumption DEF Idle
<1>3. ASSUME NEW u \in Session, ChargeCommandAccepted(u)
      PROVE  MayBeStoppedNext(s)
  <2>1. connector'.session = u /\ u # s
    BY <1>3 DEF ChargeCommandAccepted
  <2> QED
    BY <2>1
<1>4. CASE ResumedCommandAccepted \/ ChargingBegins
  <2>1. connector' = [connector EXCEPT !.phase = "charging"] /\ UNCHANGED resumed
    BY <1>4 DEF ResumedCommandAccepted, ChargingBegins, historyVars
  <2>2. connector'.session = connector.session
    BY <2>1 DEF TypeOK
  <2> QED
    BY <1>1, <2>1, <2>2
<1>5. CASE RestartResuming
  <2>1. resumed' = resumed \cup {connector'.session}
    BY <1>5 DEF RestartResuming
  <2> QED
    BY <2>1
<1> QED
  BY <1>1, <1>2, <1>3, <1>4, <1>5
  DEF Next, Charger, Reporting, ChargeCommandCanceled, ChargeFinished, MeterSampleTimeout, ModifyRecord,
      ClearRecord, Process, WsConnected, WsDisconnected, OtherReply, CsReceives, Reply,
      OnCheckTransactionTimeout, ConnectionFailTimeout, ReplyNotReported, Restart, connVars, historyVars

(* Every session may be stopped after a restart, and whenever none is on   *)
(* the connector.                                                          *)
LEMMA AllMayBeStopped ==
    ASSUME connector' = Idle \/ Restart \/ RestartResuming, NEW s \in Session
    PROVE  MayBeStoppedNext(s)
  BY ReportingAssumption DEF MayBeStoppedNext, Idle, Restart, RestartResuming

(* Ids go on identifying, as a session that begins has none.               *)
LEMMA IdentifiesStays ==
    ASSUME TypeOK, ConnectorInv, Next, NEW id, NEW s, Identifies(id, s)
    PROVE  IdentifiesNext(id, s)
<1>1. /\ id \in DOMAIN csTrans' /\ csTrans'[id].session = csTrans[id].session
      /\ csTrans[id].session \in Session
  BY CsStep, ListTypes DEF Identifies
<1>2. CASE csTrans[id].session = s
  BY <1>1, <1>2 DEF IdentifiesNext
<1>3. CASE MayBeStopped(csTrans[id].session)
  <2>1. ~ChargeCommandAccepted(csTrans[id].session)
    BY DEF ChargeCommandAccepted, NeverUsed, Identifies
  <2>2. MayBeStoppedNext(csTrans[id].session)
    BY <1>1, <1>3, <2>1, MayBeStoppedStays
  <2> QED
    BY <1>1, <2>2 DEF IdentifiesNext
<1> QED
  BY <1>2, <1>3 DEF Identifies

(* A new transaction is that of a session accepted or resumed.             *)
LEMMA TransNew ==
    ASSUME TypeOK, CursorInUse, ConnectorInv, Next, ~Restart, ~RestartResuming,
           NEW t \in DOMAIN trans', t \notin DOMAIN trans
    PROVE  /\ t = Len(trans) + 1
           /\ \/ \E s \in Session : ChargeCommandAccepted(s) /\ trans'[t] = Started(s, -1)
              \/ ResumedCommandAccepted /\ trans'[t] = Started(connector.session, connector.resumedId)
<1>1. ASSUME NEW s \in Session, ChargeCommandAccepted(s)
      PROVE  t = Len(trans) + 1 /\ trans'[t] = Started(s, -1)
  BY <1>1, Added DEF ChargeCommandAccepted, StartNew
<1>2. CASE ResumedCommandAccepted
  <2>1. connector.session \in Session /\ connector.resumedId \in Int
    BY <1>2 DEF ResumedCommandAccepted, ConnectorInv, TypeOK
  <2> QED
    BY <1>2, <2>1, Added DEF ResumedCommandAccepted, ResumeTransaction
<1>3. CASE ChargeCommandCanceled
  <2>1. GetNewest \in DOMAIN trans /\ trans' = [trans EXCEPT ![GetNewest].st = "Canceled"]
    BY <1>3, NewestAndActive DEF ChargeCommandCanceled, Cancel
  <2> QED
    BY <2>1
<1>4. CASE ChargeFinished /\ Finish
  <2>1. trans' = [trans EXCEPT ![currentTransc].st = "Finished"]
    BY <1>4 DEF Finish
  <2> QED
    BY <2>1
<1>5. CASE MeterSampleTimeout
  BY <1>5 DEF MeterSampleTimeout, UpdateActiveTransactionMeterValue
<1>6. CASE Process /\ (ProcessCompleted \/ ProcessError)
  BY <1>6, ReportDone
<1>7. CASE Reply
  BY <1>7, Answered DEF SetTransactionId
<1>8. CASE UNCHANGED registryVars
  BY <1>8 DEF registryVars
<1> QED
  BY <1>1, <1>2, <1>3, <1>4, <1>5, <1>6, <1>7, <1>8, RegistryUnchanged

(* What becomes of a transaction: it ends when its session leaves the      *)
(* connector, its id is set by an answer, a value is sampled.              *)
LEMMA TransChange ==
    ASSUME TypeOK, CursorInUse, ConnectorInv, Next, ~Restart, ~RestartResuming,
           NEW t \in DOMAIN trans
    PROVE  /\ \/ trans'[t].st = trans[t].st
              \/ /\ connector' = Idle /\ IsActive(t) /\ UNCHANGED <<transItems, curTrans>>
                 /\ \/ Cancel /\ OnChargingEnded(t) /\ trans'[t].st = "Canceled"
                    \/ Finish /\ OnChargingEnded(t) /\ trans'[t].st = "Finished" /\ t = currentTransc
           /\ \/ trans'[t].transactionId = trans[t].transactionId
              \/ /\ Reply /\ sendProgress = "StartTxWaitReply" /\ t = curTrans
                 /\ Head(calls).action = "StartTransaction" /\ Head(calls).received
                 /\ IdTag[Head(calls).session] = AuthId(curTrans)
                 /\ trans'[t].transactionId = Head(calls).transactionId
           /\ \/ trans'[t].meterVals = trans[t].meterVals
              \/ /\ MeterSampleTimeout /\ t = GetNewest
                 /\ trans'[t].meterVals = trans[t].meterVals + 1
<1>1. trans[t] \in Transaction /\ (trans[t].st # "Canceled" /\ trans[t].st # "Finished" <=> IsActive(t))
  BY ListTypes DEF Transaction, Status, IsActive
<1>2. CASE trans'[t] = trans[t]
  BY <1>2
<1>3. ASSUME NEW s \in Session, NEW id \in Int, AddActive(s, id)
      PROVE  trans'[t] = trans[t]
  BY <1>3, Added
<1>4. ASSUME NEW s \in Session, ChargeCommandAccepted(s)
      PROVE  trans'[t] = trans[t]
  BY <1>3, <1>4 DEF ChargeCommandAccepted, StartNew
<1>5. CASE ResumedCommandAccepted
  <2>1. connector.session \in Session /\ connector.resumedId \in Int
    BY <1>5 DEF ResumedCommandAccepted, ConnectorInv, TypeOK
  <2> QED
    BY <1>2, <1>3, <1>5, <2>1 DEF ResumedCommandAccepted, ResumeTransaction
<1>6. CASE ChargeCommandCanceled
  <2>1. /\ GetNewest \in DOMAIN trans /\ IsActive(GetNewest)
        /\ trans' = [trans EXCEPT ![GetNewest].st = "Canceled"]
        /\ Cancel /\ OnChargingEnded(GetNewest) /\ connector' = Idle
        /\ UNCHANGED <<transItems, curTrans>>
    BY <1>6, NewestAndActive
    DEF ChargeCommandCanceled, Cancel, OnChargingEnded, Unconcerned, requesterVars
  <2>2. t # GetNewest => trans'[t] = trans[t]
    BY <2>1, Ended DEF Status, OnlyChanges
  <2>3. t = GetNewest => /\ trans'[t].st = "Canceled"
                         /\ trans'[t].transactionId = trans[t].transactionId
                         /\ trans'[t].meterVals = trans[t].meterVals
    BY <1>1, <2>1, Ended DEF Status, Transaction
  <2> QED
    BY <1>2, <2>1, <2>2, <2>3
<1>7. CASE ChargeFinished /\ Finish /\ OnChargingEnded(currentTransc)
  <2>1. /\ currentTransc \in DOMAIN trans /\ IsActive(currentTransc)
        /\ trans' = [trans EXCEPT ![currentTransc].st = "Finished"]
        /\ connector' = Idle
        /\ UNCHANGED <<transItems, curTrans>>
    BY <1>7 DEF ChargeFinished, Finish, CanFinish, OnChargingEnded, Unconcerned, requesterVars, TypeOK, RegistryTypeOK
  <2>2. t # currentTransc => trans'[t] = trans[t]
    BY <2>1, Ended DEF Status, OnlyChanges
  <2>3. t = currentTransc => /\ trans'[t].st = "Finished"
                             /\ trans'[t].transactionId = trans[t].transactionId
                             /\ trans'[t].meterVals = trans[t].meterVals
    BY <1>1, <2>1, Ended DEF Status, Transaction
  <2> QED
    BY <1>2, <1>7, <2>1, <2>2, <2>3
<1>8. CASE MeterSampleTimeout
  <2>1. GetNewest \in DOMAIN trans /\ trans' = [trans EXCEPT ![GetNewest].meterVals = @ + 1]
    BY <1>8, NewestAndActive DEF MeterSampleTimeout, UpdateActiveTransactionMeterValue
  <2>2. t # GetNewest => trans'[t] = trans[t]
    BY <2>1, ValueAdded DEF OnlyChanges
  <2>3. t = GetNewest => /\ trans'[t].st = trans[t].st
                         /\ trans'[t].transactionId = trans[t].transactionId
                         /\ trans'[t].meterVals = trans[t].meterVals + 1
    BY <1>1, <2>1, ValueAdded DEF Transaction
  <2> QED
    BY <1>2, <1>8, <2>2, <2>3
<1>9. CASE Process /\ (ProcessCompleted \/ ProcessError)
  BY <1>2, <1>9, ReportDone
<1>10. CASE Reply
  <2>1. CASE UNCHANGED trans
    BY <1>2, <2>1
  <2>2. CASE /\ sendProgress = "StartTxWaitReply" /\ curTrans \in DOMAIN trans
             /\ Head(calls).action = "StartTransaction" /\ Head(calls).received
             /\ Head(calls).transactionId \in Int
             /\ IdTag[Head(calls).session] = AuthId(curTrans)
             /\ SetTransactionId(curTrans, Head(calls).transactionId)
    <3>1. t # curTrans => trans'[t] = trans[t]
      BY <2>2, IdSet DEF OnlyChanges
    <3>2. t = curTrans => /\ trans'[t].st = trans[t].st
                          /\ trans'[t].transactionId = Head(calls).transactionId
                          /\ trans'[t].meterVals = trans[t].meterVals
      <4> SUFFICES ASSUME t = curTrans
                   PROVE  /\ trans'[t].st = trans[t].st
                          /\ trans'[t].transactionId = Head(calls).transactionId
                          /\ trans'[t].meterVals = trans[t].meterVals
        OBVIOUS
      <4> DEFINE id == Head(calls).transactionId
                 ti == [trans[t] EXCEPT !.transactionId = id]
      <4>1. trans'[t] = [ti EXCEPT !.lastSentMeterValIdx = -1]
        BY <2>2, IdSet
      <4>2. ti.st = trans[t].st /\ ti.transactionId = id /\ ti.meterVals = trans[t].meterVals /\ ti \in Transaction
        BY <1>1, <2>2 DEF Transaction
      <4> HIDE DEF ti
      <4> QED
        BY <4>1, <4>2 DEF Transaction
    <3> QED
      BY <1>2, <1>10, <2>2, <3>1, <3>2
  <2>3. CASE curTrans \in DOMAIN trans /\ NextMeterValIdx \in Int
             /\ trans' = [trans EXCEPT ![curTrans].lastSentMeterValIdx = NextMeterValIdx]
    <3>1. t # curTrans => trans'[t] = trans[t]
      BY <2>3, Confirmed DEF OnlyChanges
    <3>2. t = curTrans => /\ trans'[t].st = trans[t].st
                          /\ trans'[t].transactionId = trans[t].transactionId
                          /\ trans'[t].meterVals = trans[t].meterVals
      BY <1>1, <2>3, Confirmed DEF Transaction
    <3> QED
      BY <1>2, <3>1, <3>2
  <2> QED
    BY <1>10, <2>1, <2>2, <2>3, Answered
<1>11. CASE UNCHANGED registryVars
  BY <1>2, <1>11 DEF registryVars
<1> QED
  BY <1>2, <1>4, <1>5, <1>6, <1>7, <1>8, <1>9, <1>10, <1>11, RegistryUnchanged
LEMMA EndedStep ==
    ASSUME IInv, Next
    PROVE  EndedInv'
<1>1. TypeOK /\ TypeOK' /\ CursorInUse /\ ConnectorInv /\ EndedInv
  BY TypeStep DEF IInv, CursorInUse, CursorRegistered
<1> SUFFICES ASSUME NEW t \in DOMAIN trans', trans'[t].st # "Active"
             PROVE  MayBeStoppedNext(trans'[t].session)
  BY DEF EndedInv, IsActive, MayBeStopped, MayBeStoppedNext
<1>2. trans'[t].session \in Session
  BY <1>1, ListTypesNext DEF Transaction
<1>3. CASE Restart \/ RestartResuming \/ connector' = Idle
  BY <1>2, <1>3, AllMayBeStopped
<1>4. CASE ~Restart /\ ~RestartResuming /\ t \notin DOMAIN trans
  <2>1. trans'[t].st = "Active"
    BY <1>1, <1>4, TransNew DEF Started
  <2> QED
    BY <2>1
<1>5. CASE ~Restart /\ ~RestartResuming /\ connector' # Idle /\ t \in DOMAIN trans
  <2>1. trans'[t].st = trans[t].st /\ trans'[t].session = trans[t].session
    BY <1>1, <1>5, TransChange, TransStep
  <2>2. MayBeStopped(trans[t].session)
    BY <1>1, <1>5, <2>1 DEF EndedInv, IsActive
  <2>3. ~ChargeCommandAccepted(trans[t].session)
    BY <1>5 DEF ChargeCommandAccepted, NeverUsed
  <2>4. MayBeStoppedNext(trans[t].session)
    BY <1>1, <1>2, <2>1, <2>2, <2>3, MayBeStoppedStays
  <2> QED
    BY <2>1, <2>4
<1> QED
  BY <1>3, <1>4, <1>5

LEMMA FileStep ==
    ASSUME TypeOK, Next, NEW j \in DOMAIN offlineFile'
    PROVE  \/ j \in DOMAIN offlineFile /\ offlineFile'[j] = offlineFile[j]
           \/ \E t \in DOMAIN trans :
                /\ offlineFile'[j].session = trans[t].session
                /\ offlineFile'[j].transactionId = trans[t].transactionId
<1>1. offlineFile \in Seq(FileRecord) /\ Len(offlineFile) \in Nat /\ DOMAIN offlineFile = 1..Len(offlineFile)
  BY ListTypes DEF TypeOK, RegistryTypeOK
<1>2. ASSUME NEW r \in FileRecord, offlineFile' = Append(offlineFile, r),
             r.session = trans[currentTransc].session,
             r.transactionId = trans[currentTransc].transactionId,
             currentTransc \in DOMAIN trans
      PROVE  \/ j \in DOMAIN offlineFile /\ offlineFile'[j] = offlineFile[j]
             \/ \E t \in DOMAIN trans :
                  /\ offlineFile'[j].session = trans[t].session
                  /\ offlineFile'[j].transactionId = trans[t].transactionId
  <2>1. /\ Len(offlineFile') = Len(offlineFile) + 1 /\ offlineFile' \in Seq(FileRecord)
        /\ \A i \in 1..Len(offlineFile) : offlineFile'[i] = offlineFile[i]
        /\ offlineFile'[Len(offlineFile) + 1] = r
    BY <1>1, <1>2, AppendProperties
  <2>2. DOMAIN offlineFile' = 1..Len(offlineFile')
    BY <2>1, LenProperties
  <2> QED
    BY <1>1, <1>2, <2>1, <2>2
<1>3. ASSUME currentTransc \in DOMAIN trans
      PROVE  LET r == ToFileRecord(trans, currentTransc)
                 torn == [r EXCEPT !.whole = FALSE]
             IN /\ r \in FileRecord /\ torn \in FileRecord
                /\ r.session = trans[currentTransc].session
                /\ r.transactionId = trans[currentTransc].transactionId
                /\ torn.session = trans[currentTransc].session
                /\ torn.transactionId = trans[currentTransc].transactionId
  <2>1. trans[currentTransc] \in Transaction
    BY <1>3, ListTypes
  <2> QED
    BY <2>1 DEF ToFileRecord, FileRecord, Transaction
<1>4. CanFinish => currentTransc \in DOMAIN trans
  BY DEF CanFinish, TypeOK, RegistryTypeOK
<1>5. CASE Finish \/ TornAppend
  BY <1>2, <1>3, <1>4, <1>5 DEF Finish, TornAppend
<1>6. CASE Process /\ (ProcessCompleted \/ ProcessError)
  <2>1. PICK M : RemoveBy(M)
    BY <1>6, ReportDone
  <2>2. transItems' \in Seq(DOMAIN trans)
    BY <2>1, Removed
  <2>3. CASE UNCHANGED offlineFile
    BY <2>3
  <2>4. CASE SaveOfflineTransactionsToFile(trans, transItems')
    <3>1. PICK t \in DOMAIN trans : offlineFile'[j] = ToFileRecord(trans, t)
      BY <2>2, <2>4, SavedProperties
    <3> QED
      BY <3>1 DEF ToFileRecord
  <2> QED
    BY <2>1, <2>3, <2>4, Removed
<1>7. CASE UNCHANGED offlineFile
  BY <1>7
<1>8. ASSUME NEW s \in Session, ChargeCommandAccepted(s)
      PROVE  UNCHANGED offlineFile
  BY <1>8 DEF ChargeCommandAccepted, StartNew, AddActive
<1>9. CASE ResumedCommandAccepted \/ ChargeCommandCanceled \/ MeterSampleTimeout \/ Reply \/ RestartResuming
  BY <1>7, <1>9 DEF ResumedCommandAccepted, ResumeTransaction, AddActive, ChargeCommandCanceled, Cancel,
     MeterSampleTimeout, UpdateActiveTransactionMeterValue, Reply, RestartResuming
<1>10. CASE Restart
  BY <1>5, <1>7, <1>10 DEF Restart
<1>11. CASE UNCHANGED registryVars
  BY <1>7, <1>11 DEF registryVars
<1> QED
  BY <1>5, <1>6, <1>7, <1>8, <1>9, <1>10, <1>11, RegistryUnchanged

LEMMA ConnectorStep ==
    ASSUME IInv, Next
    PROVE  ConnectorInv'
<1>1. TypeOK /\ TypeOK' /\ ConnectorInv /\ IdInv
  BY TypeStep DEF IInv, CursorInUse, CursorRegistered
<1> DEFINE Left == /\ connector'.phase # "idle" => connector'.session \in Session
                   /\ connector'.phase = "resuming" \/ connector'.resumedId >= 0 =>
                        /\ connector'.session \in resumed'
                        /\ connector'.resumedId > 0
                        /\ IdentifiesNext(connector'.resumedId, connector'.session)
                   /\ connector'.phase = "idle" => connector' = Idle
           Right == progressFile' # NoRecord => progressFile'.session \in Session
<1>2. SUFFICES Left /\ Right
  BY DEF ConnectorInv, Identifies, IdentifiesNext, MayBeStopped, MayBeStoppedNext
<1>3. ASSUME UNCHANGED <<connector, resumed>>
      PROVE  Left
  BY <1>1, <1>3, IdentifiesStays DEF ConnectorInv
<1>4. ASSUME connector' = Idle
      PROVE  Left
  BY <1>4 DEF Idle
<1>5. ASSUME NEW s \in Session, ChargeCommandAccepted(s)
      PROVE  Left /\ UNCHANGED progressFile
  <2>1. connector' = [phase |-> "accepted", session |-> s, resumedId |-> -1] /\ UNCHANGED progressFile
    BY <1>5 DEF ChargeCommandAccepted
  <2> QED
    BY <2>1
<1>6. CASE ResumedCommandAccepted \/ ChargingBegins
  <2>1. connector' = [connector EXCEPT !.phase = "charging"] /\ UNCHANGED <<resumed, progressFile>>
        /\ connector.phase # "idle"
    BY <1>6 DEF ResumedCommandAccepted, ChargingBegins, historyVars
  <2>2. /\ connector'.session = connector.session /\ connector'.resumedId = connector.resumedId
        /\ connector'.phase = "charging"
    BY <1>1, <2>1 DEF TypeOK
  <2> QED
    BY <1>1, <2>1, <2>2, IdentifiesStays DEF ConnectorInv
<1>7. CASE RestartResuming
  <2>1. /\ progressFile.transactionId > 0 /\ progressFile # NoRecord
        /\ \E phase \in {"resuming", "charging"} :
             connector' = [phase |-> phase, session |-> progressFile.session, resumedId |-> progressFile.transactionId]
        /\ resumed' = resumed \cup {progressFile.session}
        /\ progressFile' = NoRecord
    BY <1>7 DEF RestartResuming, StartUp, NoRecord
  <2>2. /\ connector'.phase # "idle" /\ connector'.session = progressFile.session
        /\ connector'.resumedId = progressFile.transactionId
    BY <2>1
  <2>3. progressFile.session \in Session /\ progressFile.transactionId \in Int
    BY <1>1, <2>1 DEF ConnectorInv, TypeOK
  <2>4. Identifies(progressFile.transactionId, progressFile.session)
    BY <1>1, <2>1, <2>3 DEF IdInv
  <2> QED
    BY <1>1, <2>1, <2>2, <2>3, <2>4, IdentifiesStays
<1>8. CASE ModifyRecord
  <2>1. UNCHANGED <<connector, resumed>> /\ progressFile'.session = connector.session /\ connector.phase = "charging"
    BY <1>8 DEF ModifyRecord, historyVars
  <2> QED
    BY <1>1, <1>3, <2>1 DEF ConnectorInv
<1>9. ASSUME progressFile' \in {progressFile, NoRecord}
      PROVE  Right
  BY <1>1, <1>9 DEF ConnectorInv
<1>10. CASE UNCHANGED <<connector, resumed>> \/ connector' = Idle
  <2>1. CASE ~ModifyRecord
    <3>1. progressFile' \in {progressFile, NoRecord}
      BY <1>10, <2>1
      DEF Next, Charger, Reporting, ChargeCommandAccepted, ResumedCommandAccepted, ChargingBegins,
          ChargeCommandCanceled, ChargeFinished, MeterSampleTimeout,
          ClearRecord, Process, WsConnected, WsDisconnected, OtherReply, CsReceives, Reply,
          OnCheckTransactionTimeout, ConnectionFailTimeout, ReplyNotReported, Restart, RestartResuming, StartUp,
          connVars
    <3> QED
      BY <1>3, <1>4, <1>9, <1>10, <3>1
  <2> QED
    BY <1>8, <2>1
<1>11. ASSUME NEW s \in Session, ChargeCommandAccepted(s)
       PROVE  Left /\ Right
  BY <1>5, <1>9, <1>11
<1> QED
  BY <1>6, <1>7, <1>8, <1>10, <1>11
  DEF Next, Charger, Reporting, ChargeCommandCanceled, ChargeFinished, MeterSampleTimeout,
      ClearRecord, Process, WsConnected, WsDisconnected, OtherReply, CsReceives, Reply,
      OnCheckTransactionTimeout, ConnectionFailTimeout, ReplyNotReported, Restart, connVars, historyVars

(* What the CS assigned is what the transaction gets. *)
LEMMA AnswerForCurrent ==
    ASSUME IInv, calls # <<>>, Head(calls).action = "StartTransaction"
    PROVE  /\ sendProgress = "StartTxWaitReply" /\ HasAuthorizationId(curTrans)
           /\ Head(calls).session = CurSession /\ Len(calls) = 1
           /\ Head(calls).received =>
                /\ Head(calls).transactionId \in DOMAIN csTrans
                /\ csTrans[Head(calls).transactionId].session = CurSession
<1>1. 1 \in DOMAIN calls /\ Head(calls) = calls[1]
  BY ListTypes DEF IInv, TypeOK, RequesterTypeOK
<1> QED
  BY <1>1 DEF IInv, StartInv

TaggedNext(s) == IdTag[s] # NoTag \/ s \in resumed'

LEMMA TaggedStays ==
    ASSUME TypeOK, Next, NEW s, Tagged(s)
    PROVE  TaggedNext(s)
<1>1. resumed \subseteq resumed'
  BY DEF Next, Charger, Reporting, ChargeCommandAccepted, ResumedCommandAccepted, ChargingBegins,
     ChargeCommandCanceled, ChargeFinished, MeterSampleTimeout, ModifyRecord,
     ClearRecord, Process, WsConnected, WsDisconnected, OtherReply, CsReceives, Reply,
     OnCheckTransactionTimeout, ConnectionFailTimeout, ReplyNotReported, Restart, RestartResuming, historyVars
<1> QED
  BY <1>1 DEF Tagged, TaggedNext

(* Ids of transactions, between restarts *)
LEMMA TransIdStep ==
    ASSUME IInv, Next, ~Restart, ~RestartResuming, NEW t \in DOMAIN trans', trans'[t].transactionId >= 0
    PROVE  /\ IdentifiesNext(trans'[t].transactionId, trans'[t].session)
           /\ TaggedNext(trans'[t].session)
<1>1. TypeOK /\ CursorInUse /\ ConnectorInv /\ IdInv
  BY DEF IInv, CursorInUse, CursorRegistered
<1> SUFFICES /\ Identifies(trans'[t].transactionId, trans'[t].session)
             /\ Tagged(trans'[t].session)
  BY <1>1, IdentifiesStays, TaggedStays
<1>2. CASE t \notin DOMAIN trans
  <2>1. CASE ResumedCommandAccepted /\ trans'[t] = Started(connector.session, connector.resumedId)
    BY <1>1, <2>1 DEF ResumedCommandAccepted, ConnectorInv, Started, Tagged
  <2>2. ASSUME NEW s \in Session, trans'[t] = Started(s, -1) PROVE FALSE
    BY <2>2 DEF Started
  <2> QED
    BY <1>1, <1>2, <2>1, <2>2, TransNew
<1>3. CASE t \in DOMAIN trans
  <2>1. trans'[t].session = trans[t].session
    BY <1>1, <1>3, TransStep
  <2>2. CASE trans'[t].transactionId = trans[t].transactionId
    BY <1>1, <1>3, <2>1, <2>2 DEF IdInv, HasTransactionId
  <2>3. CASE /\ Reply /\ t = curTrans
             /\ Head(calls).action = "StartTransaction" /\ Head(calls).received
             /\ trans'[t].transactionId = Head(calls).transactionId
    BY <2>1, <2>3, AnswerForCurrent DEF Reply, Identifies, Tagged, CurSession, HasAuthorizationId, AuthId
  <2> QED
    BY <1>1, <1>3, <2>2, <2>3, TransChange
<1> QED
  BY <1>2, <1>3

(* What a start-up makes of the files *)
LEMMA LoadedIds ==
    ASSUME IInv, Next, Restart \/ RestartResuming, NEW t \in DOMAIN trans'
    PROVE  /\ trans'[t].transactionId >= 0 =>
                /\ IdentifiesNext(trans'[t].transactionId, trans'[t].session)
                /\ TaggedNext(trans'[t].session)
<1>1. TypeOK /\ ConnectorInv /\ IdInv
  BY DEF IInv
<1>2. ASSUME NEW i \in DOMAIN Loaded, trans'[t] = Loaded[i], trans'[t].transactionId >= 0
      PROVE  /\ IdentifiesNext(trans'[t].transactionId, trans'[t].session)
             /\ TaggedNext(trans'[t].session)
  <2>1. /\ i \in DOMAIN offlineFile
        /\ trans'[t].session = offlineFile[i].session /\ trans'[t].transactionId = offlineFile[i].transactionId
    BY <1>1, <1>2, LoadedProperties DEF FromFileRecord
  <2>2. Identifies(trans'[t].transactionId, trans'[t].session) /\ Tagged(trans'[t].session)
    BY <1>1, <1>2, <2>1 DEF IdInv
  <2> QED
    BY <1>1, <2>2, IdentifiesStays, TaggedStays
<1>3. CASE Restart
  <2>1. trans' = Loaded
    BY <1>3 DEF Restart
  <2> QED
    BY <1>2, <2>1
<1>4. CASE RestartResuming
  <2> DEFINE new == Started(progressFile.session, progressFile.transactionId)
  <2>1. /\ trans' = Append(Loaded, new) /\ progressFile.transactionId > 0 /\ progressFile # NoRecord
        /\ resumed' = resumed \cup {progressFile.session}
    BY <1>4 DEF RestartResuming, NoRecord
  <2>2. new \in Transaction
    BY <1>1, <2>1 DEF Started, Transaction, Status, ConnectorInv, TypeOK
  <2>3. new.session = progressFile.session /\ new.transactionId = progressFile.transactionId
    BY DEF Started
  <2>4. progressFile.transactionId \in Int
    BY <1>1 DEF TypeOK
  <2>5. IdentifiesNext(new.transactionId, new.session) /\ TaggedNext(new.session)
    BY <1>1, <2>1, <2>3, <2>4, IdentifiesStays DEF IdInv, TaggedNext
  <2> HIDE DEF new
  <2>6. (t \in DOMAIN Loaded /\ trans'[t] = Loaded[t]) \/ trans'[t] = new
    <3>1. /\ Len(trans') = Len(Loaded) + 1 /\ trans' \in Seq(Transaction)
          /\ \A i \in 1..Len(Loaded) : trans'[i] = Loaded[i]
          /\ trans'[Len(Loaded) + 1] = new
      BY <1>1, <2>1, <2>2, LoadedProperties, AppendProperties
    <3>2. DOMAIN trans' = 1..Len(trans') /\ Len(Loaded) \in Nat /\ DOMAIN Loaded = 1..Len(Loaded)
      BY <1>1, <3>1, LenProperties, LoadedProperties
    <3> QED
      BY <3>1, <3>2
  <2> QED
    BY <1>2, <2>5, <2>6
<1> QED
  BY <1>3, <1>4

LEMMA IdStep ==
    ASSUME IInv, Next
    PROVE  IdInv'
<1>1. TypeOK /\ TypeOK' /\ ConnectorInv /\ IdInv /\ EndedInv
  BY TypeStep DEF IInv, CursorInUse, CursorRegistered
<1>2. ASSUME NEW t \in DOMAIN trans', trans'[t].transactionId >= 0
      PROVE  /\ IdentifiesNext(trans'[t].transactionId, trans'[t].session)
             /\ TaggedNext(trans'[t].session)
  BY <1>2, TransIdStep, LoadedIds
<1>3. ASSUME NEW j \in DOMAIN offlineFile', offlineFile'[j].transactionId >= 0
      PROVE  /\ IdentifiesNext(offlineFile'[j].transactionId, offlineFile'[j].session)
             /\ TaggedNext(offlineFile'[j].session)
  <2>1. /\ Identifies(offlineFile'[j].transactionId, offlineFile'[j].session)
        /\ Tagged(offlineFile'[j].session)
    BY <1>1, <1>3, FileStep DEF IdInv, HasTransactionId
  <2> QED
    BY <1>1, <2>1, IdentifiesStays, TaggedStays
<1>4. ASSUME progressFile'.transactionId >= 0
      PROVE  IdentifiesNext(progressFile'.transactionId, progressFile'.session)
  <2>1. CASE ModifyRecord
    <3>1. GetActiveTrans # NoTrans /\ progressFile'.transactionId = trans[GetActiveTrans].transactionId
          /\ progressFile'.session = connector.session /\ UNCHANGED <<csTrans, connector, resumed>>
      BY <1>4, <2>1 DEF ModifyRecord, historyVars
    <3>2. Identifies(trans[GetActiveTrans].transactionId, trans[GetActiveTrans].session)
      BY <1>1, <1>4, <3>1, NewestAndActive DEF IdInv, HasTransactionId
    <3> QED
      BY <3>1, <3>2 DEF Identifies, IdentifiesNext, MayBeStopped, MayBeStoppedNext
  <2>2. CASE progressFile' = NoRecord
    BY <1>4, <2>2 DEF NoRecord
  <2>3. CASE UNCHANGED progressFile
    BY <1>1, <1>4, <2>3, IdentifiesStays DEF IdInv
  <2> QED
    BY <2>1, <2>2, <2>3
    DEF Next, Charger, Reporting, ChargeCommandAccepted, ResumedCommandAccepted, ChargingBegins,
        ChargeCommandCanceled, ChargeFinished, MeterSampleTimeout,
        ClearRecord, Process, WsConnected, WsDisconnected, OtherReply, CsReceives, Reply,
        OnCheckTransactionTimeout, ConnectionFailTimeout, ReplyNotReported, Restart, RestartResuming, StartUp,
        connVars
<1> QED
  BY <1>2, <1>3, <1>4 DEF IdInv, HasTransactionId, Identifies, IdentifiesNext, Tagged, TaggedNext,
     MayBeStopped, MayBeStoppedNext

LEMMA CursorStep ==
    ASSUME IInv, Next
    PROVE  CursorRegistered'
<1>1. TypeOK /\ TypeOK' /\ ConnectorInv /\ CursorRegistered
  BY TypeStep DEF IInv, CursorInUse, CursorRegistered
<1>2. /\ Len(transItems) \in Nat /\ DOMAIN transItems = 1..Len(transItems)
      /\ transItems # <<>> => Head(transItems) = transItems[1]
      /\ Len(trans) \in Nat /\ DOMAIN trans = 1..Len(trans)
      /\ transItems \in Seq(DOMAIN trans) /\ transItems' \in Seq(DOMAIN trans')
  BY <1>1, ListTypes DEF TypeOK, RegistryTypeOK
<1> DEFINE C1 == sendProgress' # "Idle" => curTrans' # NoTrans
           C2 == curTrans' # NoTrans => \E i \in DOMAIN transItems' : transItems'[i] = curTrans'
           C3 == curTrans' # NoTrans /\ resumed' = {} => curTrans' = Head(transItems')
<1> SUFFICES C1 /\ C2 /\ C3
  BY DEF CursorRegistered, Registered
<1>3. ASSUME transItems' # <<>>, curTrans' = Head(transItems')
      PROVE  C1 /\ C2 /\ C3
  <2>1. 1 \in DOMAIN transItems' /\ transItems'[1] = Head(transItems') /\ Head(transItems') \in DOMAIN trans'
        /\ NoTrans \notin DOMAIN trans'
    BY <1>1, <1>2, <1>3, ListTypesNext DEF NoTrans
  <2> QED
    BY <1>3, <2>1
<1>4. ASSUME UNCHANGED <<transItems, curTrans, resumed>>, sendProgress = "Idle" => sendProgress' = "Idle"
      PROVE  C1 /\ C2 /\ C3
  BY <1>1, <1>4 DEF CursorRegistered, Registered
<1>5. ASSUME curTrans' = NoTrans, sendProgress' = "Idle"
      PROVE  C1 /\ C2 /\ C3
  BY <1>5
<1>6. ASSUME NEW s \in Session, ChargeCommandAccepted(s)
      PROVE  C1 /\ C2 /\ C3
  <2>1. -1 \in Int /\ AddActive(s, -1) /\ NextTransaction(transItems') /\ UNCHANGED resumed /\ UNCHANGED sendProgress
    BY <1>6 DEF ChargeCommandAccepted, StartNew, NextTransaction, historyVars
  <2>2. /\ DOMAIN transItems' = DOMAIN transItems \cup {Len(transItems) + 1}
        /\ \A i \in DOMAIN transItems : transItems'[i] = transItems[i]
        /\ Len(transItems') = Len(transItems) + 1
    BY <1>1, <2>1, Added
  <2>3. CASE UNCHANGED curTrans
    <3>1. C1 /\ C2
      BY <1>1, <2>1, <2>2, <2>3 DEF CursorRegistered, Registered
    <3>2. ASSUME curTrans # NoTrans, resumed = {}
          PROVE  curTrans = Head(transItems')
      <4>1. transItems # <<>> /\ curTrans = Head(transItems)
        BY <1>1, <1>2, <3>2 DEF CursorRegistered, Registered
      <4>2. 1 \in DOMAIN transItems
        BY <1>2, <4>1
      <4>3. transItems' # <<>> /\ Head(transItems') = transItems'[1]
        BY <1>2, <2>2
      <4> QED
        BY <1>2, <2>2, <4>1, <4>2, <4>3
    <3> QED
      BY <2>1, <2>3, <3>1, <3>2
  <2>4. CASE transItems' # <<>> /\ curTrans' = Head(transItems')
    BY <1>3, <2>4
  <2> QED
    BY <2>1, <2>3, <2>4 DEF NextTransaction, TakeOldest
<1>7. CASE ResumedCommandAccepted
  <2>1. AddActive(connector.session, connector.resumedId) /\ UNCHANGED resumed
        /\ connector.session \in Session /\ connector.resumedId \in Int /\ connector.session \in resumed
    BY <1>1, <1>7 DEF ResumedCommandAccepted, ResumeTransaction, ConnectorInv, TypeOK, historyVars
  <2>2. C3
    BY <2>1
  <2>3. /\ DOMAIN transItems' = DOMAIN transItems \cup {Len(transItems) + 1}
        /\ \A i \in DOMAIN transItems : transItems'[i] = transItems[i]
        /\ transItems'[Len(transItems) + 1] = Len(trans) + 1
    BY <1>1, <2>1, Added
  <2>4. OnChargingResumed(Len(trans) + 1)
    BY <1>7 DEF ResumedCommandAccepted, ResumeTransaction
  <2>5. CASE curTrans' = Len(trans) + 1
    BY <1>2, <2>2, <2>3, <2>5 DEF NoTrans
  <2>6. CASE UNCHANGED <<curTrans, sendProgress>>
    BY <1>1, <2>2, <2>3, <2>6 DEF CursorRegistered, Registered
  <2> QED
    BY <2>4, <2>5, <2>6 DEF OnChargingResumed, Unconcerned, requesterVars
<1>8. CASE ChargeCommandCanceled \/ ChargeFinished
  <2>1. UNCHANGED <<transItems, curTrans, resumed>> /\ (sendProgress = "Idle" => sendProgress' = "Idle")
    BY <1>8 DEF ChargeCommandCanceled, ChargeFinished, Cancel, Finish, OnChargingEnded, IsWaitingForMeterValue,
       Unconcerned, requesterVars, registryVars, historyVars
  <2> QED
    BY <1>4, <2>1
<1>9. CASE MeterSampleTimeout
  BY <1>4, <1>9 DEF MeterSampleTimeout, UpdateActiveTransactionMeterValue, OnMeterValUpdated, historyVars
<1>10. CASE OnCheckTransactionTimeout
  <2>1. UNCHANGED <<transItems, resumed, sendProgress>> /\ NextTransaction(transItems)
    BY <1>10 DEF OnCheckTransactionTimeout, NextTransaction, registryVars, historyVars
  <2>2. UNCHANGED curTrans \/ (transItems # <<>> /\ curTrans' = Head(transItems))
    BY <2>1 DEF NextTransaction, TakeOldest
  <2> QED
    BY <1>3, <1>4, <2>1, <2>2
<1>11. CASE Process
  <2>1. UNCHANGED resumed
    BY <1>11 DEF Process, historyVars
  <2>2. CASE /\ ProcessIdle \/ ProcessStartTx \/ ProcessMeter \/ ProcessStopTx \/ ProcessWaitReply
             /\ UNCHANGED registryVars
    <3>1. UNCHANGED <<transItems, curTrans>>
      BY <2>2 DEF ProcessIdle, ProcessStartTx, ProcessMeter, ProcessStopTx, ProcessWaitReply, registryVars
    <3>2. CASE sendProgress # "Idle"
      BY <1>4, <2>1, <3>1, <3>2
    <3>3. CASE sendProgress = "Idle"
      <4>1. ProcessIdle
        BY <2>2, <3>3 DEF ProcessStartTx, ProcessMeter, ProcessStopTx, ProcessWaitReply
      <4>2. (sendProgress = "Idle" => sendProgress' = "Idle") \/ curTrans # NoTrans
        BY <4>1 DEF ProcessIdle, Stay
      <4> QED
        BY <1>1, <1>4, <2>1, <3>1, <4>2 DEF CursorRegistered, Registered
    <3> QED
      BY <3>2, <3>3
  <2>3. CASE ProcessCompleted \/ ProcessError
    <3>1. PICK n : ResetAndTakeOldest(transItems', n)
      BY <1>11, <2>3, ReportDone
    <3>2. sendProgress' = "Idle" /\ (curTrans' = NoTrans \/ (transItems' # <<>> /\ curTrans' = Head(transItems')))
      BY <3>1 DEF ResetAndTakeOldest, TakeOldest
    <3> QED
      BY <1>3, <1>5, <3>2
  <2> QED
    BY <1>11, <2>2, <2>3 DEF Process
<1>12. CASE Reply
  <2>1. UNCHANGED <<transItems, curTrans, resumed>> /\ (sendProgress = "Idle" => sendProgress' = "Idle")
    BY <1>12 DEF Reply, OnStartTransactionResponded, OnMeterValueResponded, OnStopTransactionResponded,
       requesterVars, historyVars
  <2> QED
    BY <1>4, <2>1
<1>13. CASE Restart
  BY <1>5, <1>13 DEF Restart
<1>14. CASE RestartResuming
  <2> DEFINE new == Len(Loaded) + 1
  <2>1. /\ transItems' = [i \in 1..new |-> i] /\ curTrans' = new
        /\ resumed' = resumed \cup {progressFile.session}
    BY <1>14 DEF RestartResuming
  <2>2. new \in 1..new /\ new # NoTrans
    BY <1>1, LoadedProperties DEF NoTrans
  <2> HIDE DEF new
  <2> QED
    BY <2>1, <2>2
<1>15. CASE UNCHANGED <<transItems, curTrans, resumed, sendProgress>>
  BY <1>4, <1>15
<1> QED
  BY <1>6, <1>7, <1>8, <1>9, <1>10, <1>11, <1>12, <1>13, <1>14, <1>15
  DEF Next, Charger, Reporting, ChargingBegins, ModifyRecord, ClearRecord, WsConnected, WsDisconnected,
      OtherReply, CsReceives, ConnectionFailTimeout, ReplyNotReported, registryVars, requesterVars, historyVars

LEMMA ReportStageStep ==
    ASSUME IInv, Next
    PROVE  ReportStage'
<1>1. TypeOK /\ TypeOK' /\ ConnectorInv /\ CursorRegistered /\ CursorInUse /\ IdInv /\ ReportStage
  BY TypeStep DEF IInv, CursorInUse, CursorRegistered
<1> DEFINE MeterOn == {"Meter", "MeterWaitReply", "StopTx", "StopTxWaitReply", "Completed"}
           StopOn == {"StopTx", "StopTxWaitReply", "Completed"}
           R1 == /\ trans'[curTrans'].transactionId >= 0
                 /\ TaggedNext(trans'[curTrans'].session)
           R2 == trans'[curTrans'].st # "Active"
<1> SUFFICES (sendProgress' \in MeterOn => R1) /\ (sendProgress' \in StopOn => R2)
  BY DEF ReportStage, HasTransactionId, HasAuthorizationId, AuthId, CurSession, IsActive, TaggedNext
<1>2. curTrans # NoTrans => curTrans \in DOMAIN trans
  BY <1>1 DEF TypeOK, RequesterTypeOK
<1>3. ASSUME ~Restart, ~RestartResuming, UNCHANGED curTrans, sendProgress \in MeterOn
      PROVE  R1
  <2>1. /\ curTrans \in DOMAIN trans /\ trans[curTrans].transactionId >= 0
        /\ Tagged(trans[curTrans].session)
    BY <1>1, <1>2, <1>3 DEF CursorInUse, ReportStage, HasTransactionId, HasAuthorizationId, AuthId, CurSession, Tagged
  <2>2. trans'[curTrans].session = trans[curTrans].session
    BY <1>1, <1>3, <2>1, TransStep
  <2>3. trans'[curTrans].transactionId = trans[curTrans].transactionId
    BY <1>1, <1>3, <2>1, TransChange
  <2> QED
    BY <1>1, <1>3, <2>1, <2>2, <2>3, TaggedStays
<1>4. ASSUME ~Restart, ~RestartResuming, UNCHANGED curTrans, sendProgress \in StopOn
      PROVE  R2
  <2>1. curTrans \in DOMAIN trans /\ trans[curTrans].st # "Active"
    BY <1>1, <1>2, <1>4 DEF CursorInUse, ReportStage, IsActive
  <2>2. trans'[curTrans].st = trans[curTrans].st
    BY <1>1, <1>4, <2>1, TransStep DEF IsActive
  <2> QED
    BY <1>4, <2>1, <2>2
<1>5. CASE ~Restart /\ ~RestartResuming /\ UNCHANGED <<sendProgress, curTrans>>
  BY <1>3, <1>4, <1>5
<1>6. CASE sendProgress' \notin MeterOn
  BY <1>6
<1>7. ASSUME NEW s \in Session, ChargeCommandAccepted(s), ~Restart, ~RestartResuming
      PROVE  (sendProgress' \in MeterOn => R1) /\ (sendProgress' \in StopOn => R2)
  <2>1. UNCHANGED sendProgress /\ (sendProgress = "Idle" \/ UNCHANGED curTrans)
    BY <1>7 DEF ChargeCommandAccepted, NextTransaction
  <2> QED
    BY <1>5, <1>6, <1>7, <2>1
<1>8. CASE ResumedCommandAccepted /\ ~Restart /\ ~RestartResuming
  <2>1. AddActive(connector.session, connector.resumedId) /\ OnChargingResumed(Len(trans) + 1)
        /\ connector.session \in Session /\ connector.resumedId \in Int
        /\ connector.session \in resumed /\ connector.resumedId > 0 /\ UNCHANGED resumed
    BY <1>1, <1>8 DEF ResumedCommandAccepted, ResumeTransaction, ConnectorInv, TypeOK, historyVars
  <2>2. trans'[Len(trans) + 1] = Started(connector.session, connector.resumedId)
    BY <1>1, <2>1, Added
  <2>3. CASE sendProgress = "Idle"
    <3>1. curTrans' = Len(trans) + 1 /\ sendProgress' = "Meter"
      BY <2>1, <2>3 DEF OnChargingResumed, GoTo
    <3> QED
      BY <2>1, <2>2, <3>1 DEF Started, TaggedNext
  <2>4. CASE sendProgress # "Idle"
    BY <1>5, <1>8, <2>1, <2>4 DEF OnChargingResumed, Unconcerned, requesterVars
  <2> QED
    BY <2>3, <2>4
<1>9. ASSUME NEW t, trans'[t].st # "Active", ~Restart, ~RestartResuming, OnChargingEnded(t)
      PROVE  (sendProgress' \in MeterOn => R1) /\ (sendProgress' \in StopOn => R2)
  <2>1. CASE UNCHANGED <<sendProgress, curTrans>>
    BY <1>5, <1>9, <2>1
  <2>2. CASE sendProgress = "Meter" /\ t = curTrans /\ UNCHANGED curTrans /\ sendProgress' = "StopTx"
    BY <1>3, <1>9, <2>2
  <2> QED
    BY <1>9, <2>1, <2>2 DEF OnChargingEnded, IsWaitingForMeterValue, GoTo, Unconcerned, requesterVars
<1>10. CASE ChargeCommandCanceled /\ ~Restart /\ ~RestartResuming
  <2>1. /\ GetNewest \in DOMAIN trans /\ trans' = [trans EXCEPT ![GetNewest].st = "Canceled"]
        /\ OnChargingEnded(GetNewest)
    BY <1>1, <1>10, NewestAndActive DEF ChargeCommandCanceled, Cancel
  <2>2. trans[GetNewest] \in Transaction
    BY <1>1, <2>1, ListTypes
  <2>3. trans'[GetNewest].st = "Canceled"
    BY <1>1, <2>1, <2>2, Ended DEF Status, Transaction
  <2> QED
    BY <1>9, <1>10, <2>1, <2>3
<1>11. CASE ChargeFinished /\ ~Restart /\ ~RestartResuming
  <2>1. CASE UNCHANGED <<registryVars, requesterVars>>
    BY <1>5, <1>11, <2>1 DEF requesterVars
  <2>2. CASE Finish /\ OnChargingEnded(currentTransc)
    <3>1. currentTransc \in DOMAIN trans /\ trans' = [trans EXCEPT ![currentTransc].st = "Finished"]
      BY <1>1, <2>2 DEF Finish, CanFinish, TypeOK, RegistryTypeOK
    <3>2. trans[currentTransc] \in Transaction
      BY <1>1, <3>1, ListTypes
    <3>3. trans'[currentTransc].st = "Finished"
      BY <1>1, <3>1, <3>2, Ended DEF Status, Transaction
    <3> QED
      BY <1>9, <1>11, <2>2, <3>3
  <2> QED
    BY <1>11, <2>1, <2>2 DEF ChargeFinished
<1>12. CASE Process /\ ~Restart /\ ~RestartResuming
  <2>1. CASE ProcessCompleted \/ ProcessError
    BY <1>6, <1>12, <2>1, ReportDone DEF ResetAndTakeOldest
  <2>2. CASE (ProcessStartTx \/ ProcessWaitReply) /\ UNCHANGED registryVars
    BY <1>5, <1>6, <1>12, <2>2 DEF ProcessStartTx, ProcessWaitReply, Step, Stay
  <2>3. CASE ProcessIdle /\ UNCHANGED registryVars
    <3>1. CASE curTrans # NoTrans /\ HasTransactionId(curTrans) /\ sendProgress' = "Meter"
               /\ UNCHANGED <<trans, curTrans>>
      <4>1. Tagged(trans[curTrans].session)
        BY <1>1, <1>2, <3>1 DEF IdInv
      <4> QED
        BY <1>1, <3>1, <4>1, TaggedStays DEF HasTransactionId
    <3> QED
      BY <1>5, <1>6, <1>12, <2>3, <3>1 DEF ProcessIdle, Step, Stay, registryVars
  <2>4. CASE ProcessMeter /\ UNCHANGED registryVars
    <3>1. /\ sendProgress = "Meter" /\ UNCHANGED <<trans, curTrans>>
          /\ sendProgress' \in {"Meter", "MeterWaitReply"} \/ (sendProgress' = "StopTx" /\ ~IsActive(curTrans))
      BY <2>4 DEF ProcessMeter, Step, Stay, registryVars
    <3> QED
      BY <1>3, <1>12, <3>1 DEF IsActive
  <2>5. CASE ProcessStopTx /\ UNCHANGED registryVars
    <3>1. sendProgress = "StopTx" /\ UNCHANGED curTrans /\ sendProgress' \in {"StopTxWaitReply", "Error"}
      BY <2>5 DEF ProcessStopTx, Step
    <3> QED
      BY <1>3, <1>4, <1>12, <3>1
  <2> QED
    BY <1>12, <2>1, <2>2, <2>3, <2>4, <2>5 DEF Process
<1>13. CASE Reply /\ ~Restart /\ ~RestartResuming
  <2>1. UNCHANGED curTrans
    BY <1>13 DEF Reply, OnStartTransactionResponded, OnMeterValueResponded, OnStopTransactionResponded, requesterVars
  <2>2. \/ UNCHANGED sendProgress
        \/ sendProgress' = "Error"
        \/ sendProgress = "StartTxWaitReply" /\ sendProgress' = "Meter"
        \/ sendProgress = "MeterWaitReply" /\ sendProgress' = "Meter"
        \/ sendProgress = "StopTxWaitReply" /\ sendProgress' = "Completed"
    BY <1>13 DEF Reply, OnStartTransactionResponded, OnMeterValueResponded, OnStopTransactionResponded, GoTo, requesterVars
  <2>3. ASSUME sendProgress = "StartTxWaitReply", sendProgress' = "Meter"
        PROVE  R1
    <3>1. /\ Head(calls).action = "StartTransaction" /\ Head(calls).received /\ calls # <<>>
          /\ SetTransactionId(curTrans, Head(calls).transactionId)
      BY <1>13, <2>3 DEF Reply, OnStartTransactionResponded, OnMeterValueResponded, OnStopTransactionResponded,
         GoTo, requesterVars
    <3>2. /\ HasAuthorizationId(curTrans) /\ Head(calls).transactionId \in DOMAIN csTrans
          /\ curTrans \in DOMAIN trans
      BY <1>1, <1>2, <2>3, <3>1, AnswerForCurrent DEF CursorInUse
    <3>3. Head(calls).transactionId \in Nat
      BY <1>1, <3>2, ListTypes
    <3>4. trans'[curTrans].session = trans[curTrans].session
      BY <1>1, <1>13, <3>2, TransStep
    <3>5. trans'[curTrans].transactionId = Head(calls).transactionId
      <4> DEFINE id == Head(calls).transactionId
                 ti == [trans[curTrans] EXCEPT !.transactionId = id]
      <4>1. id \in Int /\ SetTransactionId(curTrans, id)
        BY <3>1, <3>3
      <4>2. trans[curTrans] \in Transaction
        BY <1>1, <3>2, ListTypes
      <4> HIDE DEF id
      <4>3. trans'[curTrans] = [ti EXCEPT !.lastSentMeterValIdx = -1]
        BY <1>1, <3>2, <4>1, IdSet
      <4>4. ti \in Transaction /\ ti.transactionId = id
        BY <4>1, <4>2 DEF Transaction
      <4> HIDE DEF ti
      <4> QED
        BY <4>3, <4>4 DEF Transaction, id
    <3> QED
      BY <2>1, <3>2, <3>3, <3>4, <3>5 DEF HasAuthorizationId, AuthId, TaggedNext
  <2> QED
    BY <1>3, <1>4, <1>5, <1>6, <1>13, <2>1, <2>2, <2>3
<1>14. CASE Restart
  BY <1>6, <1>14 DEF Restart
<1>15. CASE RestartResuming
  <2> DEFINE new == Started(progressFile.session, progressFile.transactionId)
  <2>1. /\ trans' = Append(Loaded, new) /\ progressFile.transactionId > 0 /\ progressFile # NoRecord
        /\ resumed' = resumed \cup {progressFile.session}
        /\ curTrans' = Len(Loaded) + 1 /\ sendProgress' = "Meter"
    BY <1>15 DEF RestartResuming, NoRecord
  <2>2. new \in Transaction /\ progressFile.transactionId \in Int
    BY <1>1, <2>1 DEF Started, Transaction, Status, ConnectorInv, TypeOK
  <2>3. new.session = progressFile.session /\ new.transactionId = progressFile.transactionId
    BY DEF Started
  <2> HIDE DEF new
  <2>4. trans'[Len(Loaded) + 1] = new
    BY <1>1, <2>1, <2>2, LoadedProperties, AppendProperties
  <2> QED
    BY <2>1, <2>2, <2>3, <2>4 DEF TaggedNext
<1>16. CASE UNCHANGED <<sendProgress, curTrans>> /\ ~Restart /\ ~RestartResuming
  BY <1>5, <1>16
<1>17. CASE (MeterSampleTimeout \/ OnCheckTransactionTimeout) /\ ~Restart /\ ~RestartResuming
  <2>1. UNCHANGED sendProgress /\ (sendProgress = "Idle" \/ UNCHANGED curTrans)
    BY <1>17 DEF MeterSampleTimeout, OnMeterValUpdated, OnCheckTransactionTimeout, NextTransaction
  <2> QED
    BY <1>5, <1>6, <1>17, <2>1
<1> QED
  BY <1>7, <1>8, <1>10, <1>11, <1>12, <1>13, <1>14, <1>15, <1>16, <1>17
  DEF Next, Charger, Reporting, ChargingBegins, ModifyRecord, ClearRecord, WsConnected, WsDisconnected,
      OtherReply, CsReceives, ConnectionFailTimeout, ReplyNotReported, requesterVars

LEMMA WakeupStep ==
    ASSUME IInv, Next
    PROVE  NoLostWakeup'
<1>1. TypeOK /\ TypeOK' /\ ConnectorInv /\ CursorRegistered /\ CursorInUse /\ NoLostWakeup
  BY TypeStep DEF IInv, CursorInUse, CursorRegistered
<1> DEFINE Waits == {"StartTxWaitReply", "MeterWaitReply", "StopTxWaitReply"}
           NextIdx == IF meterValIdx' < 0 THEN 0 ELSE meterValIdx' + 1
           Charging == sendProgress' = "Meter" /\ trans'[curTrans'].st = "Active" /\ NextIdx >= trans'[curTrans'].meterVals
           Awake == processPending' = 0 =>
                      \/ sendProgress' = "Idle" /\ curTrans' = NoTrans
                      \/ sendProgress' \in Waits
                      \/ Charging
<1> SUFFICES Awake
  BY DEF NoLostWakeup, IsActive, NothingLeftToSend, NextMeterValIdx, WaitedFor
<1>2. /\ processPending \in Nat /\ meterValIdx \in Int
      /\ curTrans # NoTrans => curTrans \in DOMAIN trans
      /\ processPending = 0 =>
           \/ sendProgress = "Idle" /\ curTrans = NoTrans
           \/ sendProgress \in Waits
           \/ /\ sendProgress = "Meter" /\ trans[curTrans].st = "Active"
              /\ (IF meterValIdx < 0 THEN 0 ELSE meterValIdx + 1) >= trans[curTrans].meterVals
  BY <1>1 DEF TypeOK, RequesterTypeOK, NoLostWakeup, IsActive, NothingLeftToSend, NextMeterValIdx, WaitedFor
<1>3. ASSUME UNCHANGED requesterVars, sendProgress = "Meter" => trans'[curTrans] = trans[curTrans]
      PROVE  Awake
  BY <1>2, <1>3 DEF requesterVars
<1>4. CASE processPending' # 0
  BY <1>4
<1>5. ASSUME NEW s \in Session, NEW id \in Int, AddActive(s, id)
      PROVE  sendProgress = "Meter" => trans'[curTrans] = trans[curTrans]
  BY <1>1, <1>2, <1>5, Added DEF CursorInUse
<1>6. ASSUME NEW items, NextTransaction(items), sendProgress = "Meter" => trans'[curTrans] = trans[curTrans]
      PROVE  Awake
  BY <1>2, <1>3, <1>6 DEF NextTransaction, TakeOldest, requesterVars
<1>7. ASSUME NEW s \in Session, ChargeCommandAccepted(s)
      PROVE  Awake
  <2>1. -1 \in Int /\ AddActive(s, -1) /\ NextTransaction(transItems')
    BY <1>7 DEF ChargeCommandAccepted, StartNew
  <2> QED
    BY <1>5, <1>6, <2>1
<1>8. CASE ResumedCommandAccepted
  <2>1. connector.session \in Session /\ connector.resumedId \in Int /\ AddActive(connector.session, connector.resumedId)
        /\ OnChargingResumed(Len(trans) + 1)
    BY <1>1, <1>8 DEF ResumedCommandAccepted, ResumeTransaction, ConnectorInv, TypeOK
  <2> QED
    BY <1>2, <1>3, <1>5, <2>1 DEF OnChargingResumed, GoTo, Unconcerned
<1>9. ASSUME NEW t \in DOMAIN trans, OnChargingEnded(t), OnlyChanges(t), trans[t].meterVals \in Nat
      PROVE  Awake
  <2>1. CASE IsWaitingForMeterValue(t, trans[t].meterVals)
    BY <1>2, <1>9, <2>1 DEF OnChargingEnded, GoTo
  <2>2. CASE ~IsWaitingForMeterValue(t, trans[t].meterVals)
    <3>1. UNCHANGED requesterVars
      BY <1>9, <2>2 DEF OnChargingEnded, Unconcerned
    <3>2. CASE sendProgress = "Meter" /\ t = curTrans
      <4>1. processPending # 0
        BY <1>2, <1>9, <2>2, <3>2 DEF IsWaitingForMeterValue
      <4> QED
        BY <3>1, <4>1 DEF requesterVars
    <3>3. CASE sendProgress # "Meter" \/ t # curTrans
      BY <1>1, <1>2, <1>3, <1>9, <3>1, <3>3 DEF OnlyChanges, CursorInUse
    <3> QED
      BY <3>2, <3>3
  <2> QED
    BY <2>1, <2>2
<1>10. CASE ChargeCommandCanceled
  <2>1. /\ GetNewest \in DOMAIN trans /\ trans' = [trans EXCEPT ![GetNewest].st = "Canceled"]
        /\ OnChargingEnded(GetNewest)
    BY <1>1, <1>10, NewestAndActive DEF ChargeCommandCanceled, Cancel
  <2>2. trans[GetNewest].meterVals \in Nat
    BY <1>1, <2>1, ListTypes DEF Transaction
  <2>3. OnlyChanges(GetNewest)
    BY <1>1, <2>1, Ended DEF Status
  <2> QED
    BY <1>9, <2>1, <2>2, <2>3
<1>11. CASE ChargeFinished
  <2>1. CASE UNCHANGED <<registryVars, requesterVars>>
    BY <1>3, <2>1 DEF registryVars
  <2>2. CASE Finish /\ OnChargingEnded(currentTransc)
    <3>1. currentTransc \in DOMAIN trans /\ trans' = [trans EXCEPT ![currentTransc].st = "Finished"]
      BY <1>1, <2>2 DEF Finish, CanFinish, TypeOK, RegistryTypeOK
    <3>2. trans[currentTransc].meterVals \in Nat
      BY <1>1, <3>1, ListTypes DEF Transaction
    <3>3. OnlyChanges(currentTransc)
      BY <1>1, <3>1, Ended DEF Status
    <3> QED
      BY <1>9, <2>2, <3>1, <3>2, <3>3
  <2> QED
    BY <1>11, <2>1, <2>2 DEF ChargeFinished
<1>12. CASE MeterSampleTimeout
  <2> DEFINE t == GetNewest
  <2>1. /\ t \in DOMAIN trans /\ trans' = [trans EXCEPT ![t].meterVals = @ + 1]
        /\ OnMeterValUpdated(t, trans'[t].meterVals)
    BY <1>1, <1>12, NewestAndActive DEF MeterSampleTimeout, UpdateActiveTransactionMeterValue
  <2>2. trans[t] \in Transaction
    BY <1>1, <2>1, ListTypes
  <2>3. OnlyChanges(t) /\ trans'[t].meterVals = trans[t].meterVals + 1 /\ trans[t].meterVals \in Nat
    BY <1>1, <2>1, <2>2, ValueAdded DEF Transaction
  <2> HIDE DEF t
  <2>4. CASE IsWaitingForMeterValue(t, trans'[t].meterVals)
    BY <1>2, <2>1, <2>4 DEF OnMeterValUpdated
  <2>5. CASE ~IsWaitingForMeterValue(t, trans'[t].meterVals)
    <3>1. UNCHANGED requesterVars
      BY <2>1, <2>5 DEF OnMeterValUpdated, requesterVars
    <3>2. CASE sendProgress = "Meter" /\ t = curTrans
      <4>1. meterValIdx >= 0 /\ trans[t].meterVals + 1 - meterValIdx > 2
        BY <1>2, <2>3, <2>5, <3>2 DEF IsWaitingForMeterValue
      <4>2. processPending # 0
        BY <1>2, <2>3, <3>2, <4>1
      <4> QED
        BY <3>1, <4>2 DEF requesterVars
    <3>3. CASE sendProgress # "Meter" \/ t # curTrans
      BY <1>1, <1>2, <1>3, <2>3, <3>1, <3>3 DEF OnlyChanges, CursorInUse
    <3> QED
      BY <3>2, <3>3
  <2> QED
    BY <2>4, <2>5
<1>13. CASE OnCheckTransactionTimeout
  BY <1>6, <1>13 DEF OnCheckTransactionTimeout, registryVars
<1>14. CASE Process
  <2>1. processPending > 0
    BY <1>14 DEF Process
  <2>2. CASE ProcessCompleted \/ ProcessError
    <3>1. PICK n \in {processPending, processPending - 1} : ResetAndTakeOldest(transItems', n)
      BY <1>14, <2>2, ReportDone
    <3> QED
      BY <1>2, <2>1, <3>1 DEF ResetAndTakeOldest, TakeOldest
  <2>3. CASE (ProcessIdle \/ ProcessStartTx \/ ProcessStopTx \/ ProcessWaitReply) /\ UNCHANGED registryVars
    BY <1>2, <2>1, <2>3 DEF ProcessIdle, ProcessStartTx, ProcessStopTx, ProcessWaitReply, Step, Stay
  <2>4. CASE ProcessMeter /\ UNCHANGED registryVars
    <3>1. CASE UNCHANGED processPending
      BY <1>4, <2>1, <3>1
    <3>2. CASE /\ sendProgress' = "Meter" /\ NextMeterValIdx >= trans[curTrans].meterVals /\ IsActive(curTrans)
               /\ UNCHANGED <<trans, meterValIdx, curTrans>>
      BY <3>2 DEF NextMeterValIdx, IsActive
    <3> QED
      BY <2>4, <3>1, <3>2 DEF ProcessMeter, Step, Stay, registryVars
  <2> QED
    BY <1>14, <2>2, <2>3, <2>4 DEF Process
<1>15. CASE Reply
  <2>1. (UNCHANGED trans /\ UNCHANGED requesterVars) \/ processPending' = processPending + 1
    BY <1>15 DEF Reply, OnStartTransactionResponded, OnMeterValueResponded, OnStopTransactionResponded, GoTo, requesterVars
  <2> QED
    BY <1>2, <1>3, <1>4, <2>1
<1>16. CASE Restart \/ RestartResuming
  BY <1>16 DEF Restart, RestartResuming
<1>17. CASE UNCHANGED <<registryVars, requesterVars>>
  BY <1>3, <1>17 DEF registryVars
<1> QED
  BY <1>7, <1>8, <1>10, <1>11, <1>12, <1>13, <1>14, <1>15, <1>16, <1>17
  DEF Next, Charger, Reporting, ChargingBegins, ModifyRecord, ClearRecord, WsConnected, WsDisconnected,
      OtherReply, CsReceives, ConnectionFailTimeout, ReplyNotReported

WaitReply == {"StartTxWaitReply", "MeterWaitReply", "StopTxWaitReply"}

(* How the requester comes to wait for a reply, and what ends the waiting. *)
LEMMA ProgressStep ==
    ASSUME Next, ~Restart, ~RestartResuming
    PROVE  \/ UNCHANGED <<sendProgress, curTrans>>
           \/ sendProgress \notin WaitReply /\ sendProgress' \notin WaitReply
           \/ /\ Process /\ UNCHANGED <<trans, curTrans, csTrans, unreported>>
              /\ \/ /\ sendProgress = "StartTx" /\ sendProgress' = "StartTxWaitReply"
                    /\ HasAuthorizationId(curTrans) /\ Submit("StartTransaction", -1)
                 \/ /\ sendProgress = "Meter" /\ sendProgress' = "MeterWaitReply"
                    /\ Submit("MeterValues", NextMeterValIdx)
                 \/ /\ sendProgress = "StopTx" /\ sendProgress' = "StopTxWaitReply"
                    /\ Submit("StopTransaction", -1)
           \/ /\ Reply /\ sendProgress \in WaitReply /\ Head(calls).action = WaitedFor[sendProgress]
              /\ sendProgress' \notin WaitReply
<1> USE DEF WaitReply, WaitedFor
<1>1. ASSUME NEW items, NextTransaction(items)
      PROVE  UNCHANGED <<sendProgress, curTrans>> \/ (sendProgress = "Idle" /\ sendProgress' = "Idle")
  BY <1>1 DEF NextTransaction
<1>2. ASSUME NEW s \in Session, ChargeCommandAccepted(s)
      PROVE  UNCHANGED <<sendProgress, curTrans>> \/ (sendProgress = "Idle" /\ sendProgress' = "Idle")
  BY <1>1, <1>2 DEF ChargeCommandAccepted
<1>3. CASE ResumedCommandAccepted \/ ChargeCommandCanceled \/ ChargeFinished \/ MeterSampleTimeout
  BY <1>3 DEF ResumedCommandAccepted, ResumeTransaction, OnChargingResumed, ChargeCommandCanceled, ChargeFinished,
     OnChargingEnded, IsWaitingForMeterValue, MeterSampleTimeout, OnMeterValUpdated, GoTo, Unconcerned, requesterVars
<1>4. CASE OnCheckTransactionTimeout
  BY <1>1, <1>4 DEF OnCheckTransactionTimeout
<1>5. CASE Process
  <2>1. UNCHANGED <<csTrans, unreported>>
    BY <1>5 DEF Process, historyVars
  <2>2. CASE ProcessCompleted \/ ProcessError
    BY <2>2 DEF ProcessCompleted, ProcessError, OnTransactionCompleted, OnTransactionError, ResetAndTakeOldest
  <2>3. CASE (ProcessIdle \/ ProcessStartTx \/ ProcessMeter \/ ProcessStopTx \/ ProcessWaitReply) /\ UNCHANGED registryVars
    BY <1>5, <2>1, <2>3 DEF ProcessIdle, ProcessStartTx, ProcessMeter, ProcessStopTx, ProcessWaitReply, Step, Stay,
       registryVars
  <2> QED
    BY <1>5, <2>2, <2>3 DEF Process
<1>6. CASE Reply
  BY <1>6 DEF Reply, OnStartTransactionResponded, OnMeterValueResponded, OnStopTransactionResponded, GoTo, requesterVars
<1> QED
  BY <1>2, <1>3, <1>4, <1>5, <1>6
  DEF Next, Charger, Reporting, ChargingBegins, ModifyRecord, ClearRecord, WsConnected, WsDisconnected,
      OtherReply, CsReceives, ConnectionFailTimeout, ReplyNotReported, requesterVars

LEMMA StopMeansEndedStep ==
    ASSUME IInv, Next
    PROVE  StopMeansEnded'
<1>1. TypeOK /\ TypeOK' /\ ConnectorInv /\ StopInv /\ StopMeansEnded
  BY TypeStep DEF IInv, CursorInUse, CursorRegistered
<1> SUFFICES ASSUME NEW i \in DOMAIN csTrans', csTrans'[i].stopped
             PROVE  MayBeStoppedNext(csTrans'[i].session)
  BY DEF StopMeansEnded, MayBeStoppedNext
<1>2. i \in DOMAIN csTrans
  BY <1>1, CsStep
<1>3. csTrans'[i].session = csTrans[i].session /\ csTrans[i].session \in Session
  BY <1>1, <1>2, CsStep, ListTypes
<1>4. MayBeStopped(csTrans[i].session)
  <2>1. CASE csTrans[i].stopped
    BY <1>1, <1>2, <2>1 DEF StopMeansEnded, MayBeStopped
  <2>2. CASE 1 \in DOMAIN calls /\ calls[1].action = "StopTransaction" /\ calls[1].transactionId = i
    <3>1. i \in Nat
      BY <1>1, <1>2, ListTypes
    <3> QED
      BY <1>1, <2>2, <3>1 DEF StopInv
  <2> QED
    BY <1>1, <1>2, <2>1, <2>2, CsStep
<1>5. ~ChargeCommandAccepted(csTrans[i].session)
  BY <1>2 DEF ChargeCommandAccepted, NeverUsed
<1> QED
  BY <1>1, <1>3, <1>4, <1>5, MayBeStoppedStays

LEMMA StopStep ==
    ASSUME IInv, Next
    PROVE  StopInv'
<1>1. /\ TypeOK /\ TypeOK' /\ ConnectorInv /\ StopInv /\ ReportStage /\ EndedInv /\ IdInv /\ CursorInUse
      /\ Len(calls) \in Nat /\ DOMAIN calls = 1..Len(calls)
  BY TypeStep, ListTypes DEF IInv, CursorInUse, CursorRegistered
<1> SUFFICES ASSUME NEW i \in DOMAIN calls', calls'[i].action = "StopTransaction", calls'[i].transactionId >= 0
             PROVE  /\ calls'[i].transactionId \in DOMAIN csTrans'
                    /\ MayBeStoppedNext(csTrans'[calls'[i].transactionId].session)
  BY DEF StopInv, MayBeStopped, MayBeStoppedNext
<1> PICK id : id = calls'[i].transactionId
  OBVIOUS
<1>2. SUFFICES id \in DOMAIN csTrans /\ (MayBeStopped(csTrans[id].session) \/ Restart \/ RestartResuming)
  <2>1. /\ id \in DOMAIN csTrans' /\ csTrans'[id].session = csTrans[id].session
        /\ csTrans[id].session \in Session
    BY <1>1, <1>2, CsStep, ListTypes
  <2>2. ~ChargeCommandAccepted(csTrans[id].session)
    BY <1>2 DEF ChargeCommandAccepted, NeverUsed
  <2>3. MayBeStoppedNext(csTrans[id].session)
    BY <1>1, <1>2, <2>1, <2>2, MayBeStoppedStays, AllMayBeStopped
  <2> QED
    BY <2>1, <2>3
<1>3. ASSUME NEW k \in DOMAIN calls, calls'[i].action = calls[k].action, calls'[i].transactionId = calls[k].transactionId
      PROVE  id \in DOMAIN csTrans /\ MayBeStopped(csTrans[id].session)
  BY <1>1, <1>3 DEF StopInv
<1>4. CASE Restart
  <2>1. /\ progressFile # NoRecord
        /\ calls' = << Call("StopTransaction", progressFile.session, progressFile.transactionId, -1) >>
    <3>1. calls' # <<>>
      OBVIOUS
    <3> QED
      BY <1>4, <3>1 DEF Restart
  <2> DEFINE c == Call("StopTransaction", progressFile.session, progressFile.transactionId, -1)
  <2>2. c.transactionId = progressFile.transactionId
    BY DEF Call
  <2>3. calls'[i] = c
    <3> HIDE DEF c
    <3>1. calls' = << c >>
      BY <2>1 DEF c
    <3> QED
      BY <3>1
  <2>4. Identifies(id, progressFile.session)
    BY <1>1, <2>2, <2>3 DEF IdInv
  <2> QED
    BY <1>4, <2>4 DEF Identifies
<1>5. CASE RestartResuming
  BY <1>5 DEF RestartResuming
<1>6. CASE ~Restart /\ ~RestartResuming
  <2>1. CASE UNCHANGED calls
    BY <1>3, <2>1
  <2>2. CASE CsReceives
    <3>1. i \in DOMAIN calls /\ calls'[i].action = calls[i].action
      BY <1>1, <2>2, Received
    <3>2. calls'[i].transactionId = calls[i].transactionId
      BY <1>1, <2>2, <3>1, Received
    <3> QED
      BY <1>3, <3>1, <3>2
  <2>3. CASE calls # <<>> /\ calls' = Tail(calls)
    <3>1. i + 1 \in DOMAIN calls /\ calls'[i] = calls[i+1]
      BY <1>1, <2>3, HeadTailProperties DEF TypeOK, RequesterTypeOK
    <3> QED
      BY <1>3, <3>1
  <2>4. ASSUME NEW action \in {"StartTransaction", "MeterValues", "StopTransaction"}, NEW idx \in Int,
               sendProgress # "Idle", Submit(action, idx), action = "StopTransaction" => sendProgress = "StopTx"
        PROVE  id \in DOMAIN csTrans /\ MayBeStopped(csTrans[id].session)
    <3>1. curTrans \in DOMAIN trans
      BY <1>1, <2>4 DEF CursorInUse, TypeOK, RequesterTypeOK
    <3> DEFINE new == Call(action, trans[curTrans].session, trans[curTrans].transactionId, idx)
    <3>2. new.action = action /\ new.transactionId = trans[curTrans].transactionId
      BY DEF Call
    <3>3. (i \in DOMAIN calls /\ calls'[i] = calls[i]) \/ calls'[i] = new
      <4> HIDE DEF new
      <4> QED
        BY <1>1, <2>4, <3>1, CallType DEF new
    <3> HIDE DEF new
    <3>4. CASE calls'[i] = new
      <4>1. sendProgress = "StopTx" /\ id = trans[curTrans].transactionId
        BY <2>4, <3>2, <3>4
      <4>2. HasTransactionId(curTrans) /\ ~IsActive(curTrans)
        BY <1>1, <4>1 DEF ReportStage
      <4>3. MayBeStopped(trans[curTrans].session) /\ Identifies(id, trans[curTrans].session)
        BY <1>1, <3>1, <4>1, <4>2 DEF EndedInv, IdInv
      <4> QED
        BY <4>3 DEF Identifies
    <3> QED
      BY <1>3, <3>3, <3>4
  <2>5. NextMeterValIdx \in Int /\ -1 \in Int
    BY <1>1 DEF NextMeterValIdx, TypeOK, RequesterTypeOK
  <2> QED
    BY <1>1, <1>6, <2>1, <2>2, <2>3, <2>4, <2>5, QueueStep
<1> QED
  BY <1>4, <1>5, <1>6

LEMMA StartStep ==
    ASSUME IInv, Next
    PROVE  StartInv'
<1>1. /\ TypeOK /\ TypeOK' /\ ConnectorInv /\ StartInv /\ CursorInUse
      /\ Len(calls) \in Nat /\ DOMAIN calls = 1..Len(calls) /\ calls \in Seq(CallMessage)
      /\ Len(calls') \in Nat /\ DOMAIN calls' = 1..Len(calls')
      /\ curTrans # NoTrans => curTrans \in DOMAIN trans
  BY TypeStep, ListTypes, ListTypesNext DEF IInv, CursorInUse, CursorRegistered, TypeOK, RequesterTypeOK
<1>2. CASE Restart
  <2>1. sendProgress' = "Idle"
        /\ calls' \in {<<>>, << Call("StopTransaction", progressFile.session, progressFile.transactionId, -1) >>}
    BY <1>2 DEF Restart
  <2> DEFINE c == Call("StopTransaction", progressFile.session, progressFile.transactionId, -1)
  <2>2. c.action = "StopTransaction"
    BY DEF Call
  <2>3. calls' = << >> \/ calls' = << c >>
    BY <2>1
  <2> HIDE DEF c
  <2>4. \A i \in DOMAIN calls' : calls'[i].action # "StartTransaction"
    BY <2>2, <2>3
  <2> QED
    BY <2>1, <2>4 DEF StartInv
<1>3. CASE RestartResuming
  BY <1>3 DEF RestartResuming, StartInv
<1>4. CASE ~Restart /\ ~RestartResuming
  <2>1. ASSUME UNCHANGED curTrans, sendProgress = "StartTxWaitReply"
        PROVE  curTrans \in DOMAIN trans /\ trans'[curTrans].session = trans[curTrans].session
    BY <1>1, <1>4, <2>1, TransStep DEF CursorInUse
  <2>2. sendProgress' = "StartTxWaitReply" => HasAuthorizationId(curTrans)'
    BY <1>1, <1>4, <2>1, ProgressStep DEF StartInv, WaitReply, HasAuthorizationId, AuthId
  <2> DEFINE Good(i) == /\ sendProgress' = "StartTxWaitReply"
                        /\ calls'[i].session = trans'[curTrans'].session
                        /\ i = Len(calls')
                        /\ calls'[i].received =>
                             /\ calls'[i].transactionId \in DOMAIN csTrans'
                             /\ csTrans'[calls'[i].transactionId].session = calls'[i].session
  <2> SUFFICES ASSUME NEW i \in DOMAIN calls', calls'[i].action = "StartTransaction"
               PROVE  Good(i)
    BY <2>2 DEF StartInv, CurSession
  <2>3. ASSUME UNCHANGED <<sendProgress, curTrans>>, NEW k \in DOMAIN calls, calls'[i] = calls[k],
               i = Len(calls') <=> k = Len(calls)
        PROVE  Good(i)
    <3>1. calls[k].received => /\ calls[k].transactionId \in DOMAIN csTrans'
                               /\ csTrans'[calls[k].transactionId].session = calls[k].session
      BY <1>1, <2>3, CsStep DEF StartInv
    <3> QED
      BY <1>1, <2>1, <2>3, <3>1 DEF StartInv, CurSession
  <2>4. CASE UNCHANGED calls
    <3>1. UNCHANGED <<sendProgress, curTrans>>
      <4>1. ~Reply
        <5> SUFFICES ASSUME Reply PROVE FALSE
          OBVIOUS
        <5>1. calls # <<>> /\ calls' = Tail(calls)
          BY DEF Reply
        <5>2. Len(calls') = Len(calls) - 1
          BY <1>1, <5>1, HeadTailProperties
        <5> QED
          BY <1>1, <2>4, <5>2
      <4>2. sendProgress = "StartTxWaitReply"
        BY <1>1, <2>4 DEF StartInv
      <4> QED
        BY <1>4, <4>1, <4>2, ProgressStep DEF WaitReply
    <3> QED
      BY <2>3, <2>4, <3>1
  <2>5. CASE CsReceives
    <3>1. UNCHANGED <<sendProgress, curTrans>>
      BY <2>5 DEF CsReceives, requesterVars
    <3>2. i \in DOMAIN calls /\ calls[i].action = "StartTransaction" /\ Len(calls') = Len(calls)
          /\ calls'[i].session = calls[i].session
      BY <1>1, <2>5, Received
    <3>3. CASE i # 1
      BY <1>1, <2>3, <2>5, <3>1, <3>2, <3>3, Received
    <3>4. CASE i = 1
      <4>1. /\ calls'[1].transactionId = Len(csTrans) + 1
            /\ csTrans' = Append(csTrans, [session |-> calls[1].session, meterVal |-> -1, stopped |-> FALSE])
        BY <1>1, <2>5, <3>2, <3>4, Received
      <4> DEFINE new == [session |-> calls[1].session, meterVal |-> -1, stopped |-> FALSE]
      <4>2. new \in CsTransaction /\ new.session = calls[1].session
        <5>1. calls[1].session \in Session
          BY <1>1, <3>2, <3>4, ListTypes DEF CallMessage
        <5> QED
          BY <5>1 DEF CsTransaction
      <4> HIDE DEF new
      <4>3. csTrans \in Seq(CsTransaction) /\ csTrans' = Append(csTrans, new)
        BY <1>1, <4>1 DEF TypeOK, CsTransaction, new
      <4>4. csTrans' \in Seq(CsTransaction) /\ Len(csTrans') = Len(csTrans) + 1 /\ csTrans'[Len(csTrans) + 1] = new
        BY <4>2, <4>3, AppendProperties
      <4>5. Len(csTrans) + 1 \in DOMAIN csTrans'
        BY <1>1, <4>4, ListTypes, LenProperties
      <4>6. sendProgress' = "StartTxWaitReply" /\ calls[1].session = trans'[curTrans'].session /\ 1 = Len(calls)
        BY <1>1, <2>1, <3>1, <3>2, <3>4 DEF StartInv, CurSession
      <4> QED
        BY <3>2, <3>4, <4>1, <4>2, <4>4, <4>5, <4>6
    <3> QED
      BY <3>3, <3>4
  <2>6. CASE (Reply \/ ReplyNotReported) /\ calls # <<>> /\ calls' = Tail(calls)
    <3>1. i + 1 \in DOMAIN calls /\ calls'[i] = calls[i+1] /\ Len(calls') = Len(calls) - 1
      BY <1>1, <2>6, HeadTailProperties
    <3>2. i + 1 = Len(calls) /\ sendProgress = "StartTxWaitReply"
      BY <1>1, <3>1 DEF StartInv
    <3>3. UNCHANGED <<sendProgress, curTrans>>
      <4>1. CASE ReplyNotReported
        BY <4>1 DEF ReplyNotReported, requesterVars
      <4>2. CASE Reply /\ Head(calls).action # "StartTransaction"
        BY <1>4, <3>2, <4>2, ProgressStep DEF WaitReply, WaitedFor
      <4>3. CASE Reply /\ Head(calls).action = "StartTransaction"
        <5>1. Len(calls) = 1
          BY <2>6, <4>3, AnswerForCurrent
        <5> QED
          BY <1>1, <3>2, <5>1
      <4> QED
        BY <2>6, <4>1, <4>2, <4>3
    <3> QED
      BY <1>1, <2>3, <3>1, <3>3
  <2>7. ASSUME NEW action \in {"StartTransaction", "MeterValues", "StopTransaction"}, NEW idx \in Int,
               sendProgress \notin {"Idle", "StartTxWaitReply"}, Submit(action, idx), UNCHANGED <<trans, curTrans>>,
               action = "StartTransaction" => sendProgress' = "StartTxWaitReply"
        PROVE  Good(i)
    <3>1. curTrans \in DOMAIN trans
      BY <1>1, <2>7 DEF CursorInUse
    <3> DEFINE new == Call(action, trans[curTrans].session, trans[curTrans].transactionId, idx)
    <3>2. new.action = action /\ new.session = trans[curTrans].session /\ ~new.received
      BY DEF Call
    <3>3. Len(calls') = Len(calls) + 1
          /\ ((i \in DOMAIN calls /\ calls'[i] = calls[i]) \/ (i = Len(calls) + 1 /\ calls'[i] = new))
      <4> HIDE DEF new
      <4> QED
        BY <1>1, <2>7, <3>1, CallType DEF new
    <3> HIDE DEF new
    <3>4. CASE i \in DOMAIN calls /\ calls'[i] = calls[i]
      BY <1>1, <2>7, <3>4 DEF StartInv
    <3>5. CASE i = Len(calls) + 1 /\ calls'[i] = new
      BY <2>7, <3>2, <3>3, <3>5
    <3> QED
      BY <3>3, <3>4, <3>5
  <2>8. NextMeterValIdx \in Int /\ -1 \in Int
    BY <1>1 DEF NextMeterValIdx, TypeOK, RequesterTypeOK
  <2> QED
    BY <1>1, <1>4, <2>4, <2>5, <2>6, <2>7, <2>8, QueueStep
<1> QED
  BY <1>2, <1>3, <1>4

(* The last call and what the requester waits for *)
LEMMA AwaitedStep ==
    ASSUME IInv, Next
    PROVE  AwaitedCallInFlight' /\ AwaitedStop'
<1>1. /\ TypeOK /\ TypeOK' /\ ConnectorInv /\ CursorInUse /\ ReportStage /\ IdInv
      /\ AwaitedCallInFlight /\ AwaitedStop
      /\ Len(calls) \in Nat /\ DOMAIN calls = 1..Len(calls) /\ calls \in Seq(CallMessage)
      /\ curTrans # NoTrans => curTrans \in DOMAIN trans
      /\ NextMeterValIdx \in Int /\ -1 \in Int
  <2>1. /\ TypeOK /\ ConnectorInv /\ CursorInUse /\ ReportStage /\ IdInv
        /\ AwaitedCallInFlight /\ AwaitedStop
    BY DEF IInv, CursorInUse, CursorRegistered
  <2>2. TypeOK'
    BY <2>1, TypeStep
  <2>3. Len(calls) \in Nat /\ DOMAIN calls = 1..Len(calls)
    BY <2>1, ListTypes
  <2>4. /\ calls \in Seq(CallMessage)
        /\ curTrans # NoTrans => curTrans \in DOMAIN trans
        /\ NextMeterValIdx \in Int /\ -1 \in Int
    BY <2>1 DEF TypeOK, RequesterTypeOK, NextMeterValIdx
  <2> QED
    BY <2>1, <2>2, <2>3, <2>4
<1> DEFINE Good == /\ calls' # <<>>
                   /\ calls'[Len(calls')].action = WaitedFor[sendProgress']
                   /\ calls'[Len(calls')].session = trans'[curTrans'].session
                   /\ sendProgress' = "StopTxWaitReply" => calls'[Len(calls')].transactionId > 0
<1> SUFFICES ASSUME sendProgress' \in WaitReply, ~unreported'
             PROVE  Good
  BY DEF AwaitedCallInFlight, AwaitedStop, WaitReply, WaitedFor, Last, CurSession
<1>2. ~Restart /\ ~RestartResuming
  BY DEF Restart, RestartResuming, WaitReply
<1>3. ~unreported
  BY <1>2 DEF Next, Charger, Reporting, ChargeCommandAccepted, ResumedCommandAccepted, ChargingBegins,
     ChargeCommandCanceled, ChargeFinished, MeterSampleTimeout, ModifyRecord,
     ClearRecord, Process, WsConnected, WsDisconnected, OtherReply, CsReceives, Reply,
     OnCheckTransactionTimeout, ConnectionFailTimeout, ReplyNotReported, historyVars
<1>4. ASSUME NEW action \in {"StartTransaction", "MeterValues", "StopTransaction"}, NEW idx \in Int,
             sendProgress # "Idle", Submit(action, idx), UNCHANGED <<trans, curTrans>>,
             action = WaitedFor[sendProgress'], action = "StopTransaction" => sendProgress = "StopTx",
             sendProgress' = "StopTxWaitReply" => action = "StopTransaction"
      PROVE  Good
  <2>1. curTrans \in DOMAIN trans
    BY <1>1, <1>4 DEF CursorInUse
  <2> DEFINE new == Call(action, trans[curTrans].session, trans[curTrans].transactionId, idx)
  <2>2. new.action = action /\ new.session = trans[curTrans].session /\ new.transactionId = trans[curTrans].transactionId
    BY DEF Call
  <2>3. Len(calls') = Len(calls) + 1 /\ calls'[Len(calls) + 1] = new
    BY <1>1, <1>4, <2>1, CallType
  <2> HIDE DEF new
  <2>4. calls' # <<>>
    BY <1>1, <2>3
  <2>5. action = "StopTransaction" => trans[curTrans].transactionId > 0
    <3> SUFFICES ASSUME action = "StopTransaction" PROVE trans[curTrans].transactionId > 0
      OBVIOUS
    <3>1. HasTransactionId(curTrans)
      BY <1>1, <1>4 DEF ReportStage
    <3>2. trans[curTrans].transactionId \in DOMAIN csTrans
      BY <1>1, <2>1, <3>1 DEF IdInv, Identifies
    <3> QED
      BY <1>1, <3>2, ListTypes
  <2> QED
    BY <1>4, <2>2, <2>3, <2>4, <2>5
<1>5. CASE /\ Process /\ UNCHANGED <<trans, curTrans, csTrans, unreported>>
           /\ \/ /\ sendProgress = "StartTx" /\ sendProgress' = "StartTxWaitReply"
                 /\ HasAuthorizationId(curTrans) /\ Submit("StartTransaction", -1)
              \/ /\ sendProgress = "Meter" /\ sendProgress' = "MeterWaitReply"
                 /\ Submit("MeterValues", NextMeterValIdx)
              \/ /\ sendProgress = "StopTx" /\ sendProgress' = "StopTxWaitReply"
                 /\ Submit("StopTransaction", -1)
  BY <1>1, <1>4, <1>5 DEF WaitedFor
<1>6. CASE UNCHANGED <<sendProgress, curTrans>>
  <2>1. /\ sendProgress \in WaitReply /\ curTrans \in DOMAIN trans
        /\ trans'[curTrans].session = trans[curTrans].session
    BY <1>1, <1>2, <1>6, TransStep DEF CursorInUse, WaitReply
  <2>2. /\ calls # <<>> /\ calls[Len(calls)].action = WaitedFor[sendProgress]
        /\ calls[Len(calls)].session = trans[curTrans].session
        /\ sendProgress = "StopTxWaitReply" => calls[Len(calls)].transactionId > 0
    BY <1>1, <1>3, <2>1 DEF AwaitedCallInFlight, AwaitedStop, WaitReply, WaitedFor, Last, CurSession
  <2>3. Len(calls) \in DOMAIN calls
    BY <1>1, <2>2
  <2>4. CASE UNCHANGED calls
    BY <1>6, <2>1, <2>2, <2>4
  <2>5. CASE CsReceives
    <3>1. /\ Len(calls') = Len(calls) /\ calls' # <<>>
          /\ calls'[Len(calls)].action = calls[Len(calls)].action
          /\ calls'[Len(calls)].session = calls[Len(calls)].session
          /\ calls[Len(calls)].action # "StartTransaction" =>
               calls'[Len(calls)].transactionId = calls[Len(calls)].transactionId
      <4>1. Len(calls') = Len(calls) /\ Len(calls) # 0
        BY <1>1, <2>3, <2>5, Received
      <4>2. calls' # <<>>
        BY <4>1
      <4> QED
        BY <1>1, <2>3, <2>5, <4>1, <4>2, Received
    <3> QED
      BY <1>6, <2>1, <2>2, <3>1 DEF WaitedFor
  <2>6. CASE Reply /\ calls # <<>> /\ calls' = Tail(calls)
    <3>1. Len(calls) # 1
      <4> SUFFICES ASSUME Len(calls) = 1 PROVE FALSE
        OBVIOUS
      <4>1. Head(calls) = calls[Len(calls)]
        BY <1>1, <2>2
      <4>2. CASE sendProgress = "StartTxWaitReply"
        BY <1>6, <2>2, <2>6, <4>1, <4>2 DEF Reply, OnStartTransactionResponded, GoTo, WaitedFor
      <4>3. CASE sendProgress = "MeterWaitReply"
        BY <1>6, <2>2, <2>6, <4>1, <4>3 DEF Reply, OnMeterValueResponded, GoTo, WaitedFor
      <4>4. CASE sendProgress = "StopTxWaitReply"
        <5>1. Head(calls).action = "StopTransaction" /\ Head(calls).transactionId > 0
          BY <2>2, <4>1, <4>4 DEF WaitedFor
        <5>2. Head(calls).transactionId \in Int
          BY <1>1, <2>3, <4>1, ListTypes DEF CallMessage
        <5>3. /\ Head(calls).action # "StartTransaction" /\ Head(calls).action # "MeterValues"
              /\ ~(Head(calls).transactionId <= 0)
          BY <5>1, <5>2
        <5>4. \E accepted \in BOOLEAN : OnStopTransactionResponded(accepted, Head(calls).transactionId)
          BY <2>6, <5>3, Zenon DEF Reply
        <5>5. sendProgress' \in {"Completed", "Error"}
          BY <4>4, <5>4 DEF OnStopTransactionResponded, GoTo
        <5> QED
          BY <1>6, <4>4, <5>5
      <4> QED
        BY <2>1, <4>2, <4>3, <4>4 DEF WaitReply
    <3>2. Len(calls') = Len(calls) - 1 /\ \A i \in 1..(Len(calls) - 1) : calls'[i] = calls[i+1]
      BY <1>1, <2>6, HeadTailProperties
    <3>3. calls' # <<>> /\ calls'[Len(calls')] = calls[Len(calls)]
      BY <1>1, <2>3, <3>1, <3>2
    <3> QED
      BY <1>6, <2>1, <2>2, <3>3
  <2>7. ~ReplyNotReported
    BY DEF ReplyNotReported
  <2> QED
    BY <1>1, <1>2, <1>6, <2>1, <2>4, <2>5, <2>6, <2>7, QueueStep DEF WaitReply
<1> QED
  BY <1>2, <1>5, <1>6, ProgressStep

LEMMA FileInvStep ==
    ASSUME IInv, Next
    PROVE  FileInv'
<1>1. TypeOK /\ TypeOK' /\ ConnectorInv /\ CursorInUse /\ FileInv
  BY TypeStep DEF IInv, CursorInUse, CursorRegistered
<1>2. /\ offlineFile \in Seq(FileRecord) /\ Len(offlineFile) \in Nat /\ DOMAIN offlineFile = 1..Len(offlineFile)
      /\ \A i \in DOMAIN transItems : transItems[i] \in DOMAIN trans
      /\ \A t \in DOMAIN trans : trans[t] \in Transaction
  BY <1>1, ListTypes DEF TypeOK, RegistryTypeOK
<1> DEFINE Kept(s) == \/ \E j \in DOMAIN offlineFile' : offlineFile'[j].session = s
                      \/ \E j \in DOMAIN offlineFile' : ~offlineFile'[j].whole
           Extended == /\ DOMAIN offlineFile \subseteq DOMAIN offlineFile'
                       /\ \A j \in DOMAIN offlineFile : offlineFile'[j] = offlineFile[j]
<1> SUFFICES ASSUME NEW i \in DOMAIN transItems', trans'[transItems'[i]].st = "Finished"
             PROVE  Kept(trans'[transItems'[i]].session)
  BY DEF FileInv
<1>3. ASSUME Extended, i \in DOMAIN transItems, UNCHANGED transItems, trans[transItems[i]].st = "Finished",
             trans'[transItems[i]].session = trans[transItems[i]].session
      PROVE  Kept(trans'[transItems'[i]].session)
  BY <1>1, <1>3 DEF FileInv
<1>4. ASSUME NEW r \in FileRecord, offlineFile' = Append(offlineFile, r)
      PROVE  Extended /\ \E j \in DOMAIN offlineFile' : offlineFile'[j] = r
  <2>1. /\ Len(offlineFile') = Len(offlineFile) + 1 /\ offlineFile' \in Seq(FileRecord)
        /\ \A j \in 1..Len(offlineFile) : offlineFile'[j] = offlineFile[j]
        /\ offlineFile'[Len(offlineFile) + 1] = r
    BY <1>2, <1>4, AppendProperties
  <2>2. DOMAIN offlineFile' = 1..Len(offlineFile')
    BY <2>1, LenProperties
  <2>3. Len(offlineFile) + 1 \in DOMAIN offlineFile'
    BY <1>2, <2>1, <2>2
  <2> QED
    BY <1>2, <2>1, <2>2, <2>3
<1>5. ASSUME currentTransc \in DOMAIN trans
      PROVE  LET r == ToFileRecord(trans, currentTransc)
                 torn == [r EXCEPT !.whole = FALSE]
             IN /\ r \in FileRecord /\ torn \in FileRecord
                /\ r.session = trans[currentTransc].session
                /\ ~torn.whole
  <2>1. trans[currentTransc] \in Transaction
    BY <1>5, ListTypes, <1>1
  <2> QED
    BY <2>1 DEF ToFileRecord, FileRecord, Transaction
<1>6. CanFinish => currentTransc \in DOMAIN trans
  BY <1>1 DEF CanFinish, TypeOK, RegistryTypeOK
<1>7. CASE Restart \/ RestartResuming
  <2>1. ASSUME NEW k \in DOMAIN Loaded, trans'[transItems'[i]] = Loaded[k], UNCHANGED offlineFile \/ Extended
        PROVE  Kept(trans'[transItems'[i]].session)
    <3>1. k \in DOMAIN offlineFile /\ Loaded[k].session = offlineFile[k].session
      BY <1>1, LoadedProperties DEF FromFileRecord
    <3> QED
      BY <2>1, <3>1
  <2>2. CASE Restart
    <3>1. transItems' = [j \in DOMAIN Loaded |-> j] /\ trans' = Loaded
      BY <2>2 DEF Restart
    <3>2. UNCHANGED offlineFile \/ Extended
      BY <1>4, <1>5, <1>6, <2>2 DEF Restart, TornAppend
    <3> QED
      BY <2>1, <3>1, <3>2
  <2>3. CASE RestartResuming
    <3> DEFINE new == Started(progressFile.session, progressFile.transactionId)
               n == Len(Loaded) + 1
    <3>1. /\ trans' = Append(Loaded, new) /\ progressFile # NoRecord
          /\ transItems' = [j \in 1..n |-> j]
          /\ UNCHANGED offlineFile
      BY <2>3 DEF RestartResuming, NoRecord
    <3>2. new \in Transaction /\ new.st = "Active"
      BY <1>1, <3>1 DEF Started, Transaction, Status, ConnectorInv, TypeOK
    <3> HIDE DEF new
    <3>3. Loaded \in Seq(Transaction) /\ DOMAIN Loaded = 1..Len(Loaded) /\ Len(Loaded) \in Nat
      BY <1>1, LoadedProperties
    <3>4. (\A j \in 1..Len(Loaded) : trans'[j] = Loaded[j]) /\ trans'[n] = new
      BY <3>1, <3>2, <3>3, AppendProperties
    <3>5. i \in DOMAIN Loaded /\ transItems'[i] = i
      BY <3>1, <3>2, <3>3, <3>4
    <3> QED
      BY <2>1, <3>1, <3>3, <3>4, <3>5
  <2> QED
    BY <1>7, <2>2, <2>3
<1>8. CASE ~Restart /\ ~RestartResuming
  <2>1. ASSUME NEW t \in DOMAIN trans
        PROVE  /\ trans'[t].session = trans[t].session
               /\ \/ trans'[t].st = trans[t].st
                  \/ Cancel /\ trans'[t].st = "Canceled"
                  \/ Finish /\ t = currentTransc
    BY <1>1, <1>8, TransStep, TransChange
  <2>2. CASE Finish
    <3>1. currentTransc \in DOMAIN trans /\ UNCHANGED transItems
          /\ offlineFile' = Append(offlineFile, ToFileRecord(trans, currentTransc))
      BY <1>6, <2>2 DEF Finish
    <3>2. Extended /\ \E j \in DOMAIN offlineFile' : offlineFile'[j] = ToFileRecord(trans, currentTransc)
      BY <1>4, <1>5, <3>1
    <3>3. CASE transItems[i] = currentTransc
      BY <1>5, <2>1, <3>1, <3>2, <3>3
    <3>4. CASE transItems[i] # currentTransc
      <4>1. trans[transItems[i]].st = "Finished"
        BY <1>2, <2>1, <3>1, <3>4
      <4> QED
        BY <1>2, <1>3, <2>1, <3>1, <3>2, <4>1
    <3> QED
      BY <3>3, <3>4
  <2>3. CASE ~Finish /\ UNCHANGED <<transItems, offlineFile>>
    <3>1. trans[transItems[i]].st = "Finished"
      BY <1>2, <2>1, <2>3
    <3> QED
      BY <1>2, <1>3, <2>1, <2>3, <3>1
  <2>4. ASSUME NEW s \in Session, NEW id \in Int, AddActive(s, id)
        PROVE  Kept(trans'[transItems'[i]].session)
    <3>1. /\ DOMAIN transItems' = DOMAIN transItems \cup {Len(transItems) + 1}
          /\ \A k \in DOMAIN transItems : transItems'[k] = transItems[k]
          /\ transItems'[Len(transItems) + 1] = Len(trans) + 1
          /\ trans'[Len(trans) + 1].st = "Active"
          /\ \A t \in DOMAIN trans : trans'[t] = trans[t]
          /\ UNCHANGED offlineFile
      BY <1>1, <2>4, Added DEF Started, AddActive
    <3>2. i \in DOMAIN transItems
      BY <3>1
    <3> QED
      BY <1>1, <1>2, <3>1, <3>2 DEF FileInv
  <2>5. ASSUME NEW s \in Session, ChargeCommandAccepted(s)
        PROVE  Kept(trans'[transItems'[i]].session)
    <3>1. -1 \in Int /\ AddActive(s, -1)
      BY <2>5 DEF ChargeCommandAccepted, StartNew
    <3> QED
      BY <2>4, <3>1
  <2>6. CASE ResumedCommandAccepted
    <3>1. connector.session \in Session /\ connector.resumedId \in Int /\ AddActive(connector.session, connector.resumedId)
      BY <1>1, <2>6 DEF ResumedCommandAccepted, ResumeTransaction, ConnectorInv, TypeOK
    <3> QED
      BY <2>4, <3>1
  <2>7. CASE Process /\ (ProcessCompleted \/ ProcessError)
    <3>1. PICK M : RemoveBy(M)
      BY <2>7, ReportDone
    <3>2. UNCHANGED trans /\ transItems' \in Seq(DOMAIN trans)
      BY <1>1, <2>7, <3>1, ReportDone, Removed
    <3>3. CASE UNCHANGED <<transItems, offlineFile>>
      BY <1>1, <3>2, <3>3 DEF FileInv
    <3>4. CASE SaveOfflineTransactionsToFile(trans, transItems')
      <4>1. PICK j \in DOMAIN offlineFile' : offlineFile'[j] = ToFileRecord(trans, transItems'[i])
        BY <1>1, <3>2, <3>4, SavedProperties
      <4>2. offlineFile'[j].session = trans[transItems'[i]].session
        BY <4>1 DEF ToFileRecord
      <4> QED
        BY <3>2, <4>2
    <3> QED
      BY <1>1, <3>1, <3>3, <3>4, Removed
  <2>8. CASE ChargeCommandCanceled \/ MeterSampleTimeout \/ Reply
    <3>1. UNCHANGED <<transItems, offlineFile>>
      BY <2>8 DEF ChargeCommandCanceled, Cancel, MeterSampleTimeout, UpdateActiveTransactionMeterValue, Reply
    <3> QED
      BY <2>2, <2>3, <3>1
  <2>9. CASE UNCHANGED registryVars
    BY <2>2, <2>3, <2>9 DEF registryVars
  <2> QED
    BY <1>8, <2>2, <2>5, <2>6, <2>7, <2>8, <2>9, RegistryUnchanged
<1> QED
  BY <1>7, <1>8

-----------------------------------------------------------------------------
(* The inductive invariant *)

LEMMA InitIInv == Init => IInv
<1> SUFFICES ASSUME Init PROVE IInv
  OBVIOUS
<1>1. /\ trans = <<>> /\ transItems = <<>> /\ currentTransc = NoTrans /\ meterSampleTimer = FALSE
      /\ offlineFile = <<>> /\ sendProgress = "Idle" /\ meterValIdx = -1 /\ curTrans = NoTrans
      /\ processPending = 0 /\ calls = <<>> /\ ocppOnline = FALSE /\ connector = Idle
      /\ progressFile = NoRecord /\ ws = FALSE /\ checkPending = FALSE /\ csTrans = <<>>
      /\ restarts = 0 /\ resumed = {} /\ unreported = FALSE
  BY DEF Init, RegistryInit, RequesterInit
<1>2. TypeOK
  <2>1. \A S : << >> \in Seq(S)
    OBVIOUS
  <2>2. RegistryTypeOK /\ RequesterTypeOK
    BY <1>1, <2>1 DEF RegistryTypeOK, RequesterTypeOK, SendOcppProgress
  <2>3. csTrans \in Seq([session: Session, meterVal: Int, stopped: BOOLEAN])
    BY <1>1, <2>1
  <2>4. /\ connector \in [phase: {"idle", "accepted", "resuming", "charging"},
                          session: Session \cup {NoSession}, resumedId: Int]
        /\ progressFile \in [session: Session \cup {NoSession}, transactionId: Int, resumed: BOOLEAN]
    BY <1>1 DEF Idle, NoRecord
  <2>5. restarts \in 0..MaxRestarts /\ resumed \subseteq Session
    BY <1>1, ReportingAssumption
  <2>6. ws \in BOOLEAN /\ checkPending \in BOOLEAN /\ unreported \in BOOLEAN
    BY <1>1
  <2> QED
    BY <2>2, <2>3, <2>4, <2>5, <2>6, Zenon DEF TypeOK
<1>3. DOMAIN trans = {} /\ DOMAIN transItems = {} /\ DOMAIN offlineFile = {} /\ DOMAIN calls = {} /\ DOMAIN csTrans = {}
  BY <1>1
<1>4. CursorRegistered /\ ReportStage /\ NoLostWakeup /\ AwaitedCallInFlight /\ AwaitedStop
  BY <1>1 DEF CursorRegistered, ReportStage, NoLostWakeup, AwaitedCallInFlight, AwaitedStop, WaitedFor
<1>5. EndedInv /\ StartInv /\ StopInv /\ FileInv /\ StopMeansEnded
  BY <1>1, <1>3 DEF EndedInv, StartInv, StopInv, FileInv, StopMeansEnded
<1>6. ConnectorInv /\ IdInv
  BY <1>1, <1>3 DEF ConnectorInv, IdInv, Idle, NoRecord
<1> QED
  BY <1>2, <1>4, <1>5, <1>6 DEF IInv

LEMMA NextIInv == IInv /\ [Next]_vars => IInv'
<1> SUFFICES ASSUME IInv, [Next]_vars PROVE IInv'
  OBVIOUS
<1>1. CASE Next
  <2>1. TypeOK'
    BY <1>1, TypeStep DEF IInv, CursorInUse, CursorRegistered
  <2> QED
    BY <1>1, <2>1, CursorStep, ConnectorStep, IdStep, EndedStep, ReportStageStep, WakeupStep, StartStep,
       StopStep, AwaitedStep, FileInvStep, StopMeansEndedStep DEF IInv
<1>2. CASE UNCHANGED vars
  <2>1. UNCHANGED <<trans, transItems, currentTransc, meterSampleTimer, offlineFile, sendProgress,
                    meterValIdx, curTrans, processPending, calls, ocppOnline, ws, checkPending,
                    connector, progressFile, csTrans, restarts, resumed, unreported>>
    BY <1>2 DEF vars, registryVars, requesterVars, netVars, connVars, historyVars
  <2>2. TypeOK'
    BY <2>1 DEF IInv, TypeOK, RegistryTypeOK, RequesterTypeOK
  <2>3. CursorRegistered' /\ ReportStage' /\ NoLostWakeup' /\ AwaitedCallInFlight' /\ AwaitedStop'
    BY <2>1 DEF IInv, CursorRegistered, ReportStage, NoLostWakeup, AwaitedCallInFlight, AwaitedStop, Registered,
       HasTransactionId, HasAuthorizationId, AuthId, CurSession, IsActive, NothingLeftToSend, NextMeterValIdx,
       WaitedFor, Last
  <2>4. EndedInv' /\ StartInv' /\ StopInv' /\ FileInv' /\ StopMeansEnded' /\ ConnectorInv' /\ IdInv'
    BY <2>1 DEF IInv, EndedInv, StartInv, StopInv, FileInv, StopMeansEnded, ConnectorInv, IdInv, Identifies,
       MayBeStopped, Tagged, HasTransactionId, HasAuthorizationId, AuthId, CurSession, IsActive
  <2> QED
    BY <2>2, <2>3, <2>4 DEF IInv
<1> QED
  BY <1>1, <1>2

-----------------------------------------------------------------------------
(* Meter values without a gap. The values of a session not resumed reach   *)
(* the CS one after the other: the requester's index is never ahead of     *)
(* what the CS has, whichever transaction or start-up it comes from.       *)

(* The first match comes before every other one. *)
LEMMA FirstMatchLeast ==
    ASSUME NEW A, NEW q \in Seq(A), NEW M
    PROVE  \A j \in DOMAIN q : q[j] \in M => FirstMatch(q, M) # 0 /\ FirstMatch(q, M) <= j
<1> DEFINE I == {j \in 1..Len(q) : q[j] \in M}
<1> SUFFICES ASSUME NEW j \in DOMAIN q, q[j] \in M
             PROVE  FirstMatch(q, M) # 0 /\ FirstMatch(q, M) <= j
  OBVIOUS
<1>1. Len(q) \in Nat /\ DOMAIN q = 1..Len(q)
  BY LenProperties
<1>2. j \in I /\ I # {} /\ I \in SUBSET Nat
  BY <1>1
<1>3. FirstMatch(q, M) = CHOOSE x \in I : \A y \in I : x <= y
  BY <1>2 DEF FirstMatch, Min
<1>4. \E x \in I : \A y \in I : x <= y
  <2> HIDE DEF I
  <2> QED
    BY <1>2, NatMin
<1>5. FirstMatch(q, M) \in I /\ \A y \in I : FirstMatch(q, M) <= y
  <2> HIDE DEF I
  <2> QED
    BY <1>3, <1>4
<1> QED
  BY <1>1, <1>2, <1>5

(* Removing an element leaves none twice.                                  *)
LEMMA WithoutFirstOnce ==
    ASSUME NEW A, NEW q \in Seq(A), NEW M, \E j \in DOMAIN q : q[j] \in M, IsInjective(q)
    PROVE  IsInjective(WithoutFirst(q, M))
<1>1. Len(q) \in Nat /\ DOMAIN q = 1..Len(q) /\ \A j \in 1..Len(q) : q[j] \in A
  BY LenProperties
<1> DEFINE i == FirstMatch(q, M)
           left == SubSeq(q, 1, i - 1)
           right == SubSeq(q, i + 1, Len(q))
           w == left \o right
<1>2. WithoutFirst(q, M) = w
  BY DEF WithoutFirst, RemoveAt
<1> HIDE DEF i
<1>3. i \in 1..Len(q)
  <2>1. i \in 0..Len(q) /\ (i = 0 => \A j \in DOMAIN q : q[j] \notin M)
    BY FirstMatchProperties DEF i
  <2> QED
    BY <2>1, <1>1
<1>4. /\ left \in Seq(A) /\ Len(left) = i - 1 /\ \A j \in 1..(i-1) : left[j] = q[j]
  <2>1. \A j \in 1..(i-1) : q[j] \in A
    BY <1>1, <1>3
  <2>2. /\ left \in Seq(A)
        /\ Len(left) = IF 1 <= i - 1 THEN i - 1 - 1 + 1 ELSE 0
        /\ \A j \in 1..(i - 1 - 1 + 1) : left[j] = q[1 + j - 1]
    BY <1>3, <2>1, SubSeqProperties
  <2> HIDE DEF left
  <2> QED
    BY <1>1, <1>3, <2>2
<1>5. /\ right \in Seq(A) /\ Len(right) = Len(q) - i /\ \A j \in 1..(Len(q) - i) : right[j] = q[i + j]
  <2>1. \A j \in (i+1)..Len(q) : q[j] \in A
    BY <1>1, <1>3
  <2>2. /\ right \in Seq(A)
        /\ Len(right) = IF i + 1 <= Len(q) THEN Len(q) - (i + 1) + 1 ELSE 0
        /\ \A j \in 1..(Len(q) - (i + 1) + 1) : right[j] = q[i + 1 + j - 1]
    BY <1>1, <1>3, <2>1, SubSeqProperties
  <2> HIDE DEF right
  <2>3. Len(right) = Len(q) - i
    <3>1. Len(right) = IF i + 1 <= Len(q) THEN Len(q) - (i + 1) + 1 ELSE 0
      BY <2>2
    <3>2. Len(q) \in Nat /\ i \in Nat /\ i <= Len(q)
      BY <1>1, <1>3
    <3> QED
      BY <3>1, <3>2
  <2>4. ASSUME NEW j \in 1..(Len(q) - i) PROVE right[j] = q[i + j]
    <3>1. j \in 1..(Len(q) - (i + 1) + 1) /\ i + 1 + j - 1 = i + j
      BY <1>1, <1>3
    <3> QED
      BY <2>2, <3>1
  <2> QED
    BY <2>2, <2>3, <2>4
<1> HIDE DEF left, right
<1>6. /\ w \in Seq(A) /\ Len(w) = Len(left) + Len(right)
      /\ \A j \in 1..Len(left) + Len(right) :
           w[j] = IF j <= Len(left) THEN left[j] ELSE right[j - Len(left)]
  BY <1>4, <1>5, ConcatProperties
<1> HIDE DEF w
<1>7. DOMAIN w = 1..(Len(q) - 1)
  BY <1>1, <1>3, <1>4, <1>5, <1>6, LenProperties
<1>8. \A j \in DOMAIN w : w[j] = IF j < i THEN q[j] ELSE q[j+1]
  <2> TAKE j \in DOMAIN w
  <2> /\ j \in 1..(Len(q) - 1) /\ j \in 1..Len(left) + Len(right)
      /\ j <= Len(left) <=> j < i
      /\ j < i => j \in 1..(i - 1)
    BY <1>1, <1>3, <1>4, <1>5, <1>7
  <2>1. CASE j < i
    BY <1>4, <1>6, <2>1
  <2>2. CASE ~(j < i)
    <3>1. j - (i - 1) \in 1..(Len(q) - i) /\ i + (j - (i - 1)) = j + 1
      BY <1>1, <1>3, <1>7, <2>2
    <3>2. w[j] = right[j - (i - 1)]
      BY <1>4, <1>6, <2>2
    <3>3. right[j - (i - 1)] = q[i + (j - (i - 1))]
      BY <1>5, <3>1
    <3> QED
      BY <2>2, <3>1, <3>2, <3>3
  <2> QED
    BY <2>1, <2>2
<1>9. \A j, k \in DOMAIN w : w[j] = w[k] => j = k
  BY <1>1, <1>3, <1>7, <1>8 DEF IsInjective
<1> QED
  BY <1>2, <1>9 DEF IsInjective

(* The records a start-up reads: those before the first torn one.          *)
Readable(j) == \A k \in 1..j : offlineFile[k].whole

(* A start-up reads a record exactly if it and those before it are        *)
(* whole.                                                                 *)
LEMMA LoadedReadable ==
    ASSUME TypeOK
    PROVE  \A j \in DOMAIN offlineFile : j \in DOMAIN Loaded <=> Readable(j)
<1> DEFINE Torn == {r \in FileRecord : ~r.whole}
           torn == FirstMatch(offlineFile, Torn)
           whole == IF torn = 0 THEN offlineFile ELSE SubSeq(offlineFile, 1, torn - 1)
<1>1. offlineFile \in Seq(FileRecord) /\ Len(offlineFile) \in Nat
      /\ DOMAIN offlineFile = 1..Len(offlineFile)
      /\ \A i \in DOMAIN offlineFile : offlineFile[i] \in FileRecord
  BY ListTypes DEF TypeOK, RegistryTypeOK
<1>2. DOMAIN Loaded = DOMAIN whole
  <2>1. torn = SelectInSeq(offlineFile, LAMBDA r : ~r.whole)
    <3>1. {j \in 1..Len(offlineFile) : offlineFile[j] \in Torn} = {j \in 1..Len(offlineFile) : ~offlineFile[j].whole}
      BY <1>1
    <3> HIDE DEF Torn
    <3> QED
      BY <3>1 DEF FirstMatch, SelectInSeq
  <2> QED
    BY <2>1 DEF Loaded
<1>3. /\ torn \in 0..Len(offlineFile)
      /\ torn # 0 => offlineFile[torn] \in Torn
      /\ \A j \in DOMAIN offlineFile : offlineFile[j] \in Torn => torn # 0 /\ torn <= j
  <2> HIDE DEF Torn
  <2> QED
    BY <1>1, FirstMatchProperties, FirstMatchLeast
<1>4. \A j \in DOMAIN offlineFile : offlineFile[j].whole <=> offlineFile[j] \notin Torn
  BY <1>1
<1> HIDE DEF torn, Torn
<1>5. CASE torn = 0
  BY <1>1, <1>2, <1>3, <1>4, <1>5 DEF Readable
<1>6. CASE torn # 0
  <2>1. DOMAIN whole = 1..(torn - 1)
    <3>1. \A i \in 1..(torn - 1) : offlineFile[i] \in FileRecord
      BY <1>1, <1>3
    <3>2. /\ whole \in Seq(FileRecord)
          /\ Len(whole) = IF 1 <= torn - 1 THEN torn - 1 - 1 + 1 ELSE 0
      BY <1>3, <1>6, <3>1, SubSeqProperties
    <3> HIDE DEF whole
    <3> QED
      BY <1>3, <1>6, <3>2, LenProperties
  <2> HIDE DEF whole
  <2> QED
    BY <1>1, <1>2, <1>3, <1>4, <1>6, <2>1 DEF Readable
<1> QED
  BY <1>5, <1>6

(* What is removed leaves the list without doubles, and the file too.      *)
LEMMA RemovedOnce ==
    ASSUME TypeOK, IsInjective(transItems), NEW M, RemoveBy(M)
    PROVE  IsInjective(transItems')
<1>1. CASE Range(transItems) \cap M # {}
  <2>1. \E j \in DOMAIN transItems : transItems[j] \in M
    BY <1>1 DEF Range
  <2>2. transItems' = RemoveFirstMatch(transItems, LAMBDA x : x \in M)
    BY <1>1 DEF RemoveBy
  <2>3. transItems' = WithoutFirst(transItems, M)
    BY <2>1, <2>2, ListTypes DEF RemoveFirstMatch, SelectInSeq, FirstMatch, WithoutFirst
  <2> QED
    BY <2>1, <2>3, WithoutFirstOnce DEF TypeOK, RegistryTypeOK
<1>2. CASE Range(transItems) \cap M = {}
  BY <1>2 DEF RemoveBy
<1> QED
  BY <1>1, <1>2

(* Each record saved is that of a finished transaction, and of another one *)
(* than the other records.                                                 *)
LEMMA SavedOnce ==
    ASSUME TypeOK, NEW items \in Seq(DOMAIN trans), IsInjective(items), SaveOfflineTransactionsToFile(trans, items)
    PROVE  \E of \in [DOMAIN offlineFile' -> DOMAIN trans] :
             /\ IsInjective(of)
             /\ \A j \in DOMAIN offlineFile' :
                  offlineFile'[j] = ToFileRecord(trans, of[j]) /\ trans[of[j]].st = "Finished"
<1> DEFINE F == {t \in DOMAIN trans : trans[t].st = "Finished"}
           finished == Selected(items, F)
<1>1. offlineFile' = [i \in DOMAIN finished |-> ToFileRecord(trans, finished[i])]
  BY DEF SaveOfflineTransactionsToFile
<1>2. finished \in Seq(DOMAIN trans)
  <2> HIDE DEF F
  <2> QED
    BY SelectedProperties
<1>3. \A j \in DOMAIN finished : finished[j] \in F
  <2> HIDE DEF F
  <2> QED
    BY SelectedFrom
<1>4. IsInjective(finished)
  <2> HIDE DEF F
  <2>1. \A i, j \in DOMAIN items : items[i] = items[j] => i = j
    BY DEF IsInjective
  <2>2. \A i, j \in DOMAIN finished : finished[i] = finished[j] => i = j
    BY <2>1, SelectedOnce
  <2> QED
    BY <2>2 DEF IsInjective
<1>5. finished \in [DOMAIN finished -> DOMAIN trans] /\ DOMAIN offlineFile' = DOMAIN finished
  <2> HIDE DEF finished
  <2> QED
    BY <1>1, <1>2, SeqDef, LenProperties
<1> HIDE DEF finished
<1> QED
  BY <1>1, <1>3, <1>4, <1>5

(* The CS's id of transaction t, as registry and file keep it. *)
TransId(t) == trans[t].transactionId
(* The stages of reporting meter values. *)
MeterOn == {"Meter", "MeterWaitReply"}

(* An id of the CS's whose session was not resumed. *)
Unresumed(id) == id \in DOMAIN csTrans /\ csTrans[id].session \notin resumed

(* The index of the last value confirmed is not ahead of the CS's value,  *)
(* nor is the index kept with the transaction by more than the value      *)
(* resent after a restart; only a transaction without an id is to be      *)
(* started.                                                               *)
IndexInv ==
    /\ \A i \in DOMAIN csTrans : csTrans[i].meterVal >= -1
    /\ sendProgress = "Idle" => meterValIdx = -1
    /\ sendProgress \in {"StartTx", "StartTxWaitReply"} => ~HasTransactionId(curTrans)
    /\ sendProgress \in MeterOn /\ Unresumed(TransId(curTrans)) =>
         /\ meterValIdx <= csTrans[TransId(curTrans)].meterVal
         /\ trans[curTrans].lastSentMeterValIdx <= meterValIdx + 1

(* The index kept with a transaction is not ahead of the CS's value. *)
SentInv ==
    \A t \in DOMAIN trans : Unresumed(TransId(t)) =>
      trans[t].lastSentMeterValIdx <= csTrans[TransId(t)].meterVal

(* The one MeterValues on its way is the last call of the queue: it is    *)
(* awaited, is of the requester's transaction and carries the value       *)
(* after the last one confirmed; once received, it is the CS's value.     *)
MeterCallInv ==
    \A i \in DOMAIN calls : calls[i].action = "MeterValues" =>
      /\ sendProgress = "MeterWaitReply"
      /\ i = Len(calls)
      /\ calls[i].transactionId = TransId(curTrans)
      /\ calls[i].meterVal = NextMeterValIdx
      /\ calls[i].received /\ Unresumed(calls[i].transactionId) =>
           csTrans[calls[i].transactionId].meterVal = calls[i].meterVal

(* The id the CS has given in an answer on its way is not in use yet. *)
StartIdInv ==
    \A i \in DOMAIN calls : calls[i].action = "StartTransaction" /\ calls[i].received =>
      /\ \A t \in DOMAIN trans : TransId(t) # calls[i].transactionId
      /\ progressFile.transactionId # calls[i].transactionId
      /\ connector.resumedId # calls[i].transactionId

(* No value of transaction t is reported, and it will not be on file as   *)
(* it is: neither finished nor the current one that Finish would end.     *)
Unreported(t) ==
    trans[t].lastSentMeterValIdx = -1 /\ trans[t].st # "Finished" /\ t # currentTransc

(* Two transactions have the same id of a session not resumed only if     *)
(* one was resumed with a progress record given the id of the other,      *)
(* older one. The requester is reporting the older: it is active, but no  *)
(* longer one that Finish or Cancel ends, so its report does not come to  *)
(* an end, and the other is never reported.                               *)
SharedInv ==
    \A t, u \in DOMAIN trans : t # u /\ TransId(t) = TransId(u) /\ Unresumed(TransId(t)) =>
      /\ curTrans \in {t, u}
      /\ sendProgress \in MeterOn
      /\ IsActive(curTrans) /\ curTrans # currentTransc /\ curTrans # GetNewest
      /\ t # curTrans => Unreported(t)

(* Until the charger accepts the resumed charge, the requester is at the  *)
(* transaction created at start-up, the newest, and nobody else has its   *)
(* id.                                                                    *)
ResumingInv ==
    connector.phase = "resuming" =>
      /\ sendProgress \in MeterOn
      /\ IsActive(curTrans) /\ curTrans # currentTransc /\ curTrans = GetNewest
      /\ TransId(curTrans) = connector.resumedId
      /\ Unresumed(connector.resumedId) =>
           \A t \in DOMAIN trans : TransId(t) = connector.resumedId => t = curTrans

(* The id of the current transaction is that of its session, and the      *)
(* current transaction that can be finished is that of the session on     *)
(* the connector.                                                         *)
CurrentInv ==
    /\ currentTransc # NoTrans /\ HasTransactionId(currentTransc) =>
         csTrans[TransId(currentTransc)].session = trans[currentTransc].session
    /\ CanFinish /\ connector.phase # "idle" =>
         trans[currentTransc].session = connector.session

(* If the progress record was given the id of another session, that       *)
(* session's transaction is not finished and cannot become so: a start-   *)
(* up finds no record with the id on file.                                *)
ForeignInv ==
    LET id == progressFile.transactionId
    IN Unresumed(id) /\ csTrans[id].session # progressFile.session =>
         \A t \in DOMAIN trans : TransId(t) = id => trans[t].st # "Finished" /\ t # currentTransc

(* What a start-up reads of an id is the record of one finished           *)
(* transaction, which says no more has been sent than that transaction    *)
(* does.                                                                  *)
FileIdInv ==
    /\ \A j \in DOMAIN offlineFile : Readable(j) /\ Unresumed(offlineFile[j].transactionId) =>
         \E t \in DOMAIN trans :
           /\ trans[t].st = "Finished" /\ TransId(t) = offlineFile[j].transactionId
           /\ offlineFile[j].lastSentMeterValIdx <= trans[t].lastSentMeterValIdx
    /\ \A j, k \in DOMAIN offlineFile :
         Readable(j) /\ Readable(k) /\ Unresumed(offlineFile[j].transactionId)
         /\ offlineFile[j].transactionId = offlineFile[k].transactionId => j = k

(* The parts together; no transaction is listed twice. *)
GapInv ==
    /\ IndexInv
    /\ SentInv
    /\ MeterCallInv
    /\ StartIdInv
    /\ SharedInv
    /\ ResumingInv
    /\ CurrentInv
    /\ ForeignInv
    /\ FileIdInv
    /\ IsInjective(transItems)

(* id is such an id after the step. *)
UnresumedNext(id) == id \in DOMAIN csTrans' /\ csTrans'[id].session \notin resumed'

(* A session not resumed after a step was not before it. *)
LEMMA UnresumedBefore ==
    ASSUME TypeOK, Next, NEW id, UnresumedNext(id), id \in DOMAIN csTrans
    PROVE  Unresumed(id)
<1>1. resumed \subseteq resumed'
  BY DEF Next, Charger, Reporting, ChargeCommandAccepted, ResumedCommandAccepted, ChargingBegins,
     ChargeCommandCanceled, ChargeFinished, MeterSampleTimeout, ModifyRecord,
     ClearRecord, Process, WsConnected, WsDisconnected, OtherReply, CsReceives, Reply,
     OnCheckTransactionTimeout, ConnectionFailTimeout, ReplyNotReported, Restart, RestartResuming, historyVars
<1>2. csTrans'[id].session = csTrans[id].session
  BY CsStep
<1> QED
  BY <1>1, <1>2 DEF Unresumed, UnresumedNext

(* The CS's last value of a transaction changes with the call it receives. *)
LEMMA MeterValStep ==
    ASSUME TypeOK, Next, NEW i \in DOMAIN csTrans'
    PROVE  /\ i \notin DOMAIN csTrans => csTrans'[i].meterVal = -1
           /\ i \in DOMAIN csTrans =>
                \/ csTrans'[i].meterVal = csTrans[i].meterVal
                \/ /\ CsReceives /\ 1 \in DOMAIN calls
                   /\ calls[1].action = "MeterValues" /\ calls[1].transactionId = i
                   /\ csTrans'[i].meterVal = calls[1].meterVal
<1>1. /\ csTrans \in Seq(CsTransaction) /\ Len(csTrans) \in Nat /\ DOMAIN csTrans = 1..Len(csTrans)
      /\ \A k \in DOMAIN csTrans : csTrans[k] \in CsTransaction
  BY ListTypes DEF TypeOK, CsTransaction
<1>2. CASE UNCHANGED csTrans
  BY <1>2
<1>3. CASE ~UNCHANGED csTrans
  <2>1. CsReceives
    BY <1>3 DEF Next, Charger, Reporting, ChargeCommandAccepted, ResumedCommandAccepted,
       ChargeCommandCanceled, ChargingBegins, ChargeFinished, MeterSampleTimeout, ModifyRecord,
       ClearRecord, Process, WsConnected, WsDisconnected, OtherReply, OnCheckTransactionTimeout,
       ConnectionFailTimeout, Reply, ReplyNotReported, Restart, RestartResuming, StartUp
  <2>2. calls # <<>> /\ DOMAIN calls = 1..Len(calls) /\ Len(calls) \in Nat /\ calls \in Seq(CallMessage)
    BY <2>1, Received, ListTypes DEF TypeOK, RequesterTypeOK
  <2>3. 1 \in DOMAIN calls /\ calls[1] \in CallMessage
    BY <2>2, ListTypes
  <2>4. CASE calls[1].action = "StartTransaction"
    <3> DEFINE new == [session |-> calls[1].session, meterVal |-> -1, stopped |-> FALSE]
    <3>1. new \in CsTransaction /\ csTrans' = Append(csTrans, new)
      BY <2>1, <2>3, <2>4, Received DEF CsTransaction, CallMessage
    <3>2. new.meterVal = -1
      OBVIOUS
    <3> HIDE DEF new
    <3>3. /\ csTrans' \in Seq(CsTransaction) /\ Len(csTrans') = Len(csTrans) + 1
          /\ \A k \in 1..Len(csTrans) : csTrans'[k] = csTrans[k]
          /\ csTrans'[Len(csTrans) + 1] = new
      BY <1>1, <3>1, AppendProperties
    <3>4. DOMAIN csTrans' = 1..(Len(csTrans) + 1)
      BY <3>3, LenProperties
    <3> QED
      BY <1>1, <3>2, <3>3, <3>4
  <2>5. CASE calls[1].action # "StartTransaction"
    <3> DEFINE id == calls[1].transactionId
               val == IF calls[1].action = "MeterValues" THEN calls[1].meterVal ELSE csTrans[id].meterVal
               stop == csTrans[id].stopped \/ calls[1].action = "StopTransaction"
               new == [csTrans[id] EXCEPT !.meterVal = val, !.stopped = stop]
    <3>1. id \in DOMAIN csTrans /\ csTrans' = [csTrans EXCEPT ![id] = new]
      <4>1. csTrans' = IF calls[1].transactionId \notin DOMAIN csTrans THEN csTrans
                       ELSE [csTrans EXCEPT
                              ![calls[1].transactionId].meterVal =
                                    IF calls[1].action = "MeterValues" THEN calls[1].meterVal ELSE @,
                              ![calls[1].transactionId].stopped =
                                    @ \/ calls[1].action = "StopTransaction"]
        BY <2>1, <2>5, Received
      <4>2. id \in DOMAIN csTrans
        BY <1>3, <4>1
      <4> QED
        BY <4>1, <4>2
    <3>2. new \in CsTransaction /\ new.meterVal = val
      <4>1. csTrans[id] \in CsTransaction /\ val \in Int
        BY <1>1, <2>3, <3>1 DEF CsTransaction, CallMessage
      <4>2. stop \in BOOLEAN
        OBVIOUS
      <4> HIDE DEF val, stop
      <4> DEFINE n1 == [csTrans[id] EXCEPT !.meterVal = val]
      <4>3. n1 \in CsTransaction /\ n1.meterVal = val
        BY <4>1 DEF CsTransaction
      <4>4. new = [n1 EXCEPT !.stopped = stop]
        OBVIOUS
      <4> HIDE DEF n1, new, id
      <4> QED
        BY <4>2, <4>3, <4>4 DEF CsTransaction
    <3> HIDE DEF new, stop, val
    <3>3. /\ csTrans' \in Seq(CsTransaction) /\ Len(csTrans') = Len(csTrans)
          /\ \A j \in 1..Len(csTrans) : csTrans'[j] = IF j = id THEN new ELSE csTrans[j]
      BY <1>1, <3>1, <3>2, ExceptSeq
    <3>4. DOMAIN csTrans' = DOMAIN csTrans
      BY <1>1, <3>3, LenProperties
    <3>5. CASE i = id
      BY <1>1, <2>1, <2>3, <3>1, <3>2, <3>3, <3>4, <3>5 DEF val
    <3>6. CASE i # id
      BY <1>1, <3>3, <3>4, <3>6
    <3> QED
      BY <3>5, <3>6
  <2> QED
    BY <2>4, <2>5
<1> QED
  BY <1>2, <1>3

(* It is then the value the requester waits to see confirmed.              *)
LEMMA MeterValReceived ==
    ASSUME TypeOK, MeterCallInv, Next, NEW i \in DOMAIN csTrans
    PROVE  \/ csTrans'[i].meterVal = csTrans[i].meterVal
           \/ /\ sendProgress = "MeterWaitReply" /\ i = TransId(curTrans)
              /\ csTrans'[i].meterVal = NextMeterValIdx /\ NextMeterValIdx \in Nat
              /\ UNCHANGED <<registryVars, requesterVars, connVars, resumed>>
<1>1. i \in DOMAIN csTrans'
  BY CsStep
<1>2. NextMeterValIdx \in Nat
  BY DEF TypeOK, RequesterTypeOK, NextMeterValIdx
<1>3. CsReceives => UNCHANGED <<registryVars, requesterVars, connVars, resumed>>
  BY DEF CsReceives, historyVars
<1> QED
  BY <1>1, <1>2, <1>3, MeterValStep DEF MeterCallInv

(* An answer, and what it changes.                                         *)
StartAnswered ==
    /\ Reply /\ sendProgress = "StartTxWaitReply" /\ curTrans \in DOMAIN trans
    /\ calls # <<>> /\ Head(calls).action = "StartTransaction" /\ Head(calls).received
    /\ trans'[curTrans].transactionId = Head(calls).transactionId
    /\ trans'[curTrans].lastSentMeterValIdx = -1
    /\ sendProgress' = "Meter" /\ meterValIdx' = -1 /\ UNCHANGED curTrans

(* The answer to MeterValues confirms the next value. *)
MeterAnswered ==
    /\ Reply /\ sendProgress = "MeterWaitReply" /\ curTrans \in DOMAIN trans
    /\ calls # <<>> /\ Head(calls).action = "MeterValues" /\ Head(calls).received
    /\ trans'[curTrans].transactionId = TransId(curTrans)
    /\ trans'[curTrans].lastSentMeterValIdx = NextMeterValIdx
    /\ sendProgress' = "Meter" /\ meterValIdx' = NextMeterValIdx /\ UNCHANGED curTrans

(* A step leaves what has been reported of transaction t. *)
SameReport(t) ==
    /\ trans'[t].transactionId = TransId(t)
    /\ trans'[t].lastSentMeterValIdx = trans[t].lastSentMeterValIdx

(* An answer changes the transaction the requester waits for, or none. *)
LEMMA AnswerStep ==
    ASSUME TypeOK, CursorInUse, Reply
    PROVE  /\ UNCHANGED <<csTrans, connVars, resumed, curTrans>>
           /\ \/ UNCHANGED trans
              \/ /\ StartAnswered \/ MeterAnswered
                 /\ \A t \in DOMAIN trans : t # curTrans => trans'[t] = trans[t]
<1>1. /\ UNCHANGED <<csTrans, connVars, resumed>>
      /\ calls # <<>> /\ Head(calls).received
      /\ \/ /\ Head(calls).action = "StartTransaction"
            /\ OnStartTransactionResponded(IdTag[Head(calls).session], Head(calls).transactionId)
         \/ Head(calls).action = "MeterValues" /\ OnMeterValueResponded(Head(calls).transactionId)
         \/ UNCHANGED <<trans, curTrans>>
  BY DEF Reply, OnStopTransactionResponded, historyVars, requesterVars
<1>2. /\ Head(calls) \in CallMessage
      /\ curTrans \in DOMAIN trans \cup {NoTrans} /\ NextMeterValIdx \in Int
  BY <1>1, HeadTailProperties DEF TypeOK, RequesterTypeOK, NextMeterValIdx
<1>3. CASE /\ Head(calls).action = "StartTransaction"
           /\ OnStartTransactionResponded(IdTag[Head(calls).session], Head(calls).transactionId)
  <2> DEFINE id == Head(calls).transactionId
  <2>1. UNCHANGED curTrans
    BY <1>3 DEF OnStartTransactionResponded
  <2>2. CASE UNCHANGED trans
    BY <1>1, <2>1, <2>2
  <2>3. CASE /\ sendProgress = "StartTxWaitReply" /\ SetTransactionId(curTrans, id)
             /\ sendProgress' = "Meter" /\ meterValIdx' = -1
    <3>1. curTrans \in DOMAIN trans /\ id \in Int
      BY <1>2, <2>3 DEF CursorInUse, CallMessage
    <3>2. /\ \A t \in DOMAIN trans : t # curTrans => trans'[t] = trans[t]
          /\ trans'[curTrans] = [trans[curTrans] EXCEPT !.transactionId = id, !.lastSentMeterValIdx = -1]
      <4> HIDE DEF id
      <4>1. /\ OnlyChanges(curTrans)
            /\ trans'[curTrans] = [trans[curTrans] EXCEPT !.transactionId = id, !.lastSentMeterValIdx = -1]
        BY <2>3, <3>1, IdSet
      <4> QED
        BY <4>1 DEF OnlyChanges
    <3>3. trans'[curTrans].transactionId = id /\ trans'[curTrans].lastSentMeterValIdx = -1
      <4> DEFINE ti == [trans[curTrans] EXCEPT !.transactionId = id]
      <4>1. ti \in Transaction /\ ti.transactionId = id
        <5>1. trans[curTrans] \in Transaction
          BY <3>1, ListTypes
        <5> HIDE DEF id
        <5> QED
          BY <3>1, <5>1 DEF Transaction
      <4>2. trans'[curTrans] = [ti EXCEPT !.lastSentMeterValIdx = -1]
        BY <3>2
      <4> HIDE DEF ti
      <4> QED
        BY <4>1, <4>2 DEF Transaction
    <3> QED
      BY <1>1, <1>3, <2>1, <2>3, <3>1, <3>2, <3>3 DEF StartAnswered
  <2> QED
    BY <1>3, <2>2, <2>3 DEF OnStartTransactionResponded, GoTo
<1>4. CASE Head(calls).action = "MeterValues" /\ OnMeterValueResponded(Head(calls).transactionId)
  <2>1. UNCHANGED curTrans
    BY <1>4 DEF OnMeterValueResponded
  <2>2. CASE UNCHANGED trans
    BY <1>1, <2>1, <2>2
  <2>3. CASE /\ sendProgress = "MeterWaitReply"
             /\ trans' = [trans EXCEPT ![curTrans].lastSentMeterValIdx = NextMeterValIdx]
             /\ sendProgress' = "Meter" /\ meterValIdx' = NextMeterValIdx
    <3>1. curTrans \in DOMAIN trans
      BY <1>2, <2>3 DEF CursorInUse
    <3>2. trans[curTrans] \in Transaction
      BY <3>1, ListTypes
    <3>3. /\ \A t \in DOMAIN trans : t # curTrans => trans'[t] = trans[t]
          /\ trans'[curTrans] = [trans[curTrans] EXCEPT !.lastSentMeterValIdx = NextMeterValIdx]
      BY <1>2, <2>3, <3>1, Confirmed DEF OnlyChanges
    <3>4. trans'[curTrans].transactionId = TransId(curTrans) /\ trans'[curTrans].lastSentMeterValIdx = NextMeterValIdx
      BY <3>2, <3>3 DEF Transaction, TransId
    <3> QED
      BY <1>1, <1>4, <2>1, <2>3, <3>1, <3>3, <3>4 DEF MeterAnswered
  <2> QED
    BY <1>4, <2>2, <2>3 DEF OnMeterValueResponded, GoTo
<1> QED
  BY <1>1, <1>3, <1>4

(* Only an answer changes the id or the index of the last value sent.      *)
LEMMA SentChange ==
    ASSUME TypeOK, CursorInUse, ConnectorInv, Next, ~Restart, ~RestartResuming,
           NEW t \in DOMAIN trans
    PROVE  SameReport(t) \/ (t = curTrans /\ (StartAnswered \/ MeterAnswered))
<1> USE DEF SameReport, TransId
<1>1. trans[t] \in Transaction
  BY ListTypes
<1>2. CASE trans'[t] = trans[t]
  BY <1>2
<1>3. ASSUME NEW s \in Session, NEW id \in Int, AddActive(s, id)
      PROVE  trans'[t] = trans[t]
  BY <1>3, Added
<1>4. ASSUME NEW s \in Session, ChargeCommandAccepted(s)
      PROVE  trans'[t] = trans[t]
  BY <1>3, <1>4 DEF ChargeCommandAccepted, StartNew
<1>5. CASE ResumedCommandAccepted
  <2>1. connector.session \in Session /\ connector.resumedId \in Int
    BY <1>5 DEF ResumedCommandAccepted, ConnectorInv, TypeOK
  <2> QED
    BY <1>2, <1>3, <1>5, <2>1 DEF ResumedCommandAccepted, ResumeTransaction
<1>6. ASSUME NEW e \in DOMAIN trans, NEW st \in Status, trans' = [trans EXCEPT ![e].st = st]
      PROVE  SameReport(t)
  <2>1. t # e => trans'[t] = trans[t]
    BY <1>6, Ended DEF OnlyChanges
  <2>2. t = e => trans'[t] = [trans[t] EXCEPT !.st = st]
    BY <1>6, Ended
  <2> QED
    BY <1>1, <2>1, <2>2 DEF Transaction
<1>7. CASE ChargeCommandCanceled
  <2>1. GetNewest \in DOMAIN trans /\ trans' = [trans EXCEPT ![GetNewest].st = "Canceled"]
    BY <1>7, NewestAndActive DEF ChargeCommandCanceled, Cancel
  <2> QED
    BY <1>6, <2>1 DEF Status
<1>8. CASE ChargeFinished /\ Finish
  <2>1. currentTransc \in DOMAIN trans /\ trans' = [trans EXCEPT ![currentTransc].st = "Finished"]
    BY <1>8 DEF Finish, CanFinish, TypeOK, RegistryTypeOK
  <2> QED
    BY <1>6, <2>1 DEF Status
<1>9. CASE MeterSampleTimeout
  <2>1. GetNewest \in DOMAIN trans /\ trans' = [trans EXCEPT ![GetNewest].meterVals = @ + 1]
    BY <1>9, NewestAndActive DEF MeterSampleTimeout, UpdateActiveTransactionMeterValue
  <2>2. t # GetNewest => trans'[t] = trans[t]
    BY <2>1, ValueAdded DEF OnlyChanges
  <2>3. t = GetNewest => trans'[t] = [trans[t] EXCEPT !.meterVals = @ + 1]
    BY <2>1, ValueAdded
  <2> QED
    BY <1>1, <2>2, <2>3 DEF Transaction
<1>10. CASE Process /\ (ProcessCompleted \/ ProcessError)
  BY <1>2, <1>10, ReportDone
<1>11. CASE Reply
  BY <1>2, <1>11, AnswerStep
<1>12. CASE UNCHANGED registryVars
  BY <1>2, <1>12 DEF registryVars
<1> QED
  BY <1>2, <1>4, <1>5, <1>7, <1>8, <1>9, <1>10, <1>11, <1>12, RegistryUnchanged

(* Cancel ends the newest transaction, Finish the current one.             *)
LEMMA EndStep ==
    ASSUME TypeOK, CursorInUse, ConnectorInv, Next, ~Restart, ~RestartResuming,
           NEW t \in DOMAIN trans
    PROVE  \/ trans'[t].st = trans[t].st
           \/ /\ connector' = Idle
              /\ \/ Cancel /\ t = GetNewest /\ trans'[t].st = "Canceled"
                 \/ Finish /\ t = currentTransc /\ trans'[t].st = "Finished"
<1>1. Cancel /\ t # GetNewest => trans'[t] = trans[t]
  <2>1. Cancel => GetNewest \in DOMAIN trans /\ trans' = [trans EXCEPT ![GetNewest].st = "Canceled"]
    BY NewestAndActive DEF Cancel
  <2> QED
    BY <2>1, Ended DEF Status, OnlyChanges
<1> QED
  BY <1>1, TransChange

(* How the registry's list and its current transaction change.             *)
LEMMA ListStep ==
    ASSUME TypeOK, CursorInUse, ConnectorInv, Next, ~Restart, ~RestartResuming
    PROVE  /\ currentTransc' \in {currentTransc, NoTrans, Len(trans) + 1}
           /\ currentTransc' = Len(trans) + 1 =>
                \E s \in Session : /\ ChargeCommandAccepted(s)
                                   /\ trans'[currentTransc'] = Started(s, -1)
           /\ \/ UNCHANGED transItems /\ GetNewest' = GetNewest
              \/ /\ GetNewest' = Len(trans) + 1
                 /\ ResumedCommandAccepted \/ \E s \in Session : ChargeCommandAccepted(s)
                 /\ transItems' = Append(transItems, Len(trans) + 1)
              \/ Process /\ (ProcessCompleted \/ ProcessError)
<1> DEFINE Unchanged == UNCHANGED <<currentTransc, transItems>>
<1>1. Len(trans) \in Nat /\ DOMAIN trans = 1..Len(trans) /\ currentTransc \in DOMAIN trans \cup {NoTrans}
  BY ListTypes DEF TypeOK, RegistryTypeOK
<1>2. currentTransc # Len(trans) + 1 /\ NoTrans # Len(trans) + 1
  BY <1>1 DEF NoTrans
<1>3. ASSUME NEW s \in Session, NEW id \in Int, AddActive(s, id)
      PROVE  /\ GetNewest' = Len(trans) + 1 /\ transItems' = Append(transItems, Len(trans) + 1)
             /\ trans'[Len(trans) + 1] = Started(s, id)
  <2>1. /\ transItems' = Append(transItems, Len(trans) + 1)
        /\ Len(transItems') = Len(transItems) + 1 /\ transItems'[Len(transItems) + 1] = Len(trans) + 1
        /\ trans'[Len(trans) + 1] = Started(s, id)
    BY <1>3, Added DEF AddActive
  <2>2. transItems' # <<>>
    BY <2>1, ListTypes
  <2> QED
    BY <2>1, <2>2 DEF GetNewest, Last
<1>4. ASSUME NEW s \in Session, ChargeCommandAccepted(s)
      PROVE  /\ GetNewest' = Len(trans) + 1 /\ transItems' = Append(transItems, Len(trans) + 1)
             /\ currentTransc' = Len(trans) + 1 /\ trans'[Len(trans) + 1] = Started(s, -1)
  BY <1>3, <1>4 DEF ChargeCommandAccepted, StartNew
<1>5. CASE ResumedCommandAccepted
  <2>1. connector.session \in Session /\ connector.resumedId \in Int
    BY <1>5 DEF ResumedCommandAccepted, ConnectorInv, TypeOK
  <2>2. /\ GetNewest' = Len(trans) + 1 /\ transItems' = Append(transItems, Len(trans) + 1)
        /\ UNCHANGED currentTransc
    BY <1>3, <1>5, <2>1 DEF ResumedCommandAccepted, ResumeTransaction
  <2> QED
    BY <1>2, <1>5, <2>2
<1>6. CASE Process /\ (ProcessCompleted \/ ProcessError)
  BY <1>2, <1>6, ReportDone
<1>7. CASE Unchanged
  BY <1>2, <1>7 DEF GetNewest, Last
<1>8. CASE ChargeCommandCanceled \/ (ChargeFinished /\ Finish) \/ MeterSampleTimeout \/ Reply
  BY <1>7, <1>8 DEF ChargeCommandCanceled, Cancel, Finish, MeterSampleTimeout, UpdateActiveTransactionMeterValue, Reply
<1>9. CASE UNCHANGED registryVars
  BY <1>7, <1>9 DEF registryVars
<1> QED
  BY <1>4, <1>5, <1>6, <1>7, <1>8, <1>9, RegistryUnchanged

(* Steps of the requester's report that are not answers. At Idle the      *)
(* cursor moves.                                                          *)
TakesTransaction ==
    /\ sendProgress = "Idle" /\ sendProgress' = "Idle"
    /\ meterValIdx' \in {meterValIdx, -1}

(* Steps outside the meter values, which lead to none. *)
NothingToMeasure ==
    /\ sendProgress \notin MeterOn
    /\ sendProgress' \notin MeterOn \cup {"StartTx", "StartTxWaitReply"}
    /\ sendProgress' = "Idle" => meterValIdx' = -1

(* The report of values ends with the transaction. *)
LeavesMeter ==
    /\ sendProgress = "Meter" /\ sendProgress' = "StopTx"
    /\ UNCHANGED curTrans
    /\ \/ ~IsActive(curTrans)
       \/ connector' = Idle /\ Cancel /\ curTrans = GetNewest
       \/ connector' = Idle /\ Finish /\ curTrans = currentTransc

(* A report begins: without an id with StartTransaction, with one after   *)
(* the value last sent.                                                   *)
BeginsReport ==
    /\ sendProgress = "Idle" /\ curTrans # NoTrans
    /\ UNCHANGED <<registryVars, curTrans, calls, csTrans, resumed>>
    /\ \/ /\ sendProgress' = "StartTx" /\ ~HasTransactionId(curTrans)
       \/ /\ sendProgress' = "Meter" /\ HasTransactionId(curTrans)
          /\ meterValIdx' = IF HasSentMeterValIdx(curTrans)
                            THEN trans[curTrans].lastSentMeterValIdx - 1 ELSE meterValIdx

(* The requester makes StartTransaction or MeterValues. *)
MakesCall ==
    /\ \/ sendProgress = "StartTx" /\ sendProgress' = "StartTxWaitReply"
       \/ sendProgress = "Meter" /\ sendProgress' = "MeterWaitReply"
    /\ UNCHANGED <<registryVars, curTrans, meterValIdx, csTrans, resumed>>

(* Every step between restarts leaves the report alone or is one of       *)
(* these.                                                                 *)
LEMMA ReportStep ==
    ASSUME TypeOK, CursorInUse, MeterCallInv, ResumingInv, Next, ~Restart, ~RestartResuming
    PROVE  \/ UNCHANGED <<sendProgress, curTrans, meterValIdx>>
           \/ TakesTransaction \/ NothingToMeasure \/ LeavesMeter
           \/ BeginsReport \/ MakesCall
           \/ StartAnswered \/ MeterAnswered
<1> DEFINE Same == UNCHANGED <<sendProgress, curTrans, meterValIdx>>
<1>1. ASSUME NEW items, NextTransaction(items)
      PROVE  Same \/ TakesTransaction
  BY <1>1 DEF NextTransaction, TakeOldest, TakesTransaction
<1>2. ASSUME NEW s \in Session, ChargeCommandAccepted(s)
      PROVE  Same \/ TakesTransaction
  BY <1>1, <1>2 DEF ChargeCommandAccepted
<1>3. CASE OnCheckTransactionTimeout
  BY <1>1, <1>3 DEF OnCheckTransactionTimeout
<1>4. CASE ResumedCommandAccepted
  <2>1. sendProgress # "Idle"
    BY <1>4 DEF ResumedCommandAccepted, ResumingInv, MeterOn
  <2> QED
    BY <1>4, <2>1 DEF ResumedCommandAccepted, ResumeTransaction, OnChargingResumed, Unconcerned, requesterVars
<1>6. CASE ChargeCommandCanceled
  BY <1>6 DEF ChargeCommandCanceled, OnChargingEnded, IsWaitingForMeterValue, GoTo, Unconcerned, requesterVars, LeavesMeter
<1>7. CASE ChargeFinished
  BY <1>7 DEF ChargeFinished, OnChargingEnded, IsWaitingForMeterValue, GoTo, Unconcerned, requesterVars, LeavesMeter
<1>8. CASE MeterSampleTimeout
  BY <1>8 DEF MeterSampleTimeout, OnMeterValUpdated
<1>9. CASE Process
  <2>1. UNCHANGED <<csTrans, resumed>>
    BY <1>9 DEF Process, historyVars
  <2>2. CASE ProcessCompleted \/ ProcessError
    <3>1. sendProgress \notin MeterOn /\ sendProgress' = "Idle" /\ meterValIdx' = -1
      BY <2>2 DEF ProcessCompleted, ProcessError, OnTransactionCompleted, OnTransactionError,
         ResetAndTakeOldest, TakeOldest, MeterOn
    <3> QED
      BY <3>1 DEF NothingToMeasure, MeterOn
  <2>3. CASE ProcessIdle /\ UNCHANGED registryVars
    BY <2>1, <2>3 DEF ProcessIdle, Step, Stay, BeginsReport, TakesTransaction
  <2>4. CASE ProcessStartTx /\ UNCHANGED registryVars
    BY <2>1, <2>4 DEF ProcessStartTx, Step, MakesCall, NothingToMeasure, MeterOn
  <2>5. CASE ProcessMeter /\ UNCHANGED registryVars
    BY <2>1, <2>5 DEF ProcessMeter, Step, Stay, MakesCall, LeavesMeter
  <2>6. CASE ProcessStopTx /\ UNCHANGED registryVars
    BY <2>6 DEF ProcessStopTx, Step, NothingToMeasure, MeterOn
  <2>7. CASE ProcessWaitReply
    BY <2>7 DEF ProcessWaitReply, Stay
  <2> QED
    BY <1>9, <2>2, <2>3, <2>4, <2>5, <2>6, <2>7 DEF Process
<1>10. CASE Reply
  <2>1. calls # <<>> /\ Head(calls).received
    BY <1>10 DEF Reply
  <2>2. 1 \in DOMAIN calls /\ Head(calls) = calls[1] /\ calls[1] \in CallMessage
    BY <2>1, ListTypes DEF TypeOK, RequesterTypeOK
  <2>3. CASE Head(calls).action = "StartTransaction"
    <3>1. OnStartTransactionResponded(IdTag[Head(calls).session], Head(calls).transactionId)
      BY <1>10, <2>3 DEF Reply
    <3>2. CASE sendProgress # "StartTxWaitReply"
      BY <3>1, <3>2 DEF OnStartTransactionResponded
    <3>3. CASE sendProgress = "StartTxWaitReply" /\ GoTo("Error")
      BY <3>3 DEF GoTo, NothingToMeasure, MeterOn
    <3>4. CASE /\ sendProgress = "StartTxWaitReply"
               /\ SetTransactionId(curTrans, Head(calls).transactionId) /\ GoTo("Meter") /\ meterValIdx' = -1
      <4>1. curTrans \in DOMAIN trans /\ Head(calls).transactionId \in Int
        BY <2>2, <3>4 DEF CursorInUse, TypeOK, RequesterTypeOK, CallMessage
      <4>2. trans'[curTrans] = [trans[curTrans] EXCEPT !.transactionId = Head(calls).transactionId,
                                                       !.lastSentMeterValIdx = -1]
        BY <3>4, <4>1, IdSet
      <4>3. trans[curTrans] \in Transaction
        BY <4>1, ListTypes
      <4>4. /\ trans'[curTrans].transactionId = Head(calls).transactionId
            /\ trans'[curTrans].lastSentMeterValIdx = -1
        <5> DEFINE id == Head(calls).transactionId
        <5> DEFINE ti == [trans[curTrans] EXCEPT !.transactionId = id]
        <5>1. ti \in Transaction /\ ti.transactionId = id
          <6> HIDE DEF id
          <6> QED
            BY <4>1, <4>3 DEF Transaction, id
        <5>2. trans'[curTrans] = [ti EXCEPT !.lastSentMeterValIdx = -1]
          BY <4>2
        <5> HIDE DEF ti
        <5> QED
          BY <5>1, <5>2 DEF Transaction
      <4> QED
        BY <1>10, <2>1, <2>3, <3>1, <3>4, <4>1, <4>4 DEF StartAnswered, GoTo, OnStartTransactionResponded
    <3> QED
      BY <3>1, <3>2, <3>3, <3>4 DEF OnStartTransactionResponded
  <2>4. CASE Head(calls).action = "MeterValues"
    <3>1. OnMeterValueResponded(Head(calls).transactionId)
      BY <1>10, <2>4 DEF Reply
    <3>2. /\ sendProgress = "MeterWaitReply" /\ Head(calls).transactionId = TransId(curTrans)
      BY <2>2, <2>4 DEF MeterCallInv
    <3>3. /\ meterValIdx' = NextMeterValIdx /\ sendProgress' = "Meter" /\ UNCHANGED curTrans
          /\ trans' = [trans EXCEPT ![curTrans].lastSentMeterValIdx = NextMeterValIdx]
      BY <3>1, <3>2 DEF OnMeterValueResponded, GoTo, TransId
    <3>4. curTrans \in DOMAIN trans /\ NextMeterValIdx \in Int
      BY <3>2 DEF CursorInUse, TypeOK, RequesterTypeOK, NextMeterValIdx
    <3>5. trans'[curTrans] = [trans[curTrans] EXCEPT !.lastSentMeterValIdx = NextMeterValIdx]
      BY <3>3, <3>4, Confirmed
    <3>6. trans[curTrans] \in Transaction
      BY <3>4, ListTypes
    <3>7. trans'[curTrans].transactionId = TransId(curTrans) /\ trans'[curTrans].lastSentMeterValIdx = NextMeterValIdx
      BY <3>5, <3>6 DEF Transaction, TransId
    <3> QED
      BY <1>10, <2>1, <2>4, <3>2, <3>3, <3>4, <3>7 DEF MeterAnswered
  <2>5. CASE Head(calls).action = "StopTransaction"
    <3>1. \/ UNCHANGED requesterVars
          \/ \E accepted \in BOOLEAN : OnStopTransactionResponded(accepted, Head(calls).transactionId)
      BY <1>10, <2>5 DEF Reply
    <3> QED
      BY <3>1 DEF OnStopTransactionResponded, GoTo, requesterVars, NothingToMeasure, MeterOn
  <2> QED
    BY <2>2, <2>3, <2>4, <2>5 DEF CallMessage
<1> QED
  BY <1>2, <1>3, <1>4, <1>6, <1>7, <1>8, <1>9, <1>10
  DEF Next, Charger, Reporting, ChargingBegins, ModifyRecord, ClearRecord, WsConnected, WsDisconnected,
      OtherReply, CsReceives, ConnectionFailTimeout, ReplyNotReported, requesterVars

(* How the connector and the progress record change between restarts. *)
LEMMA ConnectorChange ==
    ASSUME TypeOK, Next, ~Restart, ~RestartResuming
    PROVE  /\ \/ UNCHANGED connector \/ connector' = Idle
              \/ \E s \in Session :
                   /\ ChargeCommandAccepted(s)
                   /\ connector' = [phase |-> "accepted", session |-> s, resumedId |-> -1]
              \/ /\ connector.phase # "idle" /\ connector'.phase = "charging"
                 /\ connector'.session = connector.session /\ connector'.resumedId = connector.resumedId
           /\ \/ UNCHANGED progressFile
              \/ progressFile' = NoRecord
              \/ ModifyRecord
<1>1. CASE ResumedCommandAccepted \/ ChargingBegins
  <2>1. connector' = [connector EXCEPT !.phase = "charging"] /\ connector.phase # "idle" /\ UNCHANGED progressFile
    BY <1>1 DEF ResumedCommandAccepted, ChargingBegins
  <2> QED
    BY <2>1 DEF TypeOK
<1>2. CASE ~ResumedCommandAccepted /\ ~ChargingBegins
  BY <1>2 DEF Next, Charger, Reporting, ChargeCommandAccepted, ChargeCommandCanceled, ChargeFinished,
     MeterSampleTimeout, ModifyRecord, ClearRecord, Process, WsConnected, WsDisconnected, OtherReply, CsReceives,
     Reply, OnCheckTransactionTimeout, ConnectionFailTimeout, ReplyNotReported, connVars
<1> QED
  BY <1>1, <1>2

(* An id in use is one the CS has given. *)
LEMMA UnresumedInUse ==
    ASSUME TypeOK, TypeOK', IdInv, Next, NEW id, UnresumedNext(id),
           \/ \E t \in DOMAIN trans : TransId(t) = id
           \/ \E j \in DOMAIN offlineFile : offlineFile[j].transactionId = id
           \/ progressFile.transactionId = id
    PROVE  Unresumed(id) /\ id \in Nat /\ csTrans'[id].session = csTrans[id].session
<1>1. id \in DOMAIN csTrans' /\ DOMAIN csTrans' \subseteq Nat
  BY LenProperties DEF UnresumedNext, TypeOK
<1>2. id \in DOMAIN csTrans
  BY <1>1 DEF IdInv, HasTransactionId, TransId, Identifies
<1> QED
  BY <1>1, <1>2, UnresumedBefore, CsStep

(* The CS has no value below the first one. *)
LEMMA MeterValAtLeast ==
    ASSUME TypeOK, IndexInv, MeterCallInv, Next, NEW i \in DOMAIN csTrans'
    PROVE  csTrans'[i].meterVal >= -1
<1>1. CASE i \notin DOMAIN csTrans
  BY <1>1, MeterValStep
<1>2. CASE i \in DOMAIN csTrans
  BY <1>2, MeterValReceived DEF IndexInv
<1> QED
  BY <1>1, <1>2

(* The requester's index stays behind the CS's value. A report begins     *)
(* with the index of the transaction, and an answer counts a value the    *)
(* CS has received.                                                       *)
LEMMA IndexStep ==
    ASSUME IInv, GapInv, Next, ~Restart, ~RestartResuming
    PROVE  IndexInv'
<1>1. /\ TypeOK /\ TypeOK' /\ CursorInUse /\ ConnectorInv /\ IdInv /\ ReportStage
      /\ IndexInv /\ SentInv /\ MeterCallInv /\ ResumingInv
  BY TypeStep DEF IInv, GapInv, CursorInUse, CursorRegistered
<1>2. /\ curTrans # NoTrans => curTrans \in DOMAIN trans
      /\ sendProgress # "Idle" => curTrans \in DOMAIN trans
      /\ meterValIdx \in Int
  BY <1>1 DEF TypeOK, RequesterTypeOK, CursorInUse
<1>3. \A i \in DOMAIN csTrans' : csTrans'[i].meterVal >= -1
  BY <1>1, MeterValAtLeast
<1>4. sendProgress' = "Idle" => meterValIdx' = -1
  BY <1>1, ReportStep DEF IndexInv, TakesTransaction, NothingToMeasure, LeavesMeter, BeginsReport, MakesCall,
     StartAnswered, MeterAnswered
<1>5. ASSUME sendProgress' \in {"StartTx", "StartTxWaitReply"}
      PROVE  ~(trans'[curTrans'].transactionId >= 0)
  <2>1. CASE UNCHANGED <<sendProgress, curTrans, meterValIdx>>
    BY <1>1, <1>2, <1>5, <2>1, SentChange DEF IndexInv, SameReport, StartAnswered, MeterAnswered, HasTransactionId, TransId
  <2>2. CASE BeginsReport
    BY <1>5, <2>2 DEF BeginsReport, HasTransactionId, registryVars
  <2>3. CASE MakesCall
    BY <1>1, <1>5, <2>3 DEF MakesCall, IndexInv, HasTransactionId, registryVars
  <2> QED
    BY <1>1, <1>5, <2>1, <2>2, <2>3, ReportStep DEF TakesTransaction, NothingToMeasure, LeavesMeter,
       StartAnswered, MeterAnswered
<1>6. ASSUME sendProgress' \in MeterOn, UnresumedNext(trans'[curTrans'].transactionId)
      PROVE  /\ meterValIdx' <= csTrans'[trans'[curTrans'].transactionId].meterVal
             /\ trans'[curTrans'].lastSentMeterValIdx <= meterValIdx' + 1
  <2>1. trans'[curTrans'].transactionId \in DOMAIN csTrans'
    BY <1>6 DEF UnresumedNext
  <2>2. CASE StartAnswered
    BY <1>3, <2>1, <2>2 DEF StartAnswered
  <2>3. StartAnswered \/ (curTrans \in DOMAIN trans /\ UNCHANGED curTrans)
    BY <1>1, <1>2, <1>6, ReportStep DEF MeterOn, TakesTransaction, NothingToMeasure, LeavesMeter,
       BeginsReport, MakesCall, StartAnswered, MeterAnswered
  <2>4. CASE ~StartAnswered
    <3>1. curTrans \in DOMAIN trans /\ UNCHANGED curTrans
      BY <2>3, <2>4
    <3> DEFINE id == TransId(curTrans)
    <3>2. trans'[curTrans].transactionId = id
      BY <1>1, <2>4, <3>1, SentChange DEF SameReport, MeterAnswered
    <3>3. Unresumed(id) /\ id \in DOMAIN csTrans
      BY <1>1, <1>6, <3>1, <3>2, UnresumedInUse DEF Unresumed
    <3>4. csTrans[id].meterVal \in Int /\ trans[curTrans].lastSentMeterValIdx \in Int /\ csTrans[id].meterVal >= -1
      BY <1>1, <3>1, <3>3, ListTypes DEF Transaction, IndexInv
    <3>5. CASE MeterAnswered
      <4>1. calls[1].action = "MeterValues" /\ calls[1].received /\ 1 \in DOMAIN calls
        BY <1>1, <3>5, ListTypes DEF MeterAnswered
      <4>2. csTrans[id].meterVal = NextMeterValIdx
        BY <1>1, <3>3, <4>1 DEF MeterCallInv
      <4>3. csTrans' = csTrans
        BY <1>1, <3>5, AnswerStep DEF MeterAnswered
      <4>4. /\ trans'[curTrans].lastSentMeterValIdx = NextMeterValIdx /\ meterValIdx' = NextMeterValIdx
            /\ NextMeterValIdx \in Int
        BY <1>2, <3>5 DEF MeterAnswered, NextMeterValIdx
      <4> QED
        BY <3>1, <3>2, <4>2, <4>3, <4>4
    <3>6. CASE BeginsReport
      <4>1. /\ trans' = trans /\ csTrans' = csTrans /\ meterValIdx = -1
            /\ meterValIdx' = IF trans[curTrans].lastSentMeterValIdx >= 0
                              THEN trans[curTrans].lastSentMeterValIdx - 1 ELSE -1
        BY <1>1, <1>6, <3>6 DEF BeginsReport, MeterOn, registryVars, HasSentMeterValIdx, IndexInv
      <4>2. trans[curTrans].lastSentMeterValIdx <= csTrans[id].meterVal
        BY <1>1, <3>1, <3>3 DEF SentInv
      <4> QED
        BY <3>1, <3>2, <3>4, <4>1, <4>2
    <3>7. CASE ~MeterAnswered /\ ~BeginsReport
      <4>1. sendProgress \in MeterOn /\ UNCHANGED meterValIdx
        BY <1>1, <1>6, <2>4, <3>7, ReportStep DEF MeterOn, TakesTransaction, NothingToMeasure, LeavesMeter, MakesCall
      <4>2. /\ meterValIdx <= csTrans[id].meterVal
            /\ trans[curTrans].lastSentMeterValIdx <= meterValIdx + 1
        BY <1>1, <3>3, <4>1 DEF IndexInv
      <4>3. trans'[curTrans].lastSentMeterValIdx = trans[curTrans].lastSentMeterValIdx
        BY <1>1, <2>4, <3>1, <3>7, SentChange DEF SameReport
      <4>4. meterValIdx <= csTrans'[id].meterVal
        <5>1. csTrans'[id].meterVal = csTrans[id].meterVal
              \/ csTrans'[id].meterVal = NextMeterValIdx
          BY <1>1, <3>3, MeterValReceived
        <5>2. NextMeterValIdx >= meterValIdx
          BY <1>2 DEF NextMeterValIdx
        <5> QED
          BY <4>2, <5>1, <5>2
      <4> QED
        BY <3>1, <3>2, <4>1, <4>2, <4>3, <4>4
    <3> QED
      BY <3>5, <3>6, <3>7
  <2> QED
    BY <2>2, <2>4
<1> QED
  BY <1>3, <1>4, <1>5, <1>6 DEF IndexInv, HasTransactionId, TransId, MeterOn, Unresumed, UnresumedNext

(* The index of a transaction changes only with the answer for the        *)
(* requester's.                                                           *)
LEMMA SentStep ==
    ASSUME IInv, GapInv, Next, ~Restart, ~RestartResuming
    PROVE  SentInv'
<1>1. /\ TypeOK /\ TypeOK' /\ CursorInUse /\ ConnectorInv /\ IdInv /\ ReportStage
      /\ IndexInv /\ SentInv /\ MeterCallInv /\ ResumingInv /\ SharedInv
  BY TypeStep DEF IInv, GapInv, CursorInUse, CursorRegistered
<1>2. \A i \in DOMAIN csTrans' : csTrans'[i].meterVal >= -1
  BY <1>1, MeterValAtLeast
<1> SUFFICES ASSUME NEW t \in DOMAIN trans', UnresumedNext(trans'[t].transactionId)
             PROVE  trans'[t].lastSentMeterValIdx <= csTrans'[trans'[t].transactionId].meterVal
  BY DEF SentInv, TransId, Unresumed, UnresumedNext
<1> DEFINE id == trans'[t].transactionId
<1>3. id \in DOMAIN csTrans' /\ csTrans'[id].meterVal >= -1 /\ csTrans'[id].meterVal \in Int
  BY <1>1, <1>2, ListTypesNext DEF UnresumedNext, CsTransaction
<1>4. CASE trans'[t].lastSentMeterValIdx = -1
  BY <1>3, <1>4
<1>5. CASE t \notin DOMAIN trans
  BY <1>1, <1>4, <1>5, TransNew DEF Started
<1>6. CASE t \in DOMAIN trans /\ t = curTrans /\ StartAnswered
  BY <1>4, <1>6 DEF StartAnswered
<1>7. CASE t \in DOMAIN trans /\ ~(t = curTrans /\ StartAnswered)
  <2>1. id = TransId(t)
    BY <1>1, <1>7, SentChange DEF SameReport, MeterAnswered
  <2>2. Unresumed(id) /\ id \in DOMAIN csTrans
    BY <1>1, <1>7, <2>1, UnresumedInUse DEF Unresumed
  <2>3. trans[t].lastSentMeterValIdx <= csTrans[id].meterVal
    BY <1>1, <1>7, <2>1, <2>2 DEF SentInv
  <2>4. /\ csTrans[id].meterVal \in Int /\ trans[t].lastSentMeterValIdx \in Int
        /\ meterValIdx \in Int
    <3>1. trans[t] \in Transaction /\ csTrans[id] \in CsTransaction
      BY <1>1, <1>7, <2>2, ListTypes DEF CsTransaction
    <3>2. meterValIdx \in Int
      BY <1>1 DEF TypeOK, RequesterTypeOK
    <3> QED
      BY <3>1, <3>2 DEF Transaction, CsTransaction
  <2>5. CASE t = curTrans /\ MeterAnswered
    <3>1. calls[1].action = "MeterValues" /\ calls[1].received /\ 1 \in DOMAIN calls
      BY <1>1, <2>5, ListTypes DEF MeterAnswered
    <3>2. csTrans[id].meterVal = NextMeterValIdx
      BY <1>1, <2>1, <2>2, <2>5, <3>1 DEF MeterCallInv
    <3>3. csTrans' = csTrans
      BY <1>1, <2>5, AnswerStep DEF MeterAnswered
    <3> QED
      BY <2>4, <2>5, <3>2, <3>3 DEF MeterAnswered
  <2>6. CASE trans'[t].lastSentMeterValIdx = trans[t].lastSentMeterValIdx
    <3>1. CASE csTrans'[id].meterVal = csTrans[id].meterVal
      BY <2>3, <2>6, <3>1
    <3>2. CASE /\ sendProgress = "MeterWaitReply" /\ id = TransId(curTrans)
               /\ csTrans'[id].meterVal = NextMeterValIdx /\ NextMeterValIdx \in Nat
      <4>1. curTrans \in DOMAIN trans
        BY <1>1, <3>2 DEF CursorInUse, TypeOK, RequesterTypeOK
      <4>2. CASE t = curTrans
        <5>1. trans[t].lastSentMeterValIdx <= meterValIdx + 1
          BY <1>1, <2>2, <3>2, <4>2 DEF IndexInv, MeterOn
        <5> QED
          BY <2>4, <2>6, <3>2, <5>1 DEF NextMeterValIdx
      <4>3. CASE t # curTrans
        <5>1. Unreported(t)
          BY <1>1, <1>7, <2>1, <2>2, <3>2, <4>1, <4>3 DEF SharedInv
        <5> QED
          BY <1>4, <2>6, <5>1 DEF Unreported
      <4> QED
        BY <4>2, <4>3
    <3> QED
      BY <1>1, <2>2, <3>1, <3>2, MeterValReceived
  <2> QED
    BY <1>1, <1>7, <2>5, <2>6, SentChange DEF SameReport
<1> QED
  BY <1>5, <1>6, <1>7

(* A MeterValues is made only in Meter, when no other is on its way, and  *)
(* its answer removes it.                                                 *)
LEMMA MeterCallStep ==
    ASSUME IInv, GapInv, Next, ~Restart, ~RestartResuming
    PROVE  MeterCallInv'
<1>1. /\ TypeOK /\ TypeOK' /\ CursorInUse /\ ConnectorInv /\ IdInv
      /\ MeterCallInv /\ ResumingInv
      /\ Len(calls) \in Nat /\ DOMAIN calls = 1..Len(calls) /\ calls \in Seq(CallMessage)
      /\ Len(calls') \in Nat /\ DOMAIN calls' = 1..Len(calls')
      /\ NextMeterValIdx \in Int
  <2>1. /\ TypeOK /\ CursorInUse /\ ConnectorInv /\ IdInv
        /\ MeterCallInv /\ ResumingInv
    BY DEF IInv, GapInv, CursorInUse, CursorRegistered
  <2>2. TypeOK'
    BY <2>1, TypeStep
  <2>3. /\ Len(calls) \in Nat /\ DOMAIN calls = 1..Len(calls)
        /\ Len(calls') \in Nat /\ DOMAIN calls' = 1..Len(calls')
    BY <2>1, <2>2, ListTypes, ListTypesNext
  <2>4. calls \in Seq(CallMessage) /\ NextMeterValIdx \in Int
    BY <2>1 DEF TypeOK, RequesterTypeOK, NextMeterValIdx
  <2> QED
    BY <2>1, <2>2, <2>3, <2>4
<1> DEFINE Good(i) == /\ sendProgress' = "MeterWaitReply"
                      /\ i = Len(calls')
                      /\ calls'[i].transactionId = trans'[curTrans'].transactionId
                      /\ calls'[i].meterVal = NextMeterValIdx'
                      /\ calls'[i].received /\ UnresumedNext(calls'[i].transactionId) =>
                           csTrans'[calls'[i].transactionId].meterVal = calls'[i].meterVal
<1> SUFFICES ASSUME NEW i \in DOMAIN calls', calls'[i].action = "MeterValues" PROVE Good(i)
  BY DEF MeterCallInv, TransId, Unresumed, UnresumedNext
<1>2. ASSUME sendProgress = "MeterWaitReply", ~MeterAnswered
      PROVE  /\ UNCHANGED <<sendProgress, curTrans, meterValIdx>> /\ NextMeterValIdx' = NextMeterValIdx
             /\ curTrans \in DOMAIN trans /\ trans'[curTrans].transactionId = TransId(curTrans)
  <2>1. UNCHANGED <<sendProgress, curTrans, meterValIdx>>
    BY <1>1, <1>2, ReportStep DEF MeterOn, TakesTransaction, NothingToMeasure, LeavesMeter, BeginsReport, MakesCall,
       StartAnswered
  <2>2. curTrans \in DOMAIN trans
    BY <1>1, <1>2 DEF CursorInUse, TypeOK, RequesterTypeOK
  <2>3. SameReport(curTrans)
    BY <1>1, <1>2, <2>2, SentChange DEF StartAnswered
  <2> QED
    BY <2>1, <2>2, <2>3 DEF SameReport, NextMeterValIdx
<1>3. ASSUME NEW k \in DOMAIN calls, calls'[i] = calls[k], i = Len(calls') <=> k = Len(calls), ~MeterAnswered
      PROVE  Good(i)
  <2> DEFINE id == calls[k].transactionId
  <2>1. /\ sendProgress = "MeterWaitReply" /\ k = Len(calls)
        /\ id = TransId(curTrans) /\ calls[k].meterVal = NextMeterValIdx
        /\ calls[k].received /\ Unresumed(id) => csTrans[id].meterVal = calls[k].meterVal
    BY <1>1, <1>3 DEF MeterCallInv
  <2>2. ASSUME calls[k].received, UnresumedNext(id)
        PROVE  csTrans'[id].meterVal = calls[k].meterVal
    <3>1. Unresumed(id) /\ id \in DOMAIN csTrans
      BY <1>1, <1>2, <1>3, <2>1, <2>2, UnresumedInUse DEF Unresumed
    <3> HIDE DEF id
    <3> QED
      BY <1>1, <2>1, <2>2, <3>1, MeterValReceived
  <2> QED
    BY <1>2, <1>3, <2>1, <2>2
<1>4. CASE UNCHANGED calls
  <2>1. ~MeterAnswered
    <3> SUFFICES ASSUME Reply PROVE FALSE
      BY DEF MeterAnswered
    <3>1. calls # <<>> /\ calls' = Tail(calls)
      BY DEF Reply
    <3>2. Len(calls') = Len(calls) - 1
      BY <1>1, <3>1, HeadTailProperties
    <3> QED
      BY <1>1, <1>4, <3>2
  <2> QED
    BY <1>3, <1>4, <2>1
<1>5. CASE CsReceives
  <2>1. UNCHANGED <<registryVars, requesterVars>> /\ UNCHANGED resumed
    BY <1>5 DEF CsReceives, historyVars
  <2>2. /\ i \in DOMAIN calls /\ Len(calls') = Len(calls)
        /\ calls[i].action = "MeterValues" /\ calls'[i].meterVal = calls[i].meterVal
        /\ calls'[i].transactionId = calls[i].transactionId
        /\ i # 1 => calls'[i] = calls[i]
    BY <1>1, <1>5, Received
  <2> DEFINE id == calls[i].transactionId
  <2>3. ~MeterAnswered
    BY <2>1 DEF MeterAnswered, requesterVars
  <2>4. CASE i # 1
    BY <1>1, <1>3, <2>2, <2>3, <2>4
  <2>5. CASE i = 1
    <3>1. /\ sendProgress = "MeterWaitReply" /\ i = Len(calls)
          /\ id = TransId(curTrans) /\ calls[i].meterVal = NextMeterValIdx
      BY <1>1, <2>2 DEF MeterCallInv
    <3>2. ASSUME UnresumedNext(id)
          PROVE  csTrans'[id].meterVal = calls[i].meterVal
      <4>1. id \in DOMAIN csTrans
        BY <1>1, <1>2, <2>3, <3>1, <3>2, UnresumedInUse DEF Unresumed
      <4> DEFINE stop == csTrans[id].stopped \/ calls[1].action = "StopTransaction"
                 val == calls[1].meterVal
                 n1 == [csTrans[id] EXCEPT !.meterVal = val]
                 new == [n1 EXCEPT !.stopped = stop]
      <4>2. csTrans' = [csTrans EXCEPT ![id] = new]
        <5>1. csTrans' = [csTrans EXCEPT
                              ![calls[1].transactionId].meterVal =
                                    IF calls[1].action = "MeterValues" THEN calls[1].meterVal ELSE @,
                              ![calls[1].transactionId].stopped =
                                    @ \/ calls[1].action = "StopTransaction"]
          BY <1>1, <1>5, <2>2, <2>5, <4>1, Received
        <5>2. csTrans' = [csTrans EXCEPT
                              ![id].meterVal = val,
                              ![id].stopped = stop]
          BY <2>2, <2>5, <5>1
        <5> QED
          BY <5>2
      <4>3. csTrans[id] \in CsTransaction /\ val \in Int
        BY <1>1, <2>2, <2>5, <4>1, ListTypes DEF CsTransaction, CallMessage
      <4>4. stop \in BOOLEAN
        OBVIOUS
      <4> HIDE DEF val, stop
      <4>5. n1 \in CsTransaction /\ n1.meterVal = val
        <5> HIDE DEF id
        <5> QED
          BY <4>3 DEF CsTransaction
      <4> HIDE DEF n1
      <4>6. new \in CsTransaction /\ new.meterVal = val
        BY <4>4, <4>5 DEF CsTransaction
      <4> HIDE DEF new
      <4>7. csTrans'[id] = new
        <5> HIDE DEF id
        <5> QED
          BY <4>1, <4>2
      <4> QED
        BY <2>5, <4>6, <4>7 DEF val
    <3> QED
      BY <1>2, <2>2, <2>3, <3>1, <3>2
  <2> QED
    BY <2>4, <2>5
<1>6. CASE (Reply \/ ReplyNotReported) /\ calls # <<>> /\ calls' = Tail(calls)
  <2>1. i + 1 \in DOMAIN calls /\ calls'[i] = calls[i+1] /\ Len(calls') = Len(calls) - 1
    BY <1>1, <1>6, HeadTailProperties
  <2>2. ~MeterAnswered
    <3> SUFFICES ASSUME MeterAnswered PROVE FALSE
      OBVIOUS
    <3>1. 1 \in DOMAIN calls /\ calls[1].action = "MeterValues"
      BY <1>1, <1>6, ListTypes DEF MeterAnswered
    <3>2. Len(calls) = 1
      BY <1>1, <3>1 DEF MeterCallInv
    <3> QED
      BY <1>1, <2>1, <3>2
  <2> QED
    BY <1>1, <1>3, <2>1, <2>2
<1>7. ASSUME NEW action \in {"StartTransaction", "MeterValues", "StopTransaction"}, NEW idx \in Int,
             sendProgress \notin {"Idle", "MeterWaitReply"}, Submit(action, idx), UNCHANGED <<trans, curTrans>>,
             action = "MeterValues" =>
               sendProgress' = "MeterWaitReply" /\ idx = NextMeterValIdx /\ UNCHANGED meterValIdx
      PROVE  Good(i)
  <2>1. curTrans \in DOMAIN trans
    BY <1>1, <1>7 DEF CursorInUse, TypeOK, RequesterTypeOK
  <2> DEFINE new == Call(action, trans[curTrans].session, trans[curTrans].transactionId, idx)
  <2>2. /\ new.action = action /\ new.transactionId = trans[curTrans].transactionId /\ ~new.received
        /\ new.meterVal = idx
    BY DEF Call
  <2>3. Len(calls') = Len(calls) + 1
        /\ ((i \in DOMAIN calls /\ calls'[i] = calls[i]) \/ (i = Len(calls) + 1 /\ calls'[i] = new))
    <3> HIDE DEF new
    <3> QED
      BY <1>1, <1>7, <2>1, CallType DEF new
  <2> HIDE DEF new
  <2>4. CASE i \in DOMAIN calls /\ calls'[i] = calls[i]
    BY <1>1, <1>7, <2>4 DEF MeterCallInv
  <2>5. CASE i = Len(calls) + 1 /\ calls'[i] = new
    BY <1>7, <2>2, <2>3, <2>5 DEF NextMeterValIdx
  <2> QED
    BY <2>3, <2>4, <2>5
<1>8. CASE sendProgress = "Meter" /\ Submit("MeterValues", NextMeterValIdx) /\ sendProgress' = "MeterWaitReply"
           /\ UNCHANGED <<trans, curTrans>>
  <2>1. UNCHANGED meterValIdx
    BY <1>1, <1>8, ReportStep DEF MeterOn, TakesTransaction, NothingToMeasure, LeavesMeter, BeginsReport, MakesCall,
       StartAnswered, MeterAnswered
  <2> QED
    BY <1>1, <1>7, <1>8, <2>1
<1>9. CASE /\ sendProgress \in {"StartTx", "StopTx"} /\ UNCHANGED <<trans, curTrans>>
           /\ Submit("StartTransaction", -1) \/ Submit("StopTransaction", -1)
  BY <1>7, <1>9
<1> HIDE DEF Good
<1> QED
  BY <1>1, <1>4, <1>5, <1>6, <1>8, <1>9, QueueStep

(* An id that nothing of the program has, nothing gets but from an answer. *)
Unknown(id) ==
    /\ \A t \in DOMAIN trans : TransId(t) # id
    /\ progressFile.transactionId # id
    /\ connector.resumedId # id

(* If it is unknown, it stays so. *)
LEMMA UnknownStays ==
    ASSUME TypeOK, CursorInUse, ConnectorInv, Next, ~Restart, ~RestartResuming,
           NEW id, id # -1, Unknown(id), ~StartAnswered
    PROVE  /\ \A t \in DOMAIN trans' : trans'[t].transactionId # id
           /\ progressFile'.transactionId # id
           /\ connector'.resumedId # id
<1>1. ASSUME NEW t \in DOMAIN trans' PROVE trans'[t].transactionId # id
  <2>1. CASE t \in DOMAIN trans
    BY <2>1, SentChange DEF SameReport, MeterAnswered, Unknown
  <2>2. CASE t \notin DOMAIN trans
    BY <2>2, TransNew DEF Started, Unknown
  <2> QED
    BY <2>1, <2>2
<1>2. progressFile'.transactionId # id
  <2>1. CASE ModifyRecord
    BY <2>1, NewestAndActive DEF ModifyRecord, Unknown, TransId
  <2> QED
    BY <2>1, ConnectorChange DEF Unknown, NoRecord
<1>3. connector'.resumedId # id
  BY ConnectorChange DEF Unknown, Idle
<1> QED
  BY <1>1, <1>2, <1>3

(* An id the CS gives is new, and gets to the program only with the       *)
(* answer.                                                                *)
LEMMA StartIdStep ==
    ASSUME IInv, GapInv, Next, ~Restart, ~RestartResuming
    PROVE  StartIdInv'
<1>0. TypeOK /\ TypeOK' /\ CursorInUse /\ ConnectorInv /\ IdInv /\ StartInv /\ StartIdInv
  BY TypeStep DEF IInv, GapInv, CursorInUse, CursorRegistered
<1>1. /\ TypeOK /\ TypeOK' /\ CursorInUse /\ ConnectorInv /\ IdInv /\ StartInv /\ StartIdInv
      /\ Len(calls) \in Nat /\ DOMAIN calls = 1..Len(calls) /\ calls \in Seq(CallMessage)
      /\ Len(calls') \in Nat /\ DOMAIN calls' = 1..Len(calls')
      /\ NextMeterValIdx \in Int
      /\ Len(csTrans) \in Nat /\ DOMAIN csTrans = 1..Len(csTrans)
  <2>1. NextMeterValIdx \in Int /\ calls \in Seq(CallMessage)
    BY <1>0 DEF TypeOK, RequesterTypeOK, NextMeterValIdx
  <2> QED
    BY <1>0, <2>1, ListTypes, ListTypesNext
<1> DEFINE Good(id) == /\ \A t \in DOMAIN trans' : trans'[t].transactionId # id
                       /\ progressFile'.transactionId # id
                       /\ connector'.resumedId # id
<1> SUFFICES ASSUME NEW i \in DOMAIN calls', calls'[i].action = "StartTransaction", calls'[i].received
             PROVE  Good(calls'[i].transactionId)
  BY DEF StartIdInv, TransId
<1>2. ASSUME NEW k \in DOMAIN calls, calls'[i] = calls[k], ~StartAnswered
      PROVE  Good(calls'[i].transactionId)
  <2> DEFINE id == calls[k].transactionId
  <2>1. Unknown(id) /\ id \in DOMAIN csTrans
    BY <1>1, <1>2 DEF StartIdInv, StartInv, Unknown
  <2>2. id # -1
    BY <1>1, <2>1
  <2> HIDE DEF id
  <2>3. Good(id)
    BY <1>1, <1>2, <2>1, <2>2, UnknownStays
  <2> QED
    BY <1>2, <2>3 DEF id
<1>3. CASE UNCHANGED calls
  <2>1. ~StartAnswered
    <3> SUFFICES ASSUME Reply PROVE FALSE
      BY DEF StartAnswered
    <3>1. calls # <<>> /\ calls' = Tail(calls)
      BY DEF Reply
    <3>2. Len(calls') = Len(calls) - 1
      BY <1>1, <3>1, HeadTailProperties
    <3> QED
      BY <1>1, <1>3, <3>2
  <2> QED
    BY <1>2, <1>3, <2>1
<1>4. CASE CsReceives
  <2>1. UNCHANGED <<registryVars, requesterVars, connVars>>
    BY <1>4 DEF CsReceives
  <2>2. ~StartAnswered
    BY <2>1 DEF StartAnswered, requesterVars
  <2>3. /\ i \in DOMAIN calls /\ calls[i].action = "StartTransaction"
        /\ i # 1 => calls'[i] = calls[i]
        /\ i = 1 => calls'[i].transactionId = Len(csTrans) + 1
    <3>1. i \in DOMAIN calls /\ calls[i].action = calls'[i].action
      BY <1>0, <1>4, Received
    <3>2. i # 1 => calls'[i] = calls[i]
      BY <1>0, <1>4, <3>1, Received
    <3>3. calls[1].action = "StartTransaction" => calls'[1].transactionId = Len(csTrans) + 1
      BY <1>0, <1>4, Received
    <3> QED
      BY <3>1, <3>2, <3>3
  <2>4. CASE i = 1
    <3>1. Len(csTrans) + 1 \notin DOMAIN csTrans /\ Len(csTrans) + 1 >= 0
      BY <1>1
    <3>2. /\ \A t \in DOMAIN trans : trans[t].transactionId # Len(csTrans) + 1
          /\ progressFile.transactionId # Len(csTrans) + 1
          /\ connector.resumedId # Len(csTrans) + 1
      BY <1>1, <3>1 DEF IdInv, ConnectorInv, Identifies, HasTransactionId
    <3> QED
      BY <2>1, <2>3, <2>4, <3>2 DEF registryVars, connVars
  <2> QED
    BY <1>2, <2>2, <2>3, <2>4
<1>5. CASE (Reply \/ ReplyNotReported) /\ calls # <<>> /\ calls' = Tail(calls)
  <2>1. i + 1 \in DOMAIN calls /\ calls'[i] = calls[i+1] /\ Len(calls') = Len(calls) - 1
    BY <1>1, <1>5, HeadTailProperties
  <2>2. ~StartAnswered
    <3> SUFFICES ASSUME StartAnswered PROVE FALSE
      OBVIOUS
    <3>1. Len(calls) = 1
      BY AnswerForCurrent DEF StartAnswered
    <3> QED
      BY <1>1, <2>1, <3>1
  <2> QED
    BY <1>2, <2>1, <2>2
<1>6. ASSUME NEW action \in {"StartTransaction", "MeterValues", "StopTransaction"}, NEW idx \in Int,
             sendProgress \notin {"Idle", "StartTxWaitReply"}, Submit(action, idx)
      PROVE  Good(calls'[i].transactionId)
  <2>1. curTrans \in DOMAIN trans
    BY <1>1, <1>6 DEF CursorInUse, TypeOK, RequesterTypeOK
  <2> DEFINE new == Call(action, trans[curTrans].session, trans[curTrans].transactionId, idx)
  <2>2. ~new.received
    BY DEF Call
  <2>3. \/ i \in DOMAIN calls /\ calls'[i] = calls[i]
        \/ calls'[i] = new
    <3> HIDE DEF new
    <3> QED
      BY <1>1, <1>6, <2>1, CallType DEF new
  <2> HIDE DEF new, Good
  <2> QED
    BY <1>1, <1>6, <2>2, <2>3 DEF StartInv
<1>7. CASE \/ sendProgress = "StartTx" /\ Submit("StartTransaction", -1)
           \/ sendProgress = "Meter" /\ Submit("MeterValues", NextMeterValIdx)
           \/ sendProgress = "StopTx" /\ Submit("StopTransaction", -1)
  <2> -1 \in Int
    OBVIOUS
  <2> HIDE DEF Good
  <2> QED
    BY <1>1, <1>6, <1>7
<1> HIDE DEF Good
<1> QED
  BY <1>1, <1>3, <1>4, <1>5, <1>7, QueueStep

(* What the steps between restarts leave of the requester's transaction    *)
(* while it is active and neither the current one nor the newest.          *)
LEMMA StaysInMeter ==
    ASSUME IInv, GapInv, Next, ~Restart, ~RestartResuming,
           sendProgress \in MeterOn, IsActive(curTrans), curTrans # currentTransc,
           curTrans # GetNewest \/ connector' # Idle
    PROVE  /\ sendProgress' \in MeterOn /\ UNCHANGED curTrans /\ curTrans \in DOMAIN trans
           /\ trans'[curTrans].st = "Active" /\ curTrans # currentTransc'
           /\ trans'[curTrans].transactionId = TransId(curTrans)
<1>1. TypeOK /\ CursorInUse /\ ConnectorInv /\ MeterCallInv /\ ResumingInv
  BY DEF IInv, GapInv, CursorInUse, CursorRegistered
<1>2. curTrans \in DOMAIN trans /\ sendProgress \notin {"Idle", "StartTx", "StartTxWaitReply"}
  BY <1>1 DEF CursorInUse, TypeOK, RequesterTypeOK, MeterOn
<1>3. ~LeavesMeter /\ ~StartAnswered
  BY <1>2 DEF LeavesMeter, StartAnswered
<1>4. sendProgress' \in MeterOn /\ UNCHANGED curTrans
  BY <1>1, <1>2, <1>3, ReportStep DEF MeterOn, TakesTransaction, NothingToMeasure, BeginsReport, MakesCall, MeterAnswered
<1>5. trans'[curTrans].st = "Active"
  BY <1>1, <1>2, EndStep DEF IsActive
<1>6. curTrans # currentTransc'
  <2>1. curTrans # NoTrans /\ curTrans # Len(trans) + 1
    BY <1>1, <1>2, ListTypes DEF NoTrans
  <2> QED
    BY <1>1, <2>1, ListStep
<1>7. trans'[curTrans].transactionId = TransId(curTrans)
  BY <1>1, <1>2, <1>3, SentChange DEF SameReport, MeterAnswered
<1> QED
  BY <1>2, <1>4, <1>5, <1>6, <1>7

(* No transaction is created in a step that changes the requester's        *)
(* progress to Meter.                                                      *)
LEMMA NoneCreated ==
    ASSUME TypeOK, CursorInUse, ConnectorInv, Next, ~Restart, ~RestartResuming,
           StartAnswered \/ MeterAnswered, NEW t \in DOMAIN trans'
    PROVE  t \in DOMAIN trans
<1>1. UNCHANGED transItems /\ connector' = connector
  BY Answered, AnswerStep DEF StartAnswered, MeterAnswered, connVars
<1>2. connector \in [phase: {"idle", "accepted", "resuming", "charging"},
                     session: Session \cup {NoSession}, resumedId: Int]
  BY DEF TypeOK
<1>3. connector.phase = "resuming" => [connector EXCEPT !.phase = "charging"] # connector
  BY <1>2
<1>4. ~ResumedCommandAccepted
  BY <1>1, <1>3 DEF ResumedCommandAccepted
<1>5. ASSUME NEW s \in Session, ChargeCommandAccepted(s) PROVE FALSE
  BY <1>1, <1>5 DEF ChargeCommandAccepted
<1> QED
  BY <1>4, <1>5, TransNew

(* Sharing begins only when the charger accepts the resumed charge, and   *)
(* ends with a restart: the requester does not leave the older            *)
(* transaction.                                                           *)
LEMMA SharedStep ==
    ASSUME IInv, GapInv, Next, ~Restart, ~RestartResuming
    PROVE  SharedInv'
<1>1. /\ TypeOK /\ TypeOK' /\ CursorInUse /\ ConnectorInv /\ IdInv
      /\ StartIdInv /\ SharedInv /\ ResumingInv
  BY TypeStep DEF IInv, GapInv, CursorInUse, CursorRegistered
<1>2. /\ Len(trans) \in Nat /\ DOMAIN trans = 1..Len(trans) /\ NoTrans = 0
      /\ currentTransc \in DOMAIN trans \cup {NoTrans}
  BY <1>1, ListTypes DEF TypeOK, RegistryTypeOK, NoTrans
<1> DEFINE UnreportedNext(t) == /\ trans'[t].lastSentMeterValIdx = -1 /\ trans'[t].st # "Finished"
                                /\ t # currentTransc'
           Core(t, u) == /\ curTrans' \in {t, u} /\ sendProgress' \in MeterOn
                         /\ trans'[curTrans'].st = "Active"
                         /\ curTrans' # currentTransc' /\ curTrans' # GetNewest'
                         /\ t # curTrans' => UnreportedNext(t)
                         /\ u # curTrans' => UnreportedNext(u)
<1>3. ASSUME NEW t \in DOMAIN trans, NEW u \in DOMAIN trans, t # u,
             TransId(t) = TransId(u), Unresumed(TransId(t))
      PROVE  Core(t, u)
  <2>1. /\ curTrans \in {t, u} /\ sendProgress \in MeterOn /\ IsActive(curTrans)
        /\ curTrans # currentTransc /\ curTrans # GetNewest
        /\ t # curTrans => Unreported(t)
        /\ u # curTrans => Unreported(u)
    BY <1>1, <1>3 DEF SharedInv
  <2>2. /\ sendProgress' \in MeterOn /\ UNCHANGED curTrans /\ trans'[curTrans].st = "Active"
        /\ curTrans # currentTransc'
    BY <2>1, StaysInMeter
  <2>3. curTrans # GetNewest'
    <3>1. curTrans # Len(trans) + 1
      BY <1>2, <2>1
    <3>2. ~(Process /\ (ProcessCompleted \/ ProcessError))
      BY <2>1 DEF ProcessCompleted, ProcessError, MeterOn
    <3> QED
      BY <1>1, <2>1, <3>1, <3>2, ListStep
  <2>4. ASSUME NEW v \in DOMAIN trans, v # curTrans, Unreported(v)
        PROVE  UnreportedNext(v)
    <3>1. trans'[v].lastSentMeterValIdx = -1
      BY <1>1, <2>4, SentChange DEF SameReport, Unreported
    <3>2. trans'[v].st # "Finished"
      BY <1>1, <2>4, EndStep DEF Unreported
    <3>3. v # NoTrans /\ v # Len(trans) + 1
      BY <1>2
    <3> QED
      BY <1>1, <2>4, <3>1, <3>2, <3>3, ListStep DEF Unreported
  <2> QED
    BY <2>1, <2>2, <2>3, <2>4
<1>4. ASSUME NEW t \in DOMAIN trans', NEW u \in DOMAIN trans', t \in DOMAIN trans, u \notin DOMAIN trans,
             trans'[t].transactionId = trans'[u].transactionId, UnresumedNext(trans'[t].transactionId)
      PROVE  Core(t, u)
  <2>1. trans'[u].transactionId \in Nat
    BY <1>1, <1>4, LenProperties DEF UnresumedNext, TypeOK
  <2>2. ResumedCommandAccepted /\ trans'[u] = Started(connector.session, connector.resumedId)
    BY <1>1, <1>4, <2>1, TransNew DEF Started
  <2>3. ~StartAnswered /\ ~MeterAnswered
    BY <1>1, <1>4, NoneCreated
  <2>4. TransId(t) = connector.resumedId
    BY <1>1, <1>4, <2>2, <2>3, SentChange DEF SameReport, Started
  <2>5. Unresumed(TransId(t))
    BY <1>1, <1>4, <2>2, <2>4, UnresumedInUse DEF Started
  <2>6. t = curTrans /\ sendProgress \in MeterOn /\ IsActive(curTrans) /\ curTrans # currentTransc
    BY <1>1, <1>4, <2>2, <2>4, <2>5 DEF ResumedCommandAccepted, ResumingInv
  <2>7. UNCHANGED requesterVars /\ UNCHANGED currentTransc
    BY <2>2, <2>6 DEF ResumedCommandAccepted, ResumeTransaction, OnChargingResumed, Unconcerned, MeterOn
  <2>8. u = Len(trans) + 1 /\ GetNewest' = Len(trans) + 1
    <3>1. connector.session \in Session /\ connector.resumedId \in Int
      BY <1>1, <2>2 DEF ResumedCommandAccepted, ConnectorInv, TypeOK
    <3>2. AddActive(connector.session, connector.resumedId)
      BY <2>2 DEF ResumedCommandAccepted, ResumeTransaction
    <3>3. /\ Len(transItems') = Len(transItems) + 1 /\ transItems'[Len(transItems) + 1] = Len(trans) + 1
          /\ transItems' # <<>>
      BY <1>1, <3>1, <3>2, Added, ListTypes
    <3> QED
      BY <1>1, <1>4, <3>3, TransNew DEF GetNewest, Last
  <2>9. trans'[t].st = "Active"
    <3>1. connector' # Idle
      <4>1. connector'.phase = "charging"
        BY <1>1, <2>2 DEF ResumedCommandAccepted, TypeOK
      <4> QED
        BY <4>1 DEF Idle
    <3> QED
      BY <1>1, <1>4, <2>6, <3>1, EndStep DEF IsActive
  <2> QED
    BY <1>2, <1>4, <2>2, <2>6, <2>7, <2>8, <2>9 DEF requesterVars, Started
<1> SUFFICES ASSUME NEW t \in DOMAIN trans', NEW u \in DOMAIN trans', t # u,
                    trans'[t].transactionId = trans'[u].transactionId, UnresumedNext(trans'[t].transactionId)
             PROVE  Core(t, u)
  BY DEF SharedInv, TransId, Unresumed, UnresumedNext, IsActive, Unreported
<1>5. Core(t, u) <=> Core(u, t)
  OBVIOUS
<1>6. CASE t \in DOMAIN trans /\ u \in DOMAIN trans
  <2>1. ASSUME NEW v \in DOMAIN trans, NEW w \in DOMAIN trans, v # w, StartAnswered, v = curTrans,
               trans'[v].transactionId = trans'[w].transactionId
        PROVE  FALSE
    <3>1. 1 \in DOMAIN calls /\ Head(calls) = calls[1]
      BY <1>1, <2>1, ListTypes DEF StartAnswered
    <3>2. TransId(w) # Head(calls).transactionId
      BY <1>1, <2>1, <3>1 DEF StartIdInv, StartAnswered
    <3> QED
      BY <1>1, <2>1, <3>2, SentChange DEF SameReport, StartAnswered
  <2>2. trans'[t].transactionId = TransId(t) /\ trans'[u].transactionId = TransId(u)
    BY <1>1, <1>6, <2>1, SentChange DEF SameReport, MeterAnswered
  <2>3. Unresumed(TransId(t))
    BY <1>1, <1>6, <2>2, UnresumedInUse
  <2> HIDE DEF Core
  <2> QED
    BY <1>3, <1>6, <2>2, <2>3
<1>7. CASE t \in DOMAIN trans /\ u \notin DOMAIN trans
  <2> HIDE DEF Core
  <2> QED
    BY <1>4, <1>7
<1>8. CASE u \in DOMAIN trans /\ t \notin DOMAIN trans
  <2> HIDE DEF Core
  <2> QED
    BY <1>4, <1>5, <1>8
<1>9. CASE u \notin DOMAIN trans /\ t \notin DOMAIN trans
  BY <1>1, <1>9, TransNew
<1> QED
  BY <1>6, <1>7, <1>8, <1>9

(* The requester stays at the transaction created at start-up while the   *)
(* charger resumes.                                                       *)
LEMMA ResumingStep ==
    ASSUME IInv, GapInv, Next, ~Restart, ~RestartResuming
    PROVE  ResumingInv'
<1>1. /\ TypeOK /\ TypeOK' /\ CursorInUse /\ ConnectorInv /\ IdInv /\ ResumingInv
  BY TypeStep DEF IInv, GapInv, CursorInUse, CursorRegistered
<1> SUFFICES ASSUME connector'.phase = "resuming"
             PROVE  /\ sendProgress' \in MeterOn /\ trans'[curTrans'].st = "Active"
                    /\ curTrans' # currentTransc' /\ curTrans' = GetNewest'
                    /\ trans'[curTrans'].transactionId = connector'.resumedId
                    /\ UnresumedNext(connector'.resumedId) =>
                         \A t \in DOMAIN trans' : trans'[t].transactionId = connector'.resumedId => t = curTrans'
  BY DEF ResumingInv, IsActive, TransId, Unresumed, UnresumedNext
<1>2. connector' = connector /\ connector' # Idle
  BY <1>1, ConnectorChange DEF Idle
<1>3. /\ sendProgress \in MeterOn /\ IsActive(curTrans) /\ curTrans # currentTransc /\ curTrans = GetNewest
      /\ TransId(curTrans) = connector.resumedId
      /\ Unresumed(connector.resumedId) =>
           \A t \in DOMAIN trans : TransId(t) = connector.resumedId => t = curTrans
  BY <1>1, <1>2 DEF ResumingInv
<1>4. /\ sendProgress' \in MeterOn /\ UNCHANGED curTrans /\ curTrans \in DOMAIN trans
      /\ trans'[curTrans].st = "Active" /\ curTrans # currentTransc'
      /\ trans'[curTrans].transactionId = connector.resumedId
  BY <1>2, <1>3, StaysInMeter
<1>5. ~ResumedCommandAccepted
  <2>1. ResumedCommandAccepted => connector'.phase = "charging"
    BY <1>1 DEF ResumedCommandAccepted, TypeOK
  <2> QED
    BY <2>1
<1>6. ASSUME NEW s \in Session, ChargeCommandAccepted(s) PROVE FALSE
  BY <1>6 DEF ChargeCommandAccepted
<1>7. curTrans = GetNewest'
  <2>1. ~(Process /\ (ProcessCompleted \/ ProcessError))
    BY <1>3 DEF ProcessCompleted, ProcessError, MeterOn
  <2> QED
    BY <1>1, <1>3, <1>5, <1>6, <2>1, ListStep
<1>8. ASSUME UnresumedNext(connector.resumedId), NEW t \in DOMAIN trans',
             trans'[t].transactionId = connector.resumedId
      PROVE  t = curTrans
  <2>1. t \in DOMAIN trans
    BY <1>1, <1>5, <1>6, TransNew
  <2>2. Unresumed(connector.resumedId)
    BY <1>1, <1>3, <1>4, <1>8, UnresumedInUse
  <2> QED
    BY <1>1, <1>3, <1>8, <2>1, <2>2, SentChange DEF SameReport
<1> QED
  BY <1>2, <1>4, <1>7, <1>8

(* The current transaction is given the id of its own session. *)
LEMMA CurrentStep ==
    ASSUME IInv, GapInv, Next, ~Restart, ~RestartResuming
    PROVE  CurrentInv'
<1>1. /\ TypeOK /\ TypeOK' /\ CursorInUse /\ ConnectorInv /\ IdInv /\ CurrentInv
  BY TypeStep DEF IInv, GapInv, CursorInUse, CursorRegistered
<1>2. /\ Len(trans) \in Nat /\ DOMAIN trans = 1..Len(trans) /\ NoTrans = 0
      /\ currentTransc \in DOMAIN trans \cup {NoTrans}
  BY <1>1, ListTypes DEF TypeOK, RegistryTypeOK, NoTrans
<1>3. ASSUME currentTransc' = Len(trans) + 1
      PROVE  /\ trans'[currentTransc'].transactionId = -1
             /\ trans'[currentTransc'].session = connector'.session
  <2>1. PICK s \in Session : ChargeCommandAccepted(s) /\ trans'[currentTransc'] = Started(s, -1)
    BY <1>1, <1>3, ListStep
  <2> QED
    BY <2>1 DEF ChargeCommandAccepted, Started
<1>4. ASSUME currentTransc' # NoTrans, currentTransc' # Len(trans) + 1
      PROVE  /\ UNCHANGED currentTransc /\ currentTransc \in DOMAIN trans
             /\ trans'[currentTransc].session = trans[currentTransc].session
  BY <1>1, <1>2, <1>4, ListStep, TransStep
<1>5. ASSUME currentTransc' # NoTrans, trans'[currentTransc'].transactionId >= 0
      PROVE  csTrans'[trans'[currentTransc'].transactionId].session = trans'[currentTransc'].session
  <2>1. currentTransc' # Len(trans) + 1
    BY <1>3, <1>5
  <2> DEFINE id == trans'[currentTransc].transactionId
  <2>2. CASE StartAnswered /\ currentTransc = curTrans
    <3>1. id \in DOMAIN csTrans /\ csTrans[id].session = CurSession
      BY <2>2, AnswerForCurrent DEF StartAnswered
    <3> QED
      BY <1>1, <1>4, <1>5, <2>1, <2>2, <3>1, CsStep DEF CurSession
  <2>3. CASE ~(StartAnswered /\ currentTransc = curTrans)
    <3>1. id = TransId(currentTransc)
      BY <1>1, <1>4, <1>5, <2>1, <2>3, SentChange DEF SameReport, MeterAnswered
    <3>2. id >= 0
      BY <1>4, <1>5, <2>1
    <3>3. id \in DOMAIN csTrans /\ csTrans[id].session = trans[currentTransc].session
      BY <1>1, <1>2, <1>4, <1>5, <2>1, <3>1, <3>2 DEF IdInv, CurrentInv, HasTransactionId, Identifies, TransId
    <3> QED
      BY <1>1, <1>4, <1>5, <2>1, <3>3, CsStep
  <2> QED
    BY <2>2, <2>3
<1>6. ASSUME currentTransc' # NoTrans, trans'[currentTransc'].st = "Active", connector'.phase # "idle"
      PROVE  trans'[currentTransc'].session = connector'.session
  <2>1. CASE currentTransc' # Len(trans) + 1
    <3>1. /\ UNCHANGED currentTransc /\ currentTransc \in DOMAIN trans
          /\ trans'[currentTransc].session = trans[currentTransc].session
      BY <1>4, <1>6, <2>1
    <3>2. CanFinish
      BY <1>1, <1>2, <1>6, <3>1, TransStep DEF CanFinish, IsActive
    <3>3. connector.phase # "idle" /\ connector'.session = connector.session
      <4>1. ASSUME NEW s \in Session, ChargeCommandAccepted(s) PROVE FALSE
        BY <2>1, <4>1 DEF ChargeCommandAccepted, StartNew
      <4> QED
        BY <1>1, <1>6, <4>1, ConnectorChange DEF Idle
    <3> QED
      BY <1>1, <3>1, <3>2, <3>3 DEF CurrentInv
  <2> QED
    BY <1>3, <2>1
<1> QED
  BY <1>5, <1>6 DEF CurrentInv, CanFinish, IsActive, HasTransactionId, TransId

(* A transaction whose id another session's progress record was given is  *)
(* not the one that ends.                                                 *)
LEMMA ForeignStep ==
    ASSUME IInv, GapInv, Next, ~Restart, ~RestartResuming
    PROVE  ForeignInv'
<1>1. /\ TypeOK /\ TypeOK' /\ CursorInUse /\ ConnectorInv /\ IdInv
      /\ CurrentInv /\ ForeignInv /\ SharedInv /\ StartIdInv
  BY TypeStep DEF IInv, GapInv, CursorInUse, CursorRegistered
<1>2. /\ Len(trans) \in Nat /\ DOMAIN trans = 1..Len(trans) /\ NoTrans = 0
      /\ currentTransc \in DOMAIN trans \cup {NoTrans}
  BY <1>1, ListTypes DEF TypeOK, RegistryTypeOK, NoTrans
<1> DEFINE id == progressFile'.transactionId
<1> SUFFICES ASSUME UnresumedNext(id), csTrans'[id].session # progressFile'.session,
                    NEW t \in DOMAIN trans', trans'[t].transactionId = id
             PROVE  trans'[t].st # "Finished" /\ t # currentTransc'
  BY DEF ForeignInv, TransId, Unresumed, UnresumedNext
<1>3. id \in Nat
  BY <1>1, LenProperties DEF UnresumedNext, TypeOK
<1>4. CASE UNCHANGED progressFile
  <2>1. Unresumed(id) /\ csTrans[id].session # progressFile.session
    BY <1>1, <1>4, UnresumedInUse
  <2>2. CASE t \in DOMAIN trans
    <3>1. TransId(t) = id
      <4>1. ASSUME StartAnswered, t = curTrans PROVE FALSE
        <5>1. 1 \in DOMAIN calls /\ Head(calls) = calls[1]
          BY <1>1, <4>1, ListTypes DEF StartAnswered
        <5> QED
          BY <1>1, <1>4, <4>1, <5>1 DEF StartIdInv, StartAnswered
      <4> QED
        BY <1>1, <2>2, <4>1, SentChange DEF SameReport, MeterAnswered
    <3>2. trans[t].st # "Finished" /\ t # currentTransc
      BY <1>1, <1>4, <2>1, <2>2, <3>1 DEF ForeignInv
    <3>3. t # NoTrans /\ t # Len(trans) + 1
      BY <1>2, <2>2
    <3>4. trans'[t].st # "Finished"
      BY <1>1, <2>2, <3>2, EndStep
    <3> QED
      BY <1>1, <3>2, <3>3, <3>4, ListStep
  <2>3. CASE t \notin DOMAIN trans
    <3>1. t = Len(trans) + 1 /\ trans'[t].st # "Finished"
      BY <1>1, <2>3, TransNew DEF Started
    <3>2. currentTransc' # Len(trans) + 1
      <4> SUFFICES ASSUME currentTransc' = Len(trans) + 1 PROVE FALSE
        OBVIOUS
      <4>1. trans'[t].transactionId = -1
        <5>1. trans'[currentTransc'].transactionId = -1
          <6>1. PICK s \in Session : trans'[currentTransc'] = Started(s, -1)
            BY <1>1, ListStep
          <6> QED
            BY <6>1 DEF Started
        <5> QED
          BY <3>1, <5>1
      <4> QED
        BY <1>3, <4>1
    <3> QED
      BY <3>1, <3>2
  <2> QED
    BY <2>2, <2>3
<1>5. CASE progressFile' = NoRecord
  BY <1>3, <1>5 DEF NoRecord
<1>6. CASE ModifyRecord
  <2>1. /\ UNCHANGED <<registryVars, requesterVars, connector, csTrans, resumed>>
        /\ connector.phase = "charging" /\ progressFile'.session = connector.session
        /\ id = IF GetActiveTrans = NoTrans THEN -1 ELSE TransId(GetActiveTrans)
    BY <1>6 DEF ModifyRecord, historyVars, TransId
  <2>2. GetActiveTrans \in DOMAIN trans /\ IsActive(GetActiveTrans) /\ id = TransId(GetActiveTrans)
    BY <1>1, <1>3, <2>1, NewestAndActive
  <2>3. t \in DOMAIN trans /\ TransId(t) = id /\ Unresumed(id)
    BY <2>1 DEF registryVars, TransId, Unresumed, UnresumedNext
  <2>4. trans[t].st # "Finished" /\ t # currentTransc
    <3>1. CASE t = GetActiveTrans
      <4>1. ASSUME t = currentTransc PROVE FALSE
        <5>1. CanFinish /\ HasTransactionId(currentTransc)
          BY <1>2, <1>3, <2>2, <2>3, <3>1, <4>1 DEF CanFinish, HasTransactionId, TransId
        <5>2. trans[currentTransc].session = connector.session
          BY <1>1, <2>1, <5>1 DEF CurrentInv
        <5>3. csTrans[id].session = trans[currentTransc].session
          BY <1>1, <1>2, <2>2, <2>3, <4>1, <5>1 DEF CurrentInv
        <5> QED
          BY <2>1, <5>2, <5>3
      <4> QED
        BY <2>2, <3>1, <4>1 DEF IsActive
    <3>2. CASE t # GetActiveTrans
      <4>1. /\ t = curTrans \/ Unreported(t)
            /\ IsActive(curTrans) /\ curTrans # currentTransc
        BY <1>1, <2>2, <2>3, <3>2 DEF SharedInv
      <4> QED
        BY <4>1 DEF Unreported, IsActive
    <3> QED
      BY <3>1, <3>2
  <2> QED
    BY <2>1, <2>4 DEF registryVars
<1> QED
  BY <1>1, <1>4, <1>5, <1>6, ConnectorChange

(* The registry lists a new transaction once. *)
LEMMA InjectiveStep ==
    ASSUME IInv, GapInv, Next, ~Restart, ~RestartResuming
    PROVE  IsInjective(transItems')
<1>1. /\ TypeOK /\ CursorInUse /\ ConnectorInv /\ IsInjective(transItems)
  BY DEF IInv, GapInv, CursorInUse, CursorRegistered
<1>2. CASE transItems' = Append(transItems, Len(trans) + 1)
  <2>1. transItems \in Seq(Nat) /\ Len(trans) + 1 \in Nat /\ Len(transItems) \in Nat
    <3>1. DOMAIN trans \subseteq Nat /\ transItems \in Seq(DOMAIN trans)
      BY <1>1, ListTypes DEF TypeOK, RegistryTypeOK
    <3> QED
      BY <1>1, <3>1, ListTypes, SeqMonotonic
  <2>2. /\ transItems' \in Seq(Nat) /\ Len(transItems') = Len(transItems) + 1
        /\ \A j \in 1..Len(transItems) : transItems'[j] = transItems[j]
        /\ transItems'[Len(transItems) + 1] = Len(trans) + 1
    BY <1>2, <2>1, AppendProperties
  <2>3. DOMAIN transItems' = 1..(Len(transItems) + 1)
    BY <2>2, LenProperties
  <2>4. \A j \in 1..Len(transItems) : transItems[j] # Len(trans) + 1
    BY <1>1, ListTypes
  <2>5. \A j, k \in 1..Len(transItems) : transItems[j] = transItems[k] => j = k
    BY <1>1, ListTypes DEF IsInjective
  <2>6. \A j, k \in DOMAIN transItems' : transItems'[j] = transItems'[k] => j = k
    <3> TAKE j, k \in DOMAIN transItems'
    <3>1. \A i \in DOMAIN transItems' : i \in 1..Len(transItems) \/ i = Len(transItems) + 1
      BY <2>1, <2>3
    <3>2. CASE j \in 1..Len(transItems) /\ k \in 1..Len(transItems)
      BY <2>2, <2>5, <3>2
    <3>3. CASE j \in 1..Len(transItems) /\ k = Len(transItems) + 1
      BY <2>2, <2>4, <3>3
    <3>4. CASE k \in 1..Len(transItems) /\ j = Len(transItems) + 1
      BY <2>2, <2>4, <3>4
    <3> QED
      BY <3>1, <3>2, <3>3, <3>4
  <2> QED
    BY <2>6 DEF IsInjective
<1>3. CASE Process /\ (ProcessCompleted \/ ProcessError)
  BY <1>1, <1>3, ReportDone, RemovedOnce
<1>4. CASE UNCHANGED transItems
  BY <1>1, <1>4
<1> QED
  BY <1>1, <1>2, <1>3, <1>4, ListStep

(* The file is written when a transaction finishes and when a report      *)
(* ends.                                                                  *)
LEMMA FileChange ==
    ASSUME Next, ~Restart, ~RestartResuming
    PROVE  \/ UNCHANGED offlineFile
           \/ ChargeFinished /\ Finish
           \/ Process /\ (ProcessCompleted \/ ProcessError)
<1>1. CASE UNCHANGED registryVars
  BY <1>1 DEF registryVars
<1>2. CASE Reply \/ ResumedCommandAccepted \/ ChargeCommandCanceled \/ MeterSampleTimeout
           \/ \E s \in Session : ChargeCommandAccepted(s)
  BY <1>2 DEF Reply, ResumedCommandAccepted, ResumeTransaction, ChargeCommandAccepted, StartNew, AddActive,
     ChargeCommandCanceled, Cancel, MeterSampleTimeout, UpdateActiveTransactionMeterValue
<1> QED
  BY <1>1, <1>2, RegistryUnchanged

(* No two ended transactions of the registry share an id.                  *)
LEMMA EndedAlone ==
    ASSUME SharedInv, NEW t \in DOMAIN trans, NEW u \in DOMAIN trans, t # u,
           TransId(t) = TransId(u), Unresumed(TransId(t))
    PROVE  /\ IsActive(t) \/ IsActive(u)
           /\ t = currentTransc \/ u = currentTransc =>
                trans[t].st # "Finished" /\ trans[u].st # "Finished"
<1>1. /\ curTrans \in {t, u} /\ IsActive(curTrans) /\ curTrans # currentTransc
      /\ t # curTrans => Unreported(t)
      /\ u # curTrans => Unreported(u)
  BY DEF SharedInv
<1> QED
  BY <1>1 DEF IsActive, Unreported

(* Saving the list keeps one record for an id: no two finished            *)
(* transactions share one.                                                *)
LEMMA FileIdStep ==
    ASSUME IInv, GapInv, Next, ~Restart, ~RestartResuming
    PROVE  FileIdInv'
<1>1. /\ TypeOK /\ TypeOK' /\ CursorInUse /\ ConnectorInv /\ IdInv
      /\ SharedInv /\ FileIdInv /\ IndexInv /\ IsInjective(transItems') /\ transItems' \in Seq(DOMAIN trans')
  BY TypeStep, InjectiveStep DEF IInv, GapInv, CursorInUse, CursorRegistered, TypeOK, RegistryTypeOK
<1>2. /\ offlineFile \in Seq(FileRecord) /\ Len(offlineFile) \in Nat
      /\ DOMAIN offlineFile = 1..Len(offlineFile)
      /\ offlineFile' \in Seq(FileRecord)
      /\ DOMAIN offlineFile' \subseteq Nat
  <2>1. offlineFile \in Seq(FileRecord) /\ offlineFile' \in Seq(FileRecord)
    BY <1>1 DEF TypeOK, RegistryTypeOK
  <2>2. /\ Len(offlineFile) \in Nat /\ DOMAIN offlineFile = 1..Len(offlineFile)
        /\ Len(offlineFile') \in Nat /\ DOMAIN offlineFile' = 1..Len(offlineFile')
    BY <2>1, LenProperties
  <2> QED
    BY <2>1, <2>2
<1> DEFINE ReadableNext(j) == \A k \in 1..j : offlineFile'[k].whole
           id(j) == offlineFile'[j].transactionId
           Reported(j) == \E t \in DOMAIN trans' :
                            /\ trans'[t].st = "Finished" /\ trans'[t].transactionId = id(j)
                            /\ offlineFile'[j].lastSentMeterValIdx <= trans'[t].lastSentMeterValIdx
           F1 == \A j \in DOMAIN offlineFile' : ReadableNext(j) /\ UnresumedNext(id(j)) => Reported(j)
           F2 == \A j, k \in DOMAIN offlineFile' :
                   ReadableNext(j) /\ ReadableNext(k) /\ UnresumedNext(id(j)) /\ id(j) = id(k) => j = k
<1> SUFFICES F1 /\ F2
  BY DEF FileIdInv, Readable, TransId, Unresumed, UnresumedNext
(* What a record on file says of a transaction stays so. *)
<1>3. ASSUME NEW t \in DOMAIN trans, trans[t].st = "Finished", UnresumedNext(TransId(t))
      PROVE  /\ t \in DOMAIN trans' /\ trans'[t].st = "Finished" /\ trans'[t].transactionId = TransId(t)
             /\ \A n \in Int : n <= trans[t].lastSentMeterValIdx => n <= trans'[t].lastSentMeterValIdx
  <2>1. t \in DOMAIN trans' /\ trans'[t].st = "Finished"
    BY <1>1, <1>3, TransStep DEF IsActive
  <2>2. Unresumed(TransId(t)) /\ TransId(t) \in Nat
    BY <1>1, <1>3, UnresumedInUse
  <2>3. ~(t = curTrans /\ StartAnswered)
    BY <1>1, <2>2 DEF IndexInv, StartAnswered, HasTransactionId, TransId
  <2>4. trans[t].lastSentMeterValIdx \in Int
    BY <1>1, ListTypes DEF Transaction
  <2>5. CASE t = curTrans /\ MeterAnswered
    <3>1. trans[t].lastSentMeterValIdx <= meterValIdx + 1
      BY <1>1, <2>2, <2>5 DEF IndexInv, MeterAnswered, MeterOn
    <3>2. meterValIdx + 1 <= NextMeterValIdx /\ NextMeterValIdx \in Int /\ meterValIdx \in Int
      BY <1>1 DEF NextMeterValIdx, TypeOK, RequesterTypeOK
    <3> QED
      BY <2>1, <2>4, <2>5, <3>1, <3>2 DEF MeterAnswered
  <2>6. CASE SameReport(t)
    BY <2>1, <2>6 DEF SameReport
  <2> QED
    BY <1>1, <2>3, <2>5, <2>6, SentChange
<1>4. CASE UNCHANGED offlineFile
  <2>1. ASSUME NEW j \in DOMAIN offlineFile, ReadableNext(j), UnresumedNext(id(j))
        PROVE  Readable(j) /\ id(j) = offlineFile[j].transactionId /\ Unresumed(id(j))
    BY <1>1, <1>4, <2>1, UnresumedInUse DEF Readable
  <2>2. F1
    <3> SUFFICES ASSUME NEW j \in DOMAIN offlineFile', ReadableNext(j), UnresumedNext(id(j)) PROVE Reported(j)
      OBVIOUS
    <3>1. PICK t \in DOMAIN trans :
            /\ trans[t].st = "Finished" /\ TransId(t) = id(j)
            /\ offlineFile[j].lastSentMeterValIdx <= trans[t].lastSentMeterValIdx
      BY <1>1, <1>4, <2>1 DEF FileIdInv
    <3>2. offlineFile[j].lastSentMeterValIdx \in Int
      BY <1>1, <1>4, ListTypes DEF FileRecord
    <3> QED
      BY <1>3, <1>4, <3>1, <3>2
  <2>3. F2
    BY <1>1, <1>4, <2>1 DEF FileIdInv
  <2> QED
    BY <2>2, <2>3
<1>5. CASE ChargeFinished /\ Finish
  <2> DEFINE c == currentTransc
             r == ToFileRecord(trans, c)
             n == Len(offlineFile) + 1
  <2>1. /\ c \in DOMAIN trans /\ IsActive(c) /\ offlineFile' = Append(offlineFile, r)
        /\ trans' = [trans EXCEPT ![c].st = "Finished"]
    BY <1>1, <1>5 DEF Finish, CanFinish, TypeOK, RegistryTypeOK
  <2>2. trans[c] \in Transaction
    BY <2>1, ListTypes, <1>1
  <2>3. r \in FileRecord /\ r.transactionId = TransId(c) /\ r.lastSentMeterValIdx = trans[c].lastSentMeterValIdx
    BY <2>2 DEF ToFileRecord, FileRecord, Transaction, TransId
  <2> HIDE DEF r
  <2>4. /\ \A j \in DOMAIN offlineFile : offlineFile'[j] = offlineFile[j]
        /\ offlineFile'[n] = r
        /\ DOMAIN offlineFile' = DOMAIN offlineFile \cup {n}
    <3>1. /\ offlineFile' \in Seq(FileRecord)
          /\ Len(offlineFile') = Len(offlineFile) + 1
          /\ \A j \in 1..Len(offlineFile) : offlineFile'[j] = offlineFile[j]
          /\ offlineFile'[Len(offlineFile) + 1] = r
      BY <1>2, <2>1, <2>3, AppendProperties
    <3>2. DOMAIN offlineFile' = 1..n
      BY <3>1, LenProperties
    <3> QED
      BY <1>2, <3>1, <3>2
  <2>5. ASSUME NEW j \in DOMAIN offlineFile, ReadableNext(j), UnresumedNext(id(j))
        PROVE  Readable(j) /\ id(j) = offlineFile[j].transactionId /\ Unresumed(id(j))
    <3>1. id(j) = offlineFile[j].transactionId
      BY <2>4
    <3>2. Readable(j)
      <4>1. 1..j \subseteq DOMAIN offlineFile
        BY <1>2
      <4> QED
        BY <2>4, <2>5, <4>1 DEF Readable
    <3> QED
      BY <1>1, <2>5, <3>1, <3>2, UnresumedInUse
  <2>6. ASSUME UnresumedNext(id(n)) PROVE id(n) = TransId(c) /\ Unresumed(TransId(c))
    BY <1>1, <2>1, <2>3, <2>4, <2>6, UnresumedInUse
  <2>7. F1
    <3> SUFFICES ASSUME NEW j \in DOMAIN offlineFile', ReadableNext(j), UnresumedNext(id(j)) PROVE Reported(j)
      OBVIOUS
    <3>1. CASE j \in DOMAIN offlineFile
      <4>1. PICK t \in DOMAIN trans :
              /\ trans[t].st = "Finished" /\ TransId(t) = id(j)
              /\ offlineFile[j].lastSentMeterValIdx <= trans[t].lastSentMeterValIdx
        BY <1>1, <2>5, <3>1 DEF FileIdInv
      <4>2. offlineFile[j].lastSentMeterValIdx \in Int /\ offlineFile'[j] = offlineFile[j]
        BY <1>1, <2>4, <3>1, ListTypes DEF FileRecord
      <4> QED
        BY <1>3, <4>1, <4>2
    <3>2. CASE j = n
      <4>1. trans'[c] = [trans[c] EXCEPT !.st = "Finished"] /\ c \in DOMAIN trans'
        BY <1>1, <2>1, Ended DEF Status, OnlyChanges
      <4>2. /\ trans'[c].st = "Finished" /\ trans'[c].transactionId = TransId(c)
            /\ trans'[c].lastSentMeterValIdx = trans[c].lastSentMeterValIdx
        BY <2>2, <4>1 DEF Transaction, TransId
      <4>3. trans[c].lastSentMeterValIdx \in Int
        BY <2>2 DEF Transaction
      <4>4. offlineFile'[j].lastSentMeterValIdx <= trans'[c].lastSentMeterValIdx
        BY <2>3, <2>4, <3>2, <4>2, <4>3
      <4>5. id(j) = TransId(c)
        BY <2>6, <3>2
      <4> HIDE DEF id, c
      <4> QED
        BY <4>1, <4>2, <4>4, <4>5
    <3> QED
      BY <2>4, <3>1, <3>2
  <2>8. F2
    <3>1. ASSUME NEW j \in DOMAIN offlineFile, ReadableNext(j), UnresumedNext(id(j)), id(j) = id(n)
          PROVE  FALSE
      <4>1. PICK t \in DOMAIN trans : trans[t].st = "Finished" /\ TransId(t) = id(j)
        BY <1>1, <2>5, <3>1 DEF FileIdInv
      <4>2. t # c
        BY <2>1, <4>1 DEF IsActive
      <4> HIDE DEF id
      <4> QED
        BY <1>1, <2>1, <2>6, <3>1, <4>1, <4>2, EndedAlone
    <3>2. ASSUME NEW j \in DOMAIN offlineFile, NEW k \in DOMAIN offlineFile,
                 ReadableNext(j), ReadableNext(k), UnresumedNext(id(j)), id(j) = id(k)
          PROVE  j = k
      BY <1>1, <2>5, <3>2 DEF FileIdInv
    <3> HIDE DEF id, ReadableNext
    <3> QED
      BY <2>4, <3>1, <3>2
  <2> QED
    BY <2>7, <2>8
<1>6. CASE Process /\ (ProcessCompleted \/ ProcessError) /\ ~UNCHANGED offlineFile
  <2>1. UNCHANGED <<trans, resumed, csTrans>>
    BY <1>6, ReportDone DEF Process, historyVars
  <2>2. PICK of \in [DOMAIN offlineFile' -> DOMAIN trans] :
          /\ IsInjective(of)
          /\ \A j \in DOMAIN offlineFile' :
               offlineFile'[j] = ToFileRecord(trans, of[j]) /\ trans[of[j]].st = "Finished"
    <3>1. SaveOfflineTransactionsToFile(trans, transItems')
      BY <1>1, <1>6, ReportDone, Removed
    <3>2. transItems' \in Seq(DOMAIN trans)
      BY <1>1, <2>1
    <3> QED
      BY <1>1, <3>1, <3>2, SavedOnce
  <2>3. \A j \in DOMAIN offlineFile' :
          /\ of[j] \in DOMAIN trans /\ trans[of[j]].st = "Finished" /\ TransId(of[j]) = id(j)
          /\ offlineFile'[j].lastSentMeterValIdx = trans[of[j]].lastSentMeterValIdx
          /\ trans[of[j]].lastSentMeterValIdx \in Int
    <3> TAKE j \in DOMAIN offlineFile'
    <3>1. of[j] \in DOMAIN trans /\ trans[of[j]] \in Transaction
      BY <1>1, <2>2, ListTypes
    <3> QED
      BY <2>2, <3>1 DEF ToFileRecord, TransId, Transaction
  <2>4. F1
    BY <2>1, <2>3 DEF TransId
  <2>5. F2
    <3> SUFFICES ASSUME NEW j \in DOMAIN offlineFile', NEW k \in DOMAIN offlineFile', j # k,
                        UnresumedNext(id(j)), id(j) = id(k)
                 PROVE  FALSE
      OBVIOUS
    <3>1. of[j] # of[k]
      BY <2>2 DEF IsInjective
    <3>2. Unresumed(TransId(of[j])) /\ TransId(of[j]) = TransId(of[k])
      BY <2>1, <2>3 DEF Unresumed, UnresumedNext
    <3> QED
      BY <1>1, <2>3, <3>1, <3>2, EndedAlone DEF IsActive
  <2> QED
    BY <2>4, <2>5
<1> HIDE DEF F1, F2
<1> QED
  BY <1>4, <1>5, <1>6, FileChange

(* What a start-up loads says no more than the CS knows, and there is one  *)
(* transaction for an id.                                                  *)
LEMMA LoadedSent ==
    ASSUME TypeOK, FileIdInv, SentInv,
           NEW j \in DOMAIN Loaded, Unresumed(Loaded[j].transactionId)
    PROVE  /\ Loaded[j].lastSentMeterValIdx <= csTrans[Loaded[j].transactionId].meterVal
           /\ \E t \in DOMAIN trans : trans[t].st = "Finished" /\ TransId(t) = Loaded[j].transactionId
           /\ \A k \in DOMAIN Loaded : Loaded[k].transactionId = Loaded[j].transactionId => j = k
<1> DEFINE id == Loaded[j].transactionId
<1>1. \A k \in DOMAIN Loaded : /\ k \in DOMAIN offlineFile /\ Readable(k)
                               /\ Loaded[k] = FromFileRecord(offlineFile[k])
                               /\ Loaded[k].transactionId = offlineFile[k].transactionId
  BY LoadedProperties, LoadedReadable DEF FromFileRecord
<1>2. id \in DOMAIN csTrans /\ id \in Nat /\ csTrans[id].meterVal \in Int
  BY ListTypes DEF Unresumed
<1>3. Loaded[j].lastSentMeterValIdx = offlineFile[j].lastSentMeterValIdx
  BY <1>1, <1>2 DEF FromFileRecord
<1>4. PICK t \in DOMAIN trans :
        /\ trans[t].st = "Finished" /\ TransId(t) = id
        /\ offlineFile[j].lastSentMeterValIdx <= trans[t].lastSentMeterValIdx
  BY <1>1 DEF FileIdInv
<1>5. trans[t].lastSentMeterValIdx <= csTrans[id].meterVal
  BY <1>4 DEF SentInv
<1>6. offlineFile[j].lastSentMeterValIdx \in Int /\ trans[t].lastSentMeterValIdx \in Int
  BY <1>1, ListTypes DEF FileRecord, Transaction
<1>7. \A k \in DOMAIN Loaded : Loaded[k].transactionId = id => j = k
  BY <1>1 DEF FileIdInv
<1> QED
  BY <1>2, <1>3, <1>4, <1>5, <1>6, <1>7

(* The file a start-up leaves: what was on it, perhaps with a torn record. *)
LEMMA StartUpFile ==
    ASSUME TypeOK, TypeOK', FileIdInv, UNCHANGED csTrans, resumed \subseteq resumed',
           UNCHANGED offlineFile \/ TornAppend,
           DOMAIN Loaded \subseteq DOMAIN trans', \A j \in DOMAIN Loaded : trans'[j] = Loaded[j]
    PROVE  FileIdInv'
<1>1. /\ offlineFile \in Seq(FileRecord) /\ Len(offlineFile) \in Nat
      /\ DOMAIN offlineFile = 1..Len(offlineFile)
  BY ListTypes DEF TypeOK, RegistryTypeOK
<1> DEFINE ReadableNext(j) == \A k \in 1..j : offlineFile'[k].whole
           id(j) == offlineFile'[j].transactionId
<1>2. ASSUME NEW j \in DOMAIN offlineFile', ReadableNext(j)
      PROVE  j \in DOMAIN offlineFile /\ offlineFile'[j] = offlineFile[j] /\ Readable(j)
  <2>1. CASE UNCHANGED offlineFile
    BY <1>2, <2>1 DEF Readable
  <2>2. CASE TornAppend
    <3> DEFINE r0 == ToFileRecord(trans, currentTransc)
               r == [r0 EXCEPT !.whole = FALSE]
    <3>1. currentTransc \in DOMAIN trans /\ offlineFile' = Append(offlineFile, r)
      BY <2>2 DEF TornAppend, CanFinish, TypeOK, RegistryTypeOK
    <3>2. trans[currentTransc] \in Transaction
      BY <3>1, ListTypes
    <3>3. r0 \in FileRecord
      BY <3>2 DEF ToFileRecord, FileRecord, Transaction
    <3> HIDE DEF r0
    <3>4. r \in FileRecord /\ ~r.whole
      BY <3>3 DEF FileRecord
    <3> HIDE DEF r
    <3>5. /\ offlineFile' \in Seq(FileRecord)
          /\ Len(offlineFile') = Len(offlineFile) + 1
          /\ \A i \in 1..Len(offlineFile) : offlineFile'[i] = offlineFile[i]
          /\ offlineFile'[Len(offlineFile) + 1] = r
      <4>1. offlineFile \in Seq(FileRecord) /\ r \in FileRecord /\ offlineFile' = Append(offlineFile, r)
        BY <1>1, <3>1, <3>4
      <4> QED
        BY <4>1, AppendProperties
    <3>6. DOMAIN offlineFile' = 1..(Len(offlineFile) + 1)
      BY <3>5, LenProperties
    <3>7. j # Len(offlineFile) + 1
      BY <1>1, <1>2, <3>4, <3>5
    <3>8. j \in DOMAIN offlineFile /\ 1..j \subseteq 1..Len(offlineFile)
      BY <1>1, <1>2, <3>6, <3>7
    <3> QED
      BY <1>1, <1>2, <3>5, <3>8 DEF Readable
  <2> QED
    BY <2>1, <2>2
<1>3. ASSUME NEW j \in DOMAIN offlineFile', ReadableNext(j), UnresumedNext(id(j))
      PROVE  /\ j \in DOMAIN Loaded /\ Unresumed(id(j)) /\ Loaded[j].transactionId = id(j)
             /\ Loaded[j].st = "Finished"
             /\ offlineFile'[j].lastSentMeterValIdx <= Loaded[j].lastSentMeterValIdx
  <2>1. Unresumed(id(j)) /\ id(j) >= 0
    BY ListTypes, <1>3 DEF Unresumed, UnresumedNext
  <2>2. j \in DOMAIN offlineFile /\ offlineFile'[j] = offlineFile[j] /\ j \in DOMAIN Loaded
    BY <1>2, <1>3, LoadedReadable
  <2>3. Loaded[j] = FromFileRecord(offlineFile[j])
    BY <2>2, LoadedProperties
  <2>4. offlineFile[j].lastSentMeterValIdx \in Int
    BY <2>2, ListTypes DEF FileRecord
  <2> QED
    BY <2>1, <2>2, <2>3, <2>4 DEF FromFileRecord
<1>4. ASSUME NEW j \in DOMAIN offlineFile', ReadableNext(j), UnresumedNext(id(j))
      PROVE  \E t \in DOMAIN trans' :
               /\ trans'[t].st = "Finished" /\ trans'[t].transactionId = id(j)
               /\ offlineFile'[j].lastSentMeterValIdx <= trans'[t].lastSentMeterValIdx
  BY <1>3, <1>4
<1>5. ASSUME NEW j \in DOMAIN offlineFile', NEW k \in DOMAIN offlineFile', ReadableNext(j), ReadableNext(k),
             UnresumedNext(id(j)), id(j) = id(k)
      PROVE  j = k
  BY <1>2, <1>3, <1>5 DEF FileIdInv
<1> QED
  BY <1>4, <1>5 DEF FileIdInv, Readable, TransId, Unresumed, UnresumedNext

(* A start-up that resumes nothing begins with what the file has. *)
LEMMA RestartGap ==
    ASSUME IInv, GapInv, Restart
    PROVE  GapInv'
<1>1. Next
  BY DEF Next
<1>2. /\ TypeOK /\ TypeOK' /\ IdInv /\ IndexInv /\ SentInv /\ FileIdInv
  BY <1>1, TypeStep DEF IInv, GapInv, CursorInUse, CursorRegistered
<1>3. /\ trans' = Loaded /\ transItems' = [i \in DOMAIN Loaded |-> i]
      /\ sendProgress' = "Idle" /\ meterValIdx' = -1
      /\ currentTransc' = NoTrans /\ connector' = Idle /\ progressFile' = NoRecord
      /\ UNCHANGED csTrans /\ UNCHANGED resumed
      /\ UNCHANGED offlineFile \/ TornAppend
  BY DEF Restart, StartUp
<1>4. \A i \in DOMAIN csTrans : i \in Nat
  BY <1>2, ListTypes
<1>5. ASSUME NEW t \in DOMAIN trans', UnresumedNext(trans'[t].transactionId)
      PROVE  t \in DOMAIN Loaded /\ trans'[t] = Loaded[t] /\ Unresumed(Loaded[t].transactionId)
  BY <1>3, <1>5 DEF Unresumed, UnresumedNext
<1>6. IndexInv'
  BY <1>2, <1>3 DEF IndexInv, MeterOn
<1>7. SentInv'
  BY <1>2, <1>3, <1>5, LoadedSent DEF SentInv, TransId, Unresumed, UnresumedNext
<1>8. MeterCallInv' /\ StartIdInv'
  <2> DEFINE c == Call("StopTransaction", progressFile.session, progressFile.transactionId, -1)
  <2>1. c.action = "StopTransaction"
    BY DEF Call
  <2>2. calls' = << >> \/ calls' = << c >>
    BY DEF Restart
  <2> HIDE DEF c
  <2>3. \A i \in DOMAIN calls' : calls'[i].action = "StopTransaction"
    BY <2>1, <2>2
  <2> QED
    BY <2>3 DEF MeterCallInv, StartIdInv
<1>9. SharedInv'
  BY <1>2, <1>3, <1>5, LoadedSent DEF SharedInv, TransId, Unresumed, UnresumedNext
<1>10. ResumingInv' /\ CurrentInv'
  BY <1>3 DEF ResumingInv, CurrentInv, CanFinish, Idle
<1>11. ForeignInv'
  BY <1>3, <1>4 DEF ForeignInv, NoRecord, Unresumed
<1>12. FileIdInv'
  BY <1>2, <1>3, StartUpFile
<1>13. IsInjective(transItems')
  BY <1>3 DEF IsInjective
<1> QED
  BY <1>6, <1>7, <1>8, <1>9, <1>10, <1>11, <1>12, <1>13 DEF GapInv, IsInjective

(* A start-up that resumes a charge adds a transaction, whose id nobody   *)
(* has whose session was not resumed.                                     *)
LEMMA ResumeGap ==
    ASSUME IInv, GapInv, RestartResuming
    PROVE  GapInv'
<1>1. Next
  BY DEF Next
<1>2. /\ TypeOK /\ TypeOK' /\ IdInv /\ IndexInv /\ SentInv /\ FileIdInv /\ ForeignInv
  BY <1>1, TypeStep DEF IInv, GapInv, CursorInUse, CursorRegistered
<1> DEFINE new == Len(Loaded) + 1
           s == progressFile.session
           id == progressFile.transactionId
<1>3. /\ trans' = Append(Loaded, Started(s, id)) /\ transItems' = [i \in 1..new |-> i]
      /\ sendProgress' = "Meter" /\ meterValIdx' = -1 /\ curTrans' = new
      /\ currentTransc' = NoTrans /\ progressFile' = NoRecord /\ calls' = <<>>
      /\ connector'.session = s /\ connector'.resumedId = id
      /\ UNCHANGED <<csTrans, offlineFile>> /\ resumed' = resumed \cup {s}
  BY DEF RestartResuming, StartUp
<1>4. id > 0 /\ s \in Session /\ id \in Int
  <2>1. id > 0 /\ progressFile # NoRecord
    BY DEF RestartResuming, NoRecord
  <2> QED
    BY <2>1 DEF IInv, ConnectorInv, TypeOK
<1>5. /\ Loaded \in Seq(Transaction) /\ Len(Loaded) \in Nat /\ DOMAIN Loaded = 1..Len(Loaded)
  BY <1>2, LoadedProperties
<1>6. /\ \A t \in DOMAIN Loaded : trans'[t] = Loaded[t]
      /\ trans'[new] = Started(s, id)
      /\ DOMAIN trans' = DOMAIN Loaded \cup {new} /\ new \notin DOMAIN Loaded /\ new # NoTrans
  <2>1. Started(s, id) \in Transaction
    BY <1>4 DEF Started, Transaction, Status
  <2>2. /\ trans' \in Seq(Transaction) /\ Len(trans') = Len(Loaded) + 1
        /\ \A t \in 1..Len(Loaded) : trans'[t] = Loaded[t]
        /\ trans'[Len(Loaded) + 1] = Started(s, id)
    BY <1>3, <1>5, <2>1, AppendProperties
  <2>3. DOMAIN trans' = 1..(Len(Loaded) + 1)
    BY <2>2, LenProperties
  <2> QED
    BY <1>5, <2>2, <2>3 DEF NoTrans
<1>7. \A i \in DOMAIN csTrans : i \in Nat
  BY <1>2, ListTypes
<1>8. ASSUME NEW i, UnresumedNext(i) PROVE Unresumed(i) /\ csTrans[i].session # s /\ i \in DOMAIN csTrans
  BY <1>3, <1>8 DEF Unresumed, UnresumedNext
<1>9. /\ trans'[new].transactionId = id /\ trans'[new].st = "Active" /\ trans'[new].lastSentMeterValIdx = -1
  BY <1>6 DEF Started
(* No loaded transaction has the id of the one resumed. *)
<1>10. ASSUME UnresumedNext(id), NEW j \in DOMAIN Loaded, Loaded[j].transactionId = id PROVE FALSE
  <2>1. Unresumed(id) /\ csTrans[id].session # s
    BY <1>8, <1>10
  <2>2. PICK t \in DOMAIN trans : trans[t].st = "Finished" /\ TransId(t) = id
    BY <1>2, <1>10, <2>1, LoadedSent
  <2> QED
    BY <1>2, <2>1, <2>2 DEF ForeignInv
<1> HIDE DEF new, s, id
<1>11. IndexInv'
  <2>1. \A i \in DOMAIN csTrans' : csTrans'[i].meterVal >= -1
    BY <1>2, <1>3 DEF IndexInv
  <2>2. ASSUME UnresumedNext(id)
        PROVE  -1 <= csTrans'[id].meterVal /\ -1 <= -1 + 1
    <3>1. csTrans'[id].meterVal \in Int /\ csTrans'[id].meterVal >= -1
      BY <1>2, <1>3, <1>8, <2>1, <2>2, ListTypes
    <3> QED
      BY <3>1
  <2>3. UnresumedNext(id) => /\ meterValIdx' <= csTrans'[id].meterVal
                             /\ trans'[new].lastSentMeterValIdx <= meterValIdx' + 1
    BY <1>3, <1>9, <2>2
  <2> QED
    BY <1>3, <1>9, <2>1, <2>3 DEF IndexInv, TransId, Unresumed, UnresumedNext
<1>12. SentInv'
  <2> SUFFICES ASSUME NEW t \in DOMAIN trans', UnresumedNext(trans'[t].transactionId)
               PROVE  trans'[t].lastSentMeterValIdx <= csTrans'[trans'[t].transactionId].meterVal
    BY DEF SentInv, TransId, Unresumed, UnresumedNext
  <2>1. CASE t \in DOMAIN Loaded
    BY <1>2, <1>3, <1>6, <1>8, <2>1, LoadedSent
  <2>2. CASE t = new
    <3>1. csTrans[id].meterVal \in Int /\ csTrans[id].meterVal >= -1
      BY <1>2, <1>8, <1>9, <2>2, ListTypes DEF IndexInv
    <3> QED
      BY <1>3, <1>9, <2>2, <3>1
  <2> QED
    BY <1>6, <2>1, <2>2
<1>13. MeterCallInv' /\ StartIdInv'
  BY <1>3 DEF MeterCallInv, StartIdInv
<1>14. SharedInv'
  <2> SUFFICES ASSUME NEW t \in DOMAIN trans', NEW u \in DOMAIN trans', t # u,
                      trans'[t].transactionId = trans'[u].transactionId, UnresumedNext(trans'[t].transactionId)
               PROVE  FALSE
    BY DEF SharedInv, TransId, Unresumed, UnresumedNext
  <2>1. CASE t \in DOMAIN Loaded /\ u \in DOMAIN Loaded
    BY <1>2, <1>6, <1>8, <2>1, LoadedSent
  <2>2. CASE t = new \/ u = new
    BY <1>6, <1>9, <1>10, <2>2
  <2> QED
    BY <1>6, <2>1, <2>2
<1>15. ResumingInv'
  <2>1. GetNewest' = new
    <3>1. Len(transItems') = new /\ transItems'[new] = new /\ new \in 1..new
      BY <1>2, <1>3, <1>5, ListTypesNext DEF new
    <3> QED
      BY <3>1 DEF GetNewest, Last
  <2>2. ASSUME UnresumedNext(id), NEW t \in DOMAIN trans', trans'[t].transactionId = id
        PROVE  t = new
    BY <1>6, <1>10, <2>2
  <2> QED
    BY <1>3, <1>6, <1>9, <2>1, <2>2 DEF ResumingInv, MeterOn, IsActive, TransId, Unresumed, UnresumedNext
<1>16. CurrentInv'
  BY <1>3 DEF CurrentInv, CanFinish
<1>17. ForeignInv'
  BY <1>3, <1>7 DEF ForeignInv, NoRecord, Unresumed
<1>18. FileIdInv'
  BY <1>2, <1>3, <1>6, StartUpFile
<1>19. IsInjective(transItems')
  BY <1>3 DEF IsInjective
<1> QED
  BY <1>11, <1>12, <1>13, <1>14, <1>15, <1>16, <1>17, <1>18, <1>19 DEF GapInv, IsInjective

(* Nothing is registered, on its way or known to the CS at first. *)
LEMMA InitGapInv == Init => GapInv
<1> SUFFICES ASSUME Init PROVE GapInv
  OBVIOUS
<1>1. /\ trans = <<>> /\ transItems = <<>> /\ currentTransc = NoTrans /\ offlineFile = <<>>
      /\ sendProgress = "Idle" /\ meterValIdx = -1 /\ calls = <<>> /\ csTrans = <<>>
      /\ connector = Idle /\ progressFile = NoRecord
  BY DEF Init, RegistryInit, RequesterInit
<1>2. /\ DOMAIN trans = {} /\ DOMAIN transItems = {} /\ DOMAIN offlineFile = {} /\ DOMAIN calls = {}
      /\ DOMAIN csTrans = {}
  BY <1>1
<1>3. IndexInv /\ SentInv /\ MeterCallInv /\ StartIdInv /\ SharedInv
  BY <1>1, <1>2 DEF IndexInv, SentInv, MeterCallInv, StartIdInv, SharedInv, MeterOn
<1>4. ResumingInv /\ CurrentInv /\ ForeignInv /\ FileIdInv
  BY <1>1, <1>2 DEF ResumingInv, CurrentInv, ForeignInv, FileIdInv, CanFinish, Idle, Unresumed
<1>5. IsInjective(transItems)
  BY <1>2 DEF IsInjective
<1> QED
  BY <1>3, <1>4, <1>5 DEF GapInv

(* Every step keeps the parts of GapInv. *)
LEMMA NextGapInv == IInv /\ GapInv /\ [Next]_vars => GapInv'
<1> SUFFICES ASSUME IInv, GapInv, [Next]_vars PROVE GapInv'
  OBVIOUS
<1>1. CASE Restart
  BY <1>1, RestartGap
<1>2. CASE RestartResuming
  BY <1>2, ResumeGap
<1>3. CASE Next /\ ~Restart /\ ~RestartResuming
  <2>1. IndexInv' /\ SentInv' /\ MeterCallInv' /\ StartIdInv' /\ SharedInv'
    BY <1>3, IndexStep, SentStep, MeterCallStep, StartIdStep, SharedStep
  <2>2. ResumingInv' /\ CurrentInv' /\ ForeignInv' /\ FileIdInv' /\ IsInjective(transItems')
    BY <1>3, ResumingStep, CurrentStep, ForeignStep, FileIdStep, InjectiveStep
  <2> QED
    BY <2>1, <2>2 DEF GapInv, IsInjective
<1>4. CASE UNCHANGED vars
  <2>1. UNCHANGED <<trans, transItems, currentTransc, offlineFile, sendProgress, meterValIdx, curTrans, calls,
                    connector, progressFile, csTrans, resumed>>
    BY <1>4 DEF vars, registryVars, requesterVars, netVars, connVars, historyVars
  <2> USE DEF TransId, MeterOn, Unresumed, HasTransactionId, IsActive
  <2>2. IndexInv' /\ SentInv' /\ MeterCallInv' /\ StartIdInv'
    BY <2>1 DEF GapInv, IndexInv, SentInv, MeterCallInv, StartIdInv, NextMeterValIdx
  <2>3. SharedInv' /\ ResumingInv' /\ CurrentInv'
    BY <2>1 DEF GapInv, SharedInv, ResumingInv, CurrentInv, Unreported, GetNewest, Last, CanFinish
  <2>4. ForeignInv' /\ FileIdInv'
    BY <2>1 DEF GapInv, ForeignInv, FileIdInv, Readable
  <2>5. IsInjective(transItems')
    BY <2>1 DEF GapInv
  <2> QED
    BY <2>2, <2>3, <2>4, <2>5 DEF GapInv, IsInjective
<1> QED
  BY <1>1, <1>2, <1>3, <1>4

-----------------------------------------------------------------------------
(* Theorems *)

(* Together the parts of IInv hold initially and are kept by every step of *)
(* the charger, the requester, the connection and the CS, and by every     *)
(* restart.                                                                *)
THEOREM TransactionReportingInvariant == Spec => []IInv
  BY InitIInv, NextIInv, PTL DEF Spec

(* Every variable has its type; ids, indices and lists stay within what    *)
(* the registry and the CS have.                                           *)
THEOREM TransactionReportingTypeCorrect == Spec => []TypeOK
<1>1. IInv => TypeOK
  BY DEF IInv
<1> QED
  BY <1>1, TransactionReportingInvariant, PTL

(* curTrans, the requester's pointer into the registry, is never null or   *)
(* dangling while it reports, and it is the oldest transaction as long as  *)
(* no session was resumed.                                                 *)
THEOREM ReportingCursorRegistered == Spec => []CursorRegistered
<1>1. IInv => CursorRegistered
  BY DEF IInv
<1> QED
  BY <1>1, TransactionReportingInvariant, PTL

(* process never makes MeterValues or StopTransaction for a transaction    *)
(* without its id, nor StopTransaction for one still charging; without a   *)
(* tag it comes to that stage only for a session resumed.                  *)
THEOREM ReportingStage == Spec => []ReportStage
<1>1. IInv => ReportStage
  BY DEF IInv
<1> QED
  BY <1>1, TransactionReportingInvariant, PTL

(* The requester's handlers never leave it with something to send and      *)
(* without a timer for process.                                            *)
THEOREM ReportingNoLostWakeup == Spec => []NoLostWakeup
<1>1. IInv => NoLostWakeup
  BY DEF IInv
<1> QED
  BY <1>1, TransactionReportingInvariant, PTL

(* The reply waited for in a WaitReply state is that of the last call of   *)
(* the queue, made for curTrans.                                           *)
THEOREM ReportingAwaitedCallInFlight == Spec => []AwaitedCallInFlight
<1>1. IInv => AwaitedCallInFlight
  BY DEF IInv
<1> QED
  BY <1>1, TransactionReportingInvariant, PTL

(* What loadOfflineTransactionsFromFile would find now has every finished  *)
(* transaction of the registry, unless a record of the file is torn.       *)
THEOREM ReportingFinishedOnFile == Spec => []FinishedOnFile
<1>1. IInv => FinishedOnFile
  <2> SUFFICES ASSUME IInv, NEW i \in DOMAIN transItems, trans[transItems[i]].st = "Finished",
                      \A j \in DOMAIN offlineFile : offlineFile[j].whole
               PROVE  \E j \in DOMAIN Loaded : Loaded[j].session = trans[transItems[i]].session
    BY DEF FinishedOnFile
  <2>1. PICK j \in DOMAIN offlineFile : offlineFile[j].session = trans[transItems[i]].session
    BY DEF IInv, FileInv
  <2>2. j \in DOMAIN Loaded /\ Loaded[j] = FromFileRecord(offlineFile[j])
    BY LoadedProperties DEF IInv
  <2> QED
    BY <2>1, <2>2 DEF FromFileRecord
<1> QED
  BY <1>1, TransactionReportingInvariant, PTL

(* No StopTransaction reaches the CS for a session still on the connector, *)
(* unless it was resumed: not from the requester, and not from start-up    *)
(* with the progress record of a session interrupted.                      *)
THEOREM ReportingStopMeansEnded == Spec => []StopMeansEnded
<1>1. IInv => StopMeansEnded
  BY DEF IInv
<1> QED
  BY <1>1, TransactionReportingInvariant, PTL

(* The meter values of a session reach the CS in the order sampled, from   *)
(* the first one and without a gap, unless it was resumed: no value is     *)
(* skipped on a restart from the offline file, on a lost connection, or    *)
(* where two transactions have the same id.                                *)
THEOREM ReportingMeterWithoutGap == Spec => MeterWithoutGap
<1> DEFINE OneMore == \A i \in DOMAIN csTrans :
                     csTrans[i].session \notin resumed => csTrans'[i].meterVal <= csTrans[i].meterVal + 1
<1>1. IInv /\ GapInv /\ [Next]_vars => [OneMore]_vars
  <2> SUFFICES ASSUME IInv, GapInv, Next, NEW i \in DOMAIN csTrans, csTrans[i].session \notin resumed
               PROVE  csTrans'[i].meterVal <= csTrans[i].meterVal + 1
    OBVIOUS
  <2>1. /\ TypeOK /\ IndexInv /\ MeterCallInv /\ Unresumed(i)
    BY DEF IInv, GapInv, Unresumed
  <2>2. csTrans[i].meterVal \in Int /\ csTrans[i].meterVal >= -1
    BY <2>1, ListTypes DEF IndexInv
  <2>3. ASSUME sendProgress = "MeterWaitReply", i = TransId(curTrans)
        PROVE  NextMeterValIdx <= csTrans[i].meterVal + 1
    <3>1. meterValIdx <= csTrans[i].meterVal /\ meterValIdx \in Int
      BY <2>1, <2>3 DEF IndexInv, MeterOn, TypeOK, RequesterTypeOK
    <3> QED
      BY <2>2, <3>1 DEF NextMeterValIdx
  <2> QED
    BY <2>1, <2>2, <2>3, MeterValReceived
<1>2. Spec => [](IInv /\ GapInv)
  <2>1. Init => GapInv
    BY InitGapInv
  <2>2. IInv /\ GapInv /\ [Next]_vars => GapInv'
    BY NextGapInv
  <2> QED
    BY <2>1, <2>2, TransactionReportingInvariant, PTL DEF Spec
<1> HIDE DEF OneMore
<1>3. Spec => [][OneMore]_vars
  BY <1>1, <1>2, PTL DEF Spec
<1> QED
  BY <1>3 DEF MeterWithoutGap, OneMore
=============================================================================
