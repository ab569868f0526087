--------------------- MODULE OcppOutMessageQueueProofs ---------------------
(***************************************************************************)
(* For every set of messages and retry limit: the outgoing message queue   *)
(* is never stuck by its own doing (type correctness, non-empty lists      *)
(* where the code takes their first element, timers that run when they are *)
(* waited for, nothing stranded or stalled as long as the CS answers); it  *)
(* loses and repeats no message; and it keeps the promise it makes to the  *)
(* transaction requester, TransactionalOutbox.                             *)
(***************************************************************************)
EXTENDS OcppOutMessageQueue, SequenceTheorems, FiniteSetTheorems, TLAPS

IInv ==
    /\ TypeOK
    /\ SchedulingInv
    /\ HeadPresent
    /\ TimerArmed
    /\ NoStall
    /\ NothingStranded
    /\ FullRetryBudget

-----------------------------------------------------------------------------
(* Lemmas on the operators of the queue *)

(* A subsequence kept of a list of messages is a list of messages, and     *)
(* empty if the list is.                                                   *)
LEMMA KeptType ==
    ASSUME NEW q \in Seq(Msg), NEW keep \in SUBSET DOMAIN q, NEW rest \in Kept(q, keep)
    PROVE  /\ rest \in Seq(Msg)
           /\ q = <<>> => rest = <<>>
<1> DEFINE n == Cardinality(keep)
<1>1. /\ Len(q) \in Nat
      /\ DOMAIN q = 1..Len(q)
    BY LenProperties
<1>2. IsFiniteSet(1..Len(q))
    BY <1>1, FS_Interval
<1>3. IsFiniteSet(keep)
    BY <1>1, <1>2, FS_Subset
<1>4. n \in Nat
    BY <1>3, FS_CardinalityType
<1>5. PICK g \in [1..n -> keep] : rest = [i \in 1..n |-> q[g[i]]]
    BY DEF Kept
<1>6. rest \in [1..n -> Msg]
    BY <1>1, <1>5, ElementOfSeq
<1>7. rest \in Seq(Msg)
    BY <1>4, <1>6
<1>8. ASSUME q = <<>> PROVE rest = <<>>
  <2>1. keep = {}
    BY <1>8, <1>1
  <2>2. n = 0
    BY <2>1, FS_EmptySet
  <2> QED
    BY <1>5, <2>2
<1> QED
    BY <1>7, <1>8

-----------------------------------------------------------------------------
(* The initial state, then one lemma per callback. *)

LEMMA InitIInv == Init => IInv
<1> SUFFICES ASSUME Init PROVE IInv
    OBVIOUS
<1>1. outQ \in [Queue -> Seq(Msg)] /\ sentQ \in [Queue -> Seq(Call)]
    BY EmptySeq DEF Init
<1>2. /\ retryCnt \in 0..MaxRetries
      /\ waitReplyRecordMap \in [Call -> 0..MaxWaitReplyRetries]
    BY QueueAssumption DEF Init, QueueAssumption
<1>3. TypeOK
    BY <1>1, <1>2 DEF Init, TypeOK, Queue, SendState, Timer, SocketState, Fate
<1>4. SchedulingInv /\ HeadPresent /\ TimerArmed /\ NoStall /\ NothingStranded /\ FullRetryBudget
    BY DEF Init, SchedulingInv, HeadPresent, TimerArmed, NoStall, NothingStranded,
           FullRetryBudget, Busy
<1> QED
    BY <1>3, <1>4 DEF IInv

(* The common part of add and addReplaceExisting, given the reduced list. *)
LEMMA EnqueueIInv ==
    ASSUME IInv, NEW m \in Msg, NEW rest \in Seq(Msg), NEW gone,
           outQ[QueueOf(m)] = <<>> => rest = <<>>,
           Enqueue(m, rest, gone)
    PROVE  IInv'
<1> DEFINE c == QueueOf(m)
<1>1. c \in Queue
    BY DEF QueueOf, Queue
<1>2. TypeOK
    BY DEF IInv
<1>3. Append(rest, m) \in Seq(Msg) /\ Append(rest, m) # <<>>
    BY AppendProperties
<1>4. /\ outQ' = [outQ EXCEPT ![c] = Append(rest, m)]
      /\ outQ' \in [Queue -> Seq(Msg)]
      /\ outQ'[c] # <<>>
      /\ \A d \in Queue : outQ[d] # <<>> => outQ'[d] # <<>>
    BY <1>1, <1>2, <1>3 DEF Enqueue, TypeOK
<1>5. \/ /\ st' = "Scheduled" /\ st = "Idle" /\ csOnline
         /\ processPending' = processPending + 1
      \/ st' = st /\ processPending' = processPending
    BY <1>1, <1>2, <1>4 DEF Enqueue, ScheduleNextIfQNotEmpty, TypeOK
<1>6. csOnline /\ st = "Idle" /\ givenUp = {} => st' = "Scheduled"
    BY <1>1, <1>3, <1>4 DEF Enqueue, ScheduleNextIfQNotEmpty, IInv, NoStall
<1>7. /\ UNCHANGED <<csOnline, currentQ, sentQ, sendMsgTimer, retryCnt, waitReplyRecordMap>>
      /\ UNCHANGED <<ws, txBuffer, atCS, written, givenUp>>
      /\ fate' = [FateOf(gone, "replaced") EXCEPT ![m] = "held"]
    BY DEF Enqueue
<1>8. TypeOK'
  <2>1. fate' \in [Msg -> Fate]
      BY <1>2, <1>7 DEF FateOf, TypeOK, Fate
  <2>3. st' \in SendState /\ processPending' \in Nat
      BY <1>2, <1>5 DEF TypeOK, SendState
  <2> QED
      BY <1>2, <1>4, <1>7, <2>1, <2>3 DEF TypeOK
<1>9. SchedulingInv' /\ TimerArmed' /\ FullRetryBudget'
    BY <1>2, <1>5, <1>7 DEF IInv, SchedulingInv, TimerArmed, FullRetryBudget, Busy
<1>10. HeadPresent' /\ NothingStranded'
    BY <1>2, <1>4, <1>5, <1>7 DEF IInv, HeadPresent, NothingStranded, TypeOK
<1>11. NoStall'
    BY <1>5, <1>6, <1>7 DEF NoStall
<1> QED
    BY <1>8, <1>9, <1>10, <1>11 DEF IInv

LEMMA SubmitIInv ==
    ASSUME IInv, NEW m \in Msg, Submit(m)
    PROVE  IInv'
<1> DEFINE q == outQ[QueueOf(m)]
<1>1. q \in Seq(Msg)
    BY DEF IInv, TypeOK, QueueOf, Queue
<1>2. CASE Add(m)
    BY <1>1, <1>2, EnqueueIInv DEF Add
<1>3. CASE AddReplaceExisting(m)
  <2> DEFINE erased == Erased(SameAction(m))
  <2>1. PICK rest \in Kept(q, DOMAIN q \ erased) : Enqueue(m, rest, {q[i] : i \in erased})
      BY <1>3 DEF AddReplaceExisting
  <2>2. rest \in Seq(Msg) /\ (q = <<>> => rest = <<>>)
      BY <1>1, KeptType
  <2> QED
      BY <2>1, <2>2, EnqueueIInv
<1>4. CASE RefuseOffline(m)
    BY <1>4 DEF RefuseOffline, objVars, envVars, IInv, TypeOK, SchedulingInv, HeadPresent,
                TimerArmed, NoStall, NothingStranded, FullRetryBudget, Fate
<1> QED
    BY <1>2, <1>3, <1>4 DEF Submit

LEMMA ProcessNextMessageIInv ==
    ASSUME IInv, ProcessNextMessage
    PROVE  IInv'
<1> USE DEF Queue
<1>1. TypeOK /\ processPending = 1 /\ processPending' = 0
    BY DEF IInv, SchedulingInv, ProcessNextMessage
<1>2. /\ UNCHANGED <<csOnline, outQ, sentQ, retryCnt, waitReplyRecordMap, ws, atCS>>
      /\ UNCHANGED histVars
    BY DEF ProcessNextMessage
<1>3. st \in {"Idle", "Scheduled"}
    BY <1>1 DEF IInv, SchedulingInv
<1>4. \/ /\ st' = "Sent" /\ sendMsgTimer' = "send"
         /\ currentQ' \in Queue
         /\ outQ[currentQ'] # <<>>
         /\ txBuffer' \in {txBuffer, txBuffer \cup {Head(outQ[currentQ'])}}
      \/ /\ st' = "Idle"
         /\ \A c \in Queue : outQ[c] = <<>>
         /\ UNCHANGED <<currentQ, sendMsgTimer, txBuffer>>
    BY DEF ProcessNextMessage, SendMessage
<1>5. txBuffer' \subseteq Msg
  <2>1. \A c \in Queue : outQ[c] # <<>> => Head(outQ[c]) \in Msg
      BY <1>1, HeadTailProperties DEF TypeOK
  <2> QED
      BY <1>1, <1>4, <2>1 DEF TypeOK
<1>6. TypeOK'
    BY <1>1, <1>2, <1>4, <1>5 DEF TypeOK, SendState, Timer, histVars
<1>7. SchedulingInv' /\ TimerArmed' /\ FullRetryBudget'
    BY <1>1, <1>2, <1>3, <1>4 DEF IInv, SchedulingInv, TimerArmed, FullRetryBudget, Busy
<1>8. HeadPresent' /\ NoStall' /\ NothingStranded'
    BY <1>2, <1>3, <1>4 DEF IInv, HeadPresent, NoStall, NothingStranded, histVars
<1> QED
    BY <1>6, <1>7, <1>8 DEF IInv

LEMMA BytesWrittenIInv ==
    ASSUME IInv, BytesWritten
    PROVE  IInv'
<1>1. TypeOK
    BY DEF IInv
<1>2. CASE OnBytesWrittenIgnored
    BY <1>1, <1>2 DEF OnBytesWrittenIgnored, Flush, objVars, IInv, TypeOK, SchedulingInv, HeadPresent,
                TimerArmed, NoStall, NothingStranded, FullRetryBudget
<1>3. CASE OnBytesWritten
  <2> DEFINE msg == Head(outQ[currentQ])
  <2>1. /\ st = "Sent" /\ processPending = 0 /\ csOnline
        /\ ws \in {"Connected", "Closing"}
        /\ currentQ \in Queue
        /\ outQ[currentQ] # <<>>
      BY <1>1, <1>3 DEF OnBytesWritten, Flush, IInv, SchedulingInv, HeadPresent, TypeOK
  <2>2. /\ msg \in Msg
        /\ outQ' = [outQ EXCEPT ![currentQ] = Tail(@)]
        /\ outQ' \in [Queue -> Seq(Msg)]
      BY <1>1, <1>3, <2>1, HeadTailProperties DEF OnBytesWritten, TypeOK
  <2>3. /\ UNCHANGED <<csOnline, currentQ, waitReplyRecordMap, ws, givenUp>>
        /\ retryCnt' = 0
        /\ txBuffer' \subseteq Msg /\ atCS' \subseteq Call /\ written' \subseteq Msg
      BY <1>1, <1>3 DEF OnBytesWritten, Flush, TypeOK
  <2>4. CASE msg \in Call
    <3>1. /\ sentQ' = [sentQ EXCEPT ![currentQ] = Append(@, msg)]
          /\ st' = "WaitReply"
          /\ sendMsgTimer' = "noReply"
          /\ UNCHANGED <<processPending, fate>>
        BY <1>3, <2>4 DEF OnBytesWritten
    <3>2. /\ sentQ' \in [Queue -> Seq(Call)]
          /\ sentQ'[currentQ] # <<>>
          /\ sentQ[currentQ] = <<>> => Len(sentQ'[currentQ]) = 1
      <4>1. sentQ[currentQ] \in Seq(Call)
          BY <1>1, <2>1 DEF TypeOK
      <4>2. /\ Append(sentQ[currentQ], msg) \in Seq(Call)
            /\ Append(sentQ[currentQ], msg) # <<>>
            /\ Len(Append(sentQ[currentQ], msg)) = Len(sentQ[currentQ]) + 1
          BY <2>4, <4>1, AppendProperties
      <4> QED
          BY <1>1, <2>1, <3>1, <4>2, EmptySeq DEF TypeOK
    <3>3. TypeOK'
      <4>1. retryCnt' \in 0..MaxRetries
          BY <2>3, QueueAssumption DEF QueueAssumption
      <4> QED
          BY <1>1, <2>2, <2>3, <3>1, <3>2, <4>1 DEF TypeOK, SendState, Timer
    <3>4. SchedulingInv' /\ TimerArmed' /\ FullRetryBudget' /\ NoStall' /\ HeadPresent'
        BY <2>1, <2>3, <3>1, <3>2
           DEF IInv, SchedulingInv, TimerArmed, FullRetryBudget, Busy, NoStall, HeadPresent
    <3>5. NothingStranded'
        BY <1>1, <2>1, <2>3, <3>1, <3>2 DEF IInv, NothingStranded, TypeOK
    <3> QED
        BY <3>3, <3>4, <3>5 DEF IInv
  <2>5. CASE msg \notin Call
    <3>1. /\ sendMsgTimer' = "off"
          /\ fate' = [fate EXCEPT ![msg] = "sent"]
          /\ ScheduleNextIfQNotEmpty(outQ')
          /\ UNCHANGED sentQ
        BY <1>3, <2>5 DEF OnBytesWritten
    <3>2. \/ st' = "Scheduled" /\ processPending' = 1
          \/ st' = "Idle" /\ processPending' = 0 /\ \A c \in Queue : outQ'[c] = <<>>
        BY <2>1, <3>1 DEF ScheduleNextIfQNotEmpty
    <3>3. TypeOK'
        BY <1>1, <2>2, <2>3, <3>1, <3>2, QueueAssumption
           DEF TypeOK, SendState, Timer, Fate, QueueAssumption
    <3>4. SchedulingInv' /\ TimerArmed' /\ FullRetryBudget' /\ NoStall' /\ HeadPresent'
        BY <2>1, <2>3, <3>1, <3>2
           DEF IInv, SchedulingInv, TimerArmed, FullRetryBudget, Busy, NoStall, HeadPresent
    <3>5. NothingStranded'
        BY <2>1, <2>3, <3>1, <3>2 DEF IInv, NothingStranded
    <3> QED
        BY <3>3, <3>4, <3>5 DEF IInv
  <2> QED
      BY <2>4, <2>5
<1> QED
    BY <1>2, <1>3 DEF BytesWritten

LEMMA OnSendMessageTimeoutIInv ==
    ASSUME IInv, OnSendMessageTimeout
    PROVE  IInv'
<1>1. TypeOK /\ currentQ \in Queue
    BY DEF IInv, TypeOK
<1>2. st \in Busy => processPending = 0
    BY DEF IInv, SchedulingInv, Busy
<1>3. CASE SendTimeoutRetry
    BY <1>1, <1>3 DEF SendTimeoutRetry, envVars, histVars, SendState, Timer, Busy, IInv, TypeOK, SchedulingInv,
                HeadPresent, TimerArmed, NoStall, NothingStranded, FullRetryBudget
<1>4. CASE SendTimeoutDiscard
  <2>1. /\ st = "Sent" /\ processPending = 0
        /\ outQ' = [outQ EXCEPT ![currentQ] = Tail(@)]
        /\ fate' = [fate EXCEPT ![Head(outQ[currentQ])] = "discarded"]
        /\ sendMsgTimer' = "off" /\ retryCnt' = 0
        /\ UNCHANGED <<csOnline, currentQ, sentQ, waitReplyRecordMap, ws, txBuffer>>
        /\ UNCHANGED <<atCS, written, givenUp>>
      BY <1>2, <1>4 DEF SendTimeoutDiscard, Busy
  <2>2. \/ st' = "Scheduled" /\ csOnline /\ processPending' = 1
        \/ /\ st' = "Idle" /\ processPending' = 0
           /\ csOnline => \A c \in Queue : outQ'[c] = <<>>
    <3>1. ScheduleNextIfQNotEmpty(outQ') /\ processPending \in Nat
        BY <1>4, <2>1 DEF SendTimeoutDiscard
    <3> QED
        BY <2>1, <3>1 DEF ScheduleNextIfQNotEmpty
  <2>3. outQ' \in [Queue -> Seq(Msg)]
    <3>1. outQ[currentQ] \in Seq(Msg) /\ outQ[currentQ] # <<>>
        BY <1>1, <2>1 DEF IInv, TypeOK, HeadPresent
    <3>2. Tail(outQ[currentQ]) \in Seq(Msg)
        BY <3>1, HeadTailProperties
    <3> QED
        BY <1>1, <2>1, <3>2 DEF TypeOK
  <2>4. retryCnt' \in 0..MaxRetries
      BY <2>1, QueueAssumption DEF QueueAssumption
  <2>5. TypeOK'
      BY <1>1, <2>1, <2>2, <2>3, <2>4 DEF TypeOK, SendState, Timer, Fate
  <2>6. SchedulingInv' /\ HeadPresent' /\ TimerArmed' /\ NoStall' /\ FullRetryBudget'
      BY <2>1, <2>2 DEF IInv, SchedulingInv, HeadPresent, TimerArmed, NoStall, FullRetryBudget, Busy
  <2>7. NothingStranded'
      BY <2>1, <2>2 DEF IInv, NothingStranded
  <2> QED
      BY <2>5, <2>6, <2>7 DEF IInv
<1>5. CASE RetryTimeout
  <2>1. /\ st = "Retrying" /\ st' = "Sent" /\ sendMsgTimer' = "send"
        /\ retryCnt' = retryCnt + 1
        /\ UNCHANGED <<csOnline, currentQ, outQ, sentQ, waitReplyRecordMap, processPending, ws, atCS>>
        /\ UNCHANGED histVars
      BY <1>5 DEF RetryTimeout, SendMessage
  <2>2. retryCnt' \in 0..MaxRetries
      BY <1>1, <2>1, QueueAssumption DEF IInv, SchedulingInv, TypeOK, QueueAssumption
  <2>3. txBuffer' \subseteq Msg
    <3>1. outQ[currentQ] \in Seq(Msg) /\ outQ[currentQ] # <<>>
        BY <1>1, <2>1 DEF IInv, TypeOK, HeadPresent
    <3>2. Head(outQ[currentQ]) \in Msg
        BY <3>1, HeadTailProperties
    <3> QED
        BY <1>1, <1>5, <3>2 DEF RetryTimeout, SendMessage, TypeOK
  <2>4. TypeOK'
      BY <1>1, <2>1, <2>2, <2>3 DEF TypeOK, SendState, Timer, histVars
  <2>5. SchedulingInv' /\ HeadPresent' /\ TimerArmed' /\ NoStall' /\ FullRetryBudget'
      BY <2>1 DEF IInv, SchedulingInv, HeadPresent, TimerArmed, NoStall, FullRetryBudget, Busy, histVars
  <2>6. NothingStranded'
      BY <2>1 DEF IInv, NothingStranded, histVars
  <2> QED
      BY <2>4, <2>5, <2>6 DEF IInv
<1>6. CASE NoReplyTimeoutResend
  <2>1. /\ st = "WaitReply" /\ processPending = 0
        /\ waitReplyRecordMap[AwaitedCall] < MaxWaitReplyRetries
        /\ waitReplyRecordMap' = [waitReplyRecordMap EXCEPT ![AwaitedCall] = @ + 1]
        /\ outQ' = [outQ EXCEPT ![currentQ] = sentQ[currentQ] \o @]
        /\ sentQ' = [sentQ EXCEPT ![currentQ] = <<>>]
        /\ sendMsgTimer' = "off"
        /\ UNCHANGED <<csOnline, currentQ, retryCnt, ws, txBuffer, atCS>>
        /\ UNCHANGED histVars
      BY <1>2, <1>6 DEF NoReplyTimeoutResend, RestoreSentMsgToOutQ, Busy
  <2>2. \/ st' = "Scheduled" /\ csOnline /\ processPending' = 1
        \/ /\ st' = "Idle" /\ processPending' = 0
           /\ csOnline => \A c \in Queue : outQ'[c] = <<>>
    <3>1. ScheduleNextIfQNotEmpty(outQ') /\ processPending \in Nat
        BY <1>6, <2>1 DEF NoReplyTimeoutResend
    <3> QED
        BY <2>1, <3>1 DEF ScheduleNextIfQNotEmpty
  <2>3. outQ' \in [Queue -> Seq(Msg)] /\ sentQ' \in [Queue -> Seq(Call)]
    <3>1. sentQ[currentQ] \in Seq(Msg) /\ outQ[currentQ] \in Seq(Msg)
        BY <1>1, SeqMonotonic, QueueAssumption DEF TypeOK, QueueAssumption
    <3>2. sentQ[currentQ] \o outQ[currentQ] \in Seq(Msg)
        BY <3>1, ConcatProperties
    <3> QED
        BY <1>1, <2>1, <3>2, EmptySeq DEF TypeOK
  <2>4. waitReplyRecordMap' \in [Call -> 0..MaxWaitReplyRetries]
    <3>1. AwaitedCall \in Call
        BY <1>1, <2>1, HeadTailProperties DEF IInv, TypeOK, HeadPresent, AwaitedCall
    <3>2. waitReplyRecordMap[AwaitedCall] + 1 \in 0..MaxWaitReplyRetries
        BY <1>1, <2>1, <3>1, QueueAssumption DEF TypeOK, QueueAssumption
    <3> QED
        BY <1>1, <2>1, <3>1, <3>2 DEF TypeOK
  <2>5. TypeOK'
      BY <1>1, <2>1, <2>2, <2>3, <2>4 DEF TypeOK, SendState, Timer, histVars
  <2>6. SchedulingInv' /\ HeadPresent' /\ TimerArmed' /\ NoStall' /\ FullRetryBudget'
      BY <2>1, <2>2 DEF IInv, SchedulingInv, HeadPresent, TimerArmed, NoStall, FullRetryBudget, Busy, histVars
  <2>7. NothingStranded'
      BY <1>1, <2>1, <2>2 DEF IInv, NothingStranded, TypeOK, histVars
  <2> QED
      BY <2>5, <2>6, <2>7 DEF IInv
<1>7. CASE NoReplyTimeoutGiveUp
  <2>1. /\ st = "WaitReply" /\ st' = "Idle" /\ sendMsgTimer' = "off" /\ processPending = 0
        /\ waitReplyRecordMap' = [waitReplyRecordMap EXCEPT ![AwaitedCall] = 0]
        /\ givenUp' = givenUp \cup Range(sentQ[currentQ])
        /\ UNCHANGED <<csOnline, currentQ, outQ, sentQ, retryCnt, fate, written>>
        /\ UNCHANGED envVars
      BY <1>2, <1>7 DEF NoReplyTimeoutGiveUp, Busy
  <2>2. sentQ[currentQ] \in Seq(Call) /\ sentQ[currentQ] # <<>>
      BY <1>1, <2>1 DEF IInv, TypeOK, HeadPresent
  <2>3. givenUp' # {} /\ givenUp' \subseteq Call
    <3>1. Range(sentQ[currentQ]) \subseteq Call
        BY <2>2, RangeOfSeq
    <3>2. Head(sentQ[currentQ]) \in Range(sentQ[currentQ])
        BY <2>2, RangeEquality, EmptySeq, LenProperties
    <3> QED
        BY <1>1, <2>1, <3>1, <3>2 DEF TypeOK
  <2>4. TypeOK'
    <3>1. waitReplyRecordMap' \in [Call -> 0..MaxWaitReplyRetries]
      <4>1. 0 \in 0..MaxWaitReplyRetries
          BY QueueAssumption DEF QueueAssumption
      <4> QED
          BY <1>1, <2>1, <4>1 DEF TypeOK
    <3> QED
        BY <1>1, <2>1, <2>3, <3>1 DEF TypeOK, SendState, Timer, envVars
  <2>5. SchedulingInv' /\ HeadPresent' /\ TimerArmed' /\ NoStall' /\ FullRetryBudget' /\ NothingStranded'
      BY <2>1, <2>3 DEF IInv, SchedulingInv, HeadPresent, TimerArmed, NoStall, NothingStranded,
                        FullRetryBudget, Busy, envVars
  <2> QED
      BY <2>4, <2>5 DEF IInv
<1> QED
    BY <1>3, <1>4, <1>5, <1>6, <1>7 DEF OnSendMessageTimeout

LEMMA ReplyIInv ==
    ASSUME IInv, NEW m \in Call, Reply(m)
    PROVE  IInv'
<1>1. TypeOK /\ currentQ \in Queue
    BY DEF IInv, TypeOK
<1>2. CASE ReplyNotFound(m)
    BY <1>1, <1>2 DEF ReplyNotFound, ReplyReceived, objVars, histVars, IInv, TypeOK, SchedulingInv,
                HeadPresent, TimerArmed, NoStall, NothingStranded, FullRetryBudget
<1>3. CASE RemoveSentCallMessage(m)
  <2> DEFINE s == sentQ[currentQ]
  <2>1. PICK i \in DOMAIN s :
            sentQ' = [sentQ EXCEPT ![currentQ] = SubSeq(s, 1, i - 1) \o SubSeq(s, i + 1, Len(s))]
      BY <1>1, <1>3 DEF RemoveSentCallMessage, TypeOK
  <2>2. /\ atCS' \subseteq Call
        /\ fate' = [fate EXCEPT ![m] = "answered"]
        /\ UNCHANGED <<csOnline, currentQ, outQ, retryCnt, waitReplyRecordMap, ws, txBuffer>>
        /\ UNCHANGED <<written, givenUp>>
      BY <1>1, <1>3 DEF RemoveSentCallMessage, ReplyReceived, TypeOK
  <2>3. /\ s \in Seq(Call)
        /\ Len(s) \in Nat
        /\ i \in 1..Len(s)
      BY <1>1, <2>1, LenProperties DEF TypeOK
  <2>4. /\ SubSeq(s, 1, i - 1) \in Seq(Call)
        /\ SubSeq(s, i + 1, Len(s)) \in Seq(Call)
        /\ Len(SubSeq(s, 1, i - 1)) = i - 1
        /\ Len(SubSeq(s, i + 1, Len(s))) = Len(s) - i
    <3>1. \A j \in 1..Len(s) : s[j] \in Call
        BY <2>3, ElementOfSeq
    <3> HIDE DEF s
    <3>2. /\ SubSeq(s, 1, i - 1) \in Seq(Call)
          /\ Len(SubSeq(s, 1, i - 1)) = i - 1
      <4>1. /\ 1 \in Int
            /\ i - 1 \in Int
            /\ \A j \in 1..(i - 1) : s[j] \in Call
          BY <2>3, <3>1
      <4>2. /\ SubSeq(s, 1, i - 1) \in Seq(Call)
            /\ Len(SubSeq(s, 1, i - 1)) = IF 1 <= i - 1 THEN (i - 1) - 1 + 1 ELSE 0
          BY ONLY <4>1, SubSeqProperties
      <4> QED
          BY <2>3, <4>2
    <3>3. /\ SubSeq(s, i + 1, Len(s)) \in Seq(Call)
          /\ Len(SubSeq(s, i + 1, Len(s))) = Len(s) - i
      <4>1. /\ i + 1 \in Int
            /\ Len(s) \in Int
            /\ \A j \in (i + 1)..Len(s) : s[j] \in Call
          BY <2>3, <3>1
      <4>2. /\ SubSeq(s, i + 1, Len(s)) \in Seq(Call)
            /\ Len(SubSeq(s, i + 1, Len(s)))
                 = IF i + 1 <= Len(s) THEN Len(s) - (i + 1) + 1 ELSE 0
          BY ONLY <4>1, SubSeqProperties
      <4> QED
          BY <2>3, <4>2
    <3> QED
        BY <3>2, <3>3
  <2>5. /\ sentQ' \in [Queue -> Seq(Call)]
        /\ Len(sentQ'[currentQ]) = Len(s) - 1
    <3>1. /\ SubSeq(s, 1, i - 1) \o SubSeq(s, i + 1, Len(s)) \in Seq(Call)
          /\ Len(SubSeq(s, 1, i - 1) \o SubSeq(s, i + 1, Len(s))) = Len(s) - 1
      <4> DEFINE a == SubSeq(s, 1, i - 1)
                 b == SubSeq(s, i + 1, Len(s))
      <4>1. a \in Seq(Call) /\ b \in Seq(Call) /\ Len(a) = i - 1 /\ Len(b) = Len(s) - i
          BY <2>4
      <4> HIDE DEF a, b
      <4>2. a \o b \in Seq(Call) /\ Len(a \o b) = Len(a) + Len(b)
          BY <4>1, ConcatProperties
      <4>3. Len(a \o b) = Len(s) - 1
          BY <2>3, <4>1, <4>2
      <4> QED
          BY <4>2, <4>3 DEF a, b
    <3> QED
        BY <1>1, <2>1, <3>1 DEF TypeOK
  <2>6. \/ /\ st = "WaitReply" /\ sendMsgTimer' = "off"
           /\ \/ st' = "Scheduled" /\ csOnline /\ processPending' = processPending + 1
              \/ /\ st' = "Idle" /\ processPending' = processPending
                 /\ csOnline => \A c \in Queue : outQ[c] = <<>>
        \/ st # "WaitReply" /\ UNCHANGED <<st, sendMsgTimer, processPending>>
    <3>1. CASE st = "WaitReply"
      <4>1. ScheduleNextIfQNotEmpty(outQ) /\ sendMsgTimer' = "off" /\ processPending \in Nat
          BY <1>1, <1>3, <3>1 DEF RemoveSentCallMessage, TypeOK
      <4> QED
          BY <3>1, <4>1 DEF ScheduleNextIfQNotEmpty
    <3>2. CASE st # "WaitReply"
        BY <1>3, <3>2 DEF RemoveSentCallMessage
    <3> QED
        BY <3>1, <3>2
  <2>7. TypeOK'
    <3>1. fate' \in [Msg -> Fate]
        BY <1>1, <2>2 DEF TypeOK, Fate
    <3>2. st' \in SendState /\ sendMsgTimer' \in Timer /\ processPending' \in Nat
        BY <1>1, <2>6 DEF TypeOK, SendState, Timer
    <3> QED
        BY <1>1, <2>2, <2>5, <3>1, <3>2 DEF TypeOK
  <2>8. SchedulingInv' /\ TimerArmed' /\ FullRetryBudget'
      BY <2>2, <2>6 DEF IInv, SchedulingInv, TimerArmed, FullRetryBudget, Busy
  <2>9. HeadPresent' /\ NoStall'
      BY <2>2, <2>6 DEF IInv, HeadPresent, NoStall
  <2>10. NothingStranded'
    <3>1. SUFFICES ASSUME givenUp = {}
                   PROVE  \A c \in Queue : sentQ'[c] = <<>>
        BY <2>2, <2>6 DEF NothingStranded
    <3>2. s # <<>>
        BY <2>3
    <3>3. st = "WaitReply" /\ Len(s) = 1
        BY <1>1, <3>1, <3>2 DEF IInv, NothingStranded
    <3>4. sentQ'[currentQ] = <<>>
        BY <1>1, <2>5, <3>3, EmptySeq
    <3> QED
        BY <1>1, <2>1, <3>1, <3>4 DEF IInv, NothingStranded, TypeOK
  <2> QED
      BY <2>7, <2>8, <2>9, <2>10 DEF IInv
<1> QED
    BY <1>2, <1>3 DEF Reply

LEMMA StopProcessingIInv ==
    ASSUME IInv, StopProcessing, ws' \in {"Unconnected", "Connecting"},
           ws' = "Connecting" => processPending = 0
    PROVE  IInv'
<1> DEFINE q == outQ["NonTransactional"]
           erased == Erased({i \in DOMAIN q : q[i] \in Authorize})
<1> USE DEF Queue
<1>1. TypeOK
    BY DEF IInv
<1>2. PICK rest \in Kept(q, DOMAIN q \ erased) :
        outQ' = [outQ EXCEPT !["NonTransactional"] = rest,
                             !["Transactional"] =
                                 IF currentQ = "Transactional" THEN sentQ[currentQ] \o @ ELSE @]
    BY DEF StopProcessing
<1>3. /\ ~csOnline' /\ st' = "Idle" /\ sendMsgTimer' = "off" /\ retryCnt' = 0
      /\ sentQ' = [sentQ EXCEPT !["NonTransactional"] = <<>>, ![currentQ] = <<>>]
      /\ csOnline' \in BOOLEAN
      /\ txBuffer' = {} /\ atCS' = {}
      /\ fate' = FateOf({q[i] : i \in erased} \cup Range(sentQ["NonTransactional"]), "abandoned")
      /\ UNCHANGED <<currentQ, waitReplyRecordMap, processPending, written, givenUp>>
    BY DEF StopProcessing
<1>4. outQ' \in [Queue -> Seq(Msg)]
  <2>1. q \in Seq(Msg) /\ outQ["Transactional"] \in Seq(Msg)
      BY <1>1 DEF TypeOK
  <2>2. rest \in Seq(Msg)
      BY <2>1, KeptType
  <2>3. sentQ[currentQ] \in Seq(Msg)
      BY <1>1, SeqMonotonic, QueueAssumption DEF TypeOK, QueueAssumption
  <2>4. sentQ[currentQ] \o outQ["Transactional"] \in Seq(Msg)
      BY <2>1, <2>3, ConcatProperties
  <2> QED
      BY <1>1, <1>2, <2>1, <2>2, <2>4 DEF TypeOK
<1>5. sentQ' \in [Queue -> Seq(Call)]
    BY <1>1, <1>3, EmptySeq DEF TypeOK
<1>6. fate' \in [Msg -> Fate]
    BY <1>1, <1>3 DEF FateOf, TypeOK, Fate
<1>7. TypeOK'
  <2>1. retryCnt' \in 0..MaxRetries
      BY <1>3, QueueAssumption DEF QueueAssumption
  <2> QED
      BY <1>1, <1>3, <1>4, <1>5, <1>6, <2>1 DEF TypeOK, SendState, Timer, SocketState
<1>8. SchedulingInv' /\ HeadPresent' /\ TimerArmed' /\ NoStall' /\ FullRetryBudget'
    BY <1>3 DEF IInv, SchedulingInv, HeadPresent, TimerArmed, NoStall, FullRetryBudget, Busy
<1>9. NothingStranded'
    BY <1>1, <1>3 DEF IInv, NothingStranded, TypeOK
<1> QED
    BY <1>7, <1>8, <1>9 DEF IInv

LEMMA OnWsStateChangedIInv ==
    ASSUME IInv, OnWsStateChanged
    PROVE  IInv'
<1>1. TypeOK
    BY DEF IInv
<1>2. CASE WsConnecting
    BY <1>2, StopProcessingIInv DEF WsConnecting
<1>3. CASE WsUnconnected
    BY <1>3, StopProcessingIInv DEF WsUnconnected
<1>4. CASE WsClosing
    BY <1>1, <1>4 DEF WsClosing, objVars, histVars, SocketState, IInv, TypeOK, SchedulingInv, HeadPresent,
                TimerArmed, NoStall, NothingStranded, FullRetryBudget
<1>5. CASE WsConnected
  <2>1. /\ st = "Idle" /\ processPending = 0 /\ sendMsgTimer = "off"
        /\ ws' = "Connected" /\ csOnline' = TRUE /\ retryCnt' = 0
        /\ UNCHANGED <<currentQ, outQ, sentQ, sendMsgTimer, waitReplyRecordMap, txBuffer, atCS>>
        /\ UNCHANGED histVars
      BY <1>5 DEF WsConnected, IInv, SchedulingInv, TimerArmed, Busy
  <2>2. \/ st' = "Scheduled" /\ processPending' = 1
        \/ /\ st' = "Idle" /\ processPending' = 0
           /\ \A c \in Queue : outQ[c] = <<>>
      BY <1>5, <2>1 DEF WsConnected
  <2>3. TypeOK'
    <3>1. retryCnt' \in 0..MaxRetries
        BY <2>1, QueueAssumption DEF QueueAssumption
    <3> QED
        BY <1>1, <2>1, <2>2, <3>1 DEF TypeOK, SendState, SocketState, histVars
  <2>4. SchedulingInv' /\ HeadPresent' /\ TimerArmed' /\ NoStall' /\ FullRetryBudget'
      BY <2>1, <2>2 DEF IInv, SchedulingInv, HeadPresent, TimerArmed, NoStall, FullRetryBudget, Busy, histVars
  <2>5. NothingStranded'
      BY <2>1, <2>2 DEF IInv, NothingStranded, histVars
  <2> QED
      BY <2>3, <2>4, <2>5 DEF IInv
<1> QED
    BY <1>2, <1>3, <1>4, <1>5 DEF OnWsStateChanged

LEMMA NextIInv == IInv /\ [Next]_vars => IInv'
<1> SUFFICES ASSUME IInv, [Next]_vars PROVE IInv'
    OBVIOUS
<1>1. ASSUME NEW m \in Msg, Submit(m) PROVE IInv'
    BY <1>1, SubmitIInv
<1>2. CASE ProcessNextMessage
    BY <1>2, ProcessNextMessageIInv
<1>3. CASE BytesWritten
    BY <1>3, BytesWrittenIInv
<1>4. CASE OnSendMessageTimeout
    BY <1>4, OnSendMessageTimeoutIInv
<1>5. ASSUME NEW m \in Call, Reply(m) PROVE IInv'
    BY <1>5, ReplyIInv
<1>6. CASE OnWsStateChanged
    BY <1>6, OnWsStateChangedIInv
<1>7. CASE UNCHANGED vars
    BY <1>7 DEF vars, objVars, envVars, histVars, IInv, TypeOK, SchedulingInv, HeadPresent, TimerArmed,
                NoStall, NothingStranded, FullRetryBudget
<1> QED
    BY <1>1, <1>2, <1>3, <1>4, <1>5, <1>6, <1>7 DEF Next

-----------------------------------------------------------------------------
(* Theorems *)

(* The inductive invariant of the queue. *)
THEOREM QueueInvariant == Spec => []IInv
BY InitIInv, NextIInv, PTL DEF Spec

(* Every member of the queue keeps its type, for every set of messages. *)
THEOREM QueueTypeCorrect == Spec => []TypeOK
<1>1. IInv => TypeOK
    BY DEF IInv
<1> QED
    BY <1>1, QueueInvariant, PTL

(* first() and takeFirst() are never called on an empty list: after every  *)
(* timeout, reply, replacement and reconnection the list of the current    *)
(* queue holds what the state says it holds.                               *)
THEOREM QueueHeadPresent == Spec => []HeadPresent
<1>1. IInv => HeadPresent
    BY DEF IInv
<1> QED
    BY <1>1, QueueInvariant, PTL

(* A waiting queue always has the timer that ends its wait. *)
THEOREM QueueTimerArmed == Spec => []TimerArmed
<1>1. IInv => TimerArmed
    BY DEF IInv
<1> QED
    BY <1>1, QueueInvariant, PTL

(* Until the first call the CS leaves unanswered for good, an online queue *)
(* with messages to send is never idle, and no call is left behind in a    *)
(* sent list.                                                              *)
THEOREM QueueNoStall == Spec => [](NoStall /\ NothingStranded)
<1>1. IInv => NoStall /\ NothingStranded
    BY DEF IInv
<1> QED
    BY <1>1, QueueInvariant, PTL

(* Every message starts with its full number of send retries, whatever     *)
(* discarded, answered or interrupted the one before it.                   *)
THEOREM QueueFullRetryBudget == Spec => []FullRetryBudget
<1>1. IInv => FullRetryBudget
    BY DEF IInv
<1> QED
    BY <1>1, QueueInvariant, PTL

-----------------------------------------------------------------------------
(* What the lists hold *)

(* What the operations on lists leave in them, and that they repeat        *)
(* nothing.                                                                *)
LEMMA ConcatContent ==
    ASSUME NEW s \in Seq(Msg), NEW t \in Seq(Msg)
    PROVE  /\ s \o t \in Seq(Msg)
           /\ Range(s \o t) = Range(s) \cup Range(t)
           /\ IsInjective(s) /\ IsInjective(t) /\ Range(s) \cap Range(t) = {} => IsInjective(s \o t)
<1>1. /\ s \o t \in Seq(Msg) /\ Len(s \o t) = Len(s) + Len(t)
      /\ \A i \in 1..Len(s) + Len(t) : (s \o t)[i] = IF i <= Len(s) THEN s[i] ELSE t[i - Len(s)]
    BY ConcatProperties
<1>2. /\ Len(s) \in Nat /\ Len(t) \in Nat /\ DOMAIN s = 1..Len(s) /\ DOMAIN t = 1..Len(t)
      /\ DOMAIN (s \o t) = 1..Len(s \o t)
    BY <1>1, LenProperties
<1>3. ASSUME IsInjective(s), IsInjective(t), Range(s) \cap Range(t) = {} PROVE IsInjective(s \o t)
  <2> SUFFICES ASSUME NEW i \in 1..Len(s) + Len(t), NEW j \in 1..Len(s) + Len(t),
                      (s \o t)[i] = (s \o t)[j]
               PROVE  i = j
      BY <1>1, <1>2 DEF IsInjective
  <2>1. \A k \in 1..Len(s) : s[k] \in Range(s)
      BY <1>2 DEF Range
  <2>2. \A k \in 1..Len(t) : t[k] \in Range(t)
      BY <1>2 DEF Range
  <2>3. CASE i <= Len(s) /\ j <= Len(s)
    <3>1. i \in 1..Len(s) /\ j \in 1..Len(s) /\ s[i] = s[j]
        BY <1>1, <1>2, <2>3
    <3> QED
        BY <1>2, <1>3, <3>1 DEF IsInjective
  <2>4. CASE i > Len(s) /\ j > Len(s)
    <3>1. i - Len(s) \in 1..Len(t) /\ j - Len(s) \in 1..Len(t) /\ t[i - Len(s)] = t[j - Len(s)]
        BY <1>1, <1>2, <2>4
    <3>2. i - Len(s) = j - Len(s)
        BY <1>2, <1>3, <3>1 DEF IsInjective
    <3> QED
        BY <1>2, <3>2
  <2>5. CASE i <= Len(s) /\ j > Len(s)
    <3>1. i \in 1..Len(s) /\ j - Len(s) \in 1..Len(t) /\ s[i] = t[j - Len(s)]
        BY <1>1, <1>2, <2>5
    <3> QED
        BY <1>3, <2>1, <2>2, <3>1
  <2>6. CASE i > Len(s) /\ j <= Len(s)
    <3>1. j \in 1..Len(s) /\ i - Len(s) \in 1..Len(t) /\ s[j] = t[i - Len(s)]
        BY <1>1, <1>2, <2>6
    <3> QED
        BY <1>3, <2>1, <2>2, <3>1
  <2> QED
      BY <1>2, <2>3, <2>4, <2>5, <2>6
<1> QED
    BY <1>1, <1>3, RangeConcatenation

LEMMA AppendContent ==
    ASSUME NEW q \in Seq(Msg), NEW m \in Msg
    PROVE  /\ Append(q, m) \in Seq(Msg)
           /\ Range(Append(q, m)) = Range(q) \cup {m}
           /\ IsInjective(q) /\ m \notin Range(q) => IsInjective(Append(q, m))
<1>1. /\ Append(q, m) \in Seq(Msg) /\ Len(Append(q, m)) = Len(q) + 1
      /\ \A i \in 1..Len(q) : Append(q, m)[i] = q[i]
      /\ Append(q, m)[Len(q) + 1] = m
    BY AppendProperties
<1>2. /\ Len(q) \in Nat /\ DOMAIN q = 1..Len(q) /\ DOMAIN Append(q, m) = 1..Len(q) + 1
    BY <1>1, LenProperties
<1>3. 1..Len(q) + 1 = 1..Len(q) \cup {Len(q) + 1}
    BY <1>2
<1>4. Range(Append(q, m)) = Range(q) \cup {m}
    BY <1>1, <1>2, <1>3 DEF Range
<1>5. ASSUME IsInjective(q), m \notin Range(q) PROVE IsInjective(Append(q, m))
  <2>1. \A i \in 1..Len(q) : q[i] # m
      BY <1>2, <1>5 DEF Range
  <2> QED
      BY <1>1, <1>2, <1>3, <1>5, <2>1 DEF IsInjective
<1> QED
    BY <1>1, <1>4, <1>5

(* Without(q, i) is q without its i-th element. *)
Without(q, i) == SubSeq(q, 1, i - 1) \o SubSeq(q, i + 1, Len(q))

LEMMA WithoutProperties ==
    ASSUME NEW S, NEW q \in Seq(S), NEW i \in DOMAIN q
    PROVE  /\ Without(q, i) \in Seq(S)
           /\ Len(Without(q, i)) = Len(q) - 1
           /\ \A j \in 1..Len(q) - 1 : Without(q, i)[j] = IF j < i THEN q[j] ELSE q[j + 1]
<1>1. Len(q) \in Nat /\ DOMAIN q = 1..Len(q) /\ i \in 1..Len(q)
    BY LenProperties
<1>2. \A j \in 1..Len(q) : q[j] \in S
    BY ElementOfSeq
<1> DEFINE a == SubSeq(q, 1, i - 1)
           b == SubSeq(q, i + 1, Len(q))
<1>3. /\ a \in Seq(S) /\ Len(a) = i - 1
      /\ \A j \in 1..i - 1 : a[j] = q[j]
  <2>1. /\ 1 \in Int /\ i - 1 \in Int
        /\ \A j \in 1..(i - 1) : q[j] \in S
      BY <1>1, <1>2
  <2>2. /\ a \in Seq(S) /\ Len(a) = IF 1 <= i - 1 THEN (i - 1) - 1 + 1 ELSE 0
        /\ \A j \in 1..(i - 1) - 1 + 1 : a[j] = q[1 + j - 1]
      BY ONLY <2>1, SubSeqProperties
  <2> HIDE DEF a
  <2> QED
      BY <1>1, <2>2
<1>4. /\ b \in Seq(S) /\ Len(b) = Len(q) - i
      /\ \A j \in 1..Len(q) - i : b[j] = q[i + j]
  <2>1. /\ i + 1 \in Int /\ Len(q) \in Int
        /\ \A j \in (i + 1)..Len(q) : q[j] \in S
      BY <1>1, <1>2
  <2>2. /\ b \in Seq(S) /\ Len(b) = IF i + 1 <= Len(q) THEN Len(q) - (i + 1) + 1 ELSE 0
        /\ \A j \in 1..Len(q) - (i + 1) + 1 : b[j] = q[(i + 1) + j - 1]
      BY ONLY <2>1, SubSeqProperties
  <2> HIDE DEF b
  <2>3. Len(b) = Len(q) - i
      BY <1>1, <2>2
  <2>4. ASSUME NEW j \in 1..Len(q) - i PROVE b[j] = q[i + j]
    <3>1. j \in 1..Len(q) - (i + 1) + 1 /\ (i + 1) + j - 1 = i + j
        BY <1>1
    <3> QED
        BY ONLY <2>2, <3>1, Zenon
  <2> QED
      BY <2>2, <2>3, <2>4
<1> HIDE DEF a, b
<1>5. /\ a \o b \in Seq(S) /\ Len(a \o b) = Len(a) + Len(b)
      /\ \A j \in 1..Len(a) + Len(b) : (a \o b)[j] = IF j <= Len(a) THEN a[j] ELSE b[j - Len(a)]
    BY <1>3, <1>4, ConcatProperties
<1>6. Len(a \o b) = Len(q) - 1
    BY <1>1, <1>3, <1>4, <1>5
<1>7. ASSUME NEW j \in 1..Len(q) - 1 PROVE (a \o b)[j] = IF j < i THEN q[j] ELSE q[j + 1]
  <2>1. CASE j < i
      BY <1>1, <1>3, <1>4, <1>5, <2>1
  <2>2. CASE ~(j < i)
    <3>1. j - (i - 1) \in 1..Len(q) - i /\ i + (j - (i - 1)) = j + 1
        BY <1>1, <2>2
    <3>2. b[j - (i - 1)] = q[j + 1]
        BY <1>4, <3>1
    <3>3. (a \o b)[j] = b[j - (i - 1)]
      <4>1. j \in 1..Len(a) + Len(b) /\ ~(j <= Len(a)) /\ j - Len(a) = j - (i - 1)
          BY <1>1, <1>3, <1>4, <2>2
      <4>2. (a \o b)[j] = b[j - Len(a)]
          BY <1>5, <4>1
      <4> QED
          BY <4>1, <4>2
    <3> QED
        BY <2>2, <3>2, <3>3
  <2> QED
      BY <2>1, <2>2
<1> QED
    BY <1>5, <1>6, <1>7 DEF Without, a, b

LEMMA WithoutContent ==
    ASSUME NEW S, NEW q \in Seq(S), IsInjective(q), NEW i \in DOMAIN q
    PROVE  /\ Without(q, i) \in Seq(S)
           /\ IsInjective(Without(q, i))
           /\ Range(Without(q, i)) = Range(q) \ {q[i]}
<1>1. Len(q) \in Nat /\ DOMAIN q = 1..Len(q) /\ i \in 1..Len(q)
    BY LenProperties
<1> DEFINE w == Without(q, i)
<1>2. /\ w \in Seq(S) /\ Len(w) = Len(q) - 1
      /\ \A j \in 1..Len(q) - 1 : w[j] = IF j < i THEN q[j] ELSE q[j + 1]
    BY WithoutProperties
<1> HIDE DEF w
<1>3. DOMAIN w = 1..Len(q) - 1
    BY <1>2, LenProperties
<1>4. IsInjective(w)
  <2> SUFFICES ASSUME NEW j \in 1..Len(q) - 1, NEW k \in 1..Len(q) - 1, w[j] = w[k]
               PROVE  j = k
      BY <1>3 DEF IsInjective
  <2> DEFINE at(x) == IF x < i THEN x ELSE x + 1
  <2>1. at(j) \in 1..Len(q) /\ at(k) \in 1..Len(q) /\ w[j] = q[at(j)] /\ w[k] = q[at(k)]
      BY <1>1, <1>2
  <2>2. at(j) = at(k)
      BY <1>1, <2>1 DEF IsInjective
  <2> QED
      BY <1>1, <2>2
<1>5. ASSUME NEW m \in Range(w) PROVE m \in Range(q) \ {q[i]}
  <2>1. PICK j \in 1..Len(q) - 1 : m = w[j]
      BY <1>3 DEF Range
  <2>2. PICK k \in 1..Len(q) : k # i /\ m = q[k]
      BY <1>1, <1>2, <2>1
  <2> QED
      BY <1>1, <2>2 DEF Range, IsInjective
<1>6. ASSUME NEW m \in Range(q) \ {q[i]} PROVE m \in Range(w)
  <2>1. PICK k \in 1..Len(q) : m = q[k] /\ k # i
      BY <1>1 DEF Range
  <2>2. CASE k < i
    <3>1. k \in 1..Len(q) - 1 /\ w[k] = m
        BY <1>1, <1>2, <2>1, <2>2
    <3> QED
        BY <1>3, <3>1 DEF Range
  <2>3. CASE ~(k < i)
    <3>1. k - 1 \in 1..Len(q) - 1 /\ w[k - 1] = m
        BY <1>1, <1>2, <2>1, <2>3
    <3> QED
        BY <1>3, <3>1 DEF Range
  <2> QED
      BY <2>2, <2>3
<1>7. Range(w) = Range(q) \ {q[i]}
    BY <1>5, <1>6
<1> QED
    BY <1>2, <1>4, <1>7 DEF w

LEMMA TailContent ==
    ASSUME NEW q \in Seq(Msg), q # <<>>
    PROVE  /\ Tail(q) = Without(q, 1)
           /\ 1 \in DOMAIN q /\ Head(q) = q[1]
<1>1. Len(q) \in Nat \ {0} /\ DOMAIN q = 1..Len(q)
    BY LenProperties, EmptySeq
<1>2. /\ Tail(q) \in Seq(Msg) /\ Len(Tail(q)) = Len(q) - 1
      /\ \A i \in 1..Len(Tail(q)) : Tail(q)[i] = q[i + 1]
    BY HeadTailProperties
<1>3. /\ Without(q, 1) \in Seq(Msg) /\ Len(Without(q, 1)) = Len(q) - 1
      /\ \A j \in 1..Len(q) - 1 : Without(q, 1)[j] = IF j < 1 THEN q[j] ELSE q[j + 1]
  <2>1. 1 \in DOMAIN q
      BY <1>1
  <2> QED
      BY <2>1, WithoutProperties, Zenon
<1>4. Tail(q) = Without(q, 1)
  <2>1. \A j \in 1..Len(Tail(q)) : Tail(q)[j] = Without(q, 1)[j]
      BY <1>1, <1>2, <1>3
  <2> QED
      BY <1>2, <1>3, <2>1, SeqEqual
<1> QED
    BY <1>1, <1>4

(* The positions kept are all taken, each once. *)
LEMMA KeptPositions ==
    ASSUME NEW q \in Seq(Msg), NEW keep \in SUBSET DOMAIN q, NEW rest \in Kept(q, keep)
    PROVE  /\ Cardinality(keep) \in Nat
           /\ \E g \in Bijection(1..Cardinality(keep), keep) :
                /\ rest = [i \in 1..Cardinality(keep) |-> q[g[i]]]
                /\ \A i, j \in 1..Cardinality(keep) : i < j => g[i] < g[j]
<1> DEFINE n == Cardinality(keep)
<1>1. Len(q) \in Nat /\ DOMAIN q = 1..Len(q)
    BY LenProperties
<1>2. IsFiniteSet(keep)
  <2>1. IsFiniteSet(1..Len(q))
      BY <1>1, FS_Interval
  <2>2. keep \in SUBSET (1..Len(q))
      BY <1>1
  <2> QED
      BY <2>1, <2>2, FS_Subset, Zenon
<1>3. n \in Nat
    BY <1>2, FS_CardinalityType
<1>4. PICK g \in [1..n -> keep] : /\ \A i, j \in 1..n : i < j => g[i] < g[j]
                                  /\ rest = [i \in 1..n |-> q[g[i]]]
    BY DEF Kept
<1> HIDE DEF n
<1>5. IsInjective(g)
  <2> SUFFICES ASSUME NEW i \in 1..n, NEW j \in 1..n, g[i] = g[j] PROVE i = j
      BY DEF IsInjective
  <2>1. g[i] \in Nat
      BY <1>1
  <2> QED
      BY <1>3, <1>4, <2>1
<1>6. g \in Injection(1..n, keep)
    BY <1>5 DEF Injection
<1>7. Cardinality(1..n) = n
    BY <1>3, FS_Interval
<1>8. g \in Surjection(1..n, keep)
    BY <1>2, <1>6, <1>7, FS_Injection DEF n
<1>9. g \in Bijection(1..n, keep)
    BY <1>6, <1>8 DEF Bijection
<1> QED
    BY <1>3, <1>4, <1>9 DEF n

LEMMA KeptContent ==
    ASSUME NEW q \in Seq(Msg), IsInjective(q), NEW keep \in SUBSET DOMAIN q, NEW rest \in Kept(q, keep)
    PROVE  /\ rest \in Seq(Msg)
           /\ IsInjective(rest)
           /\ Range(rest) = Range(q) \ {q[i] : i \in DOMAIN q \ keep}
<1> DEFINE n == Cardinality(keep)
<1>1. PICK g \in Bijection(1..n, keep) : rest = [i \in 1..n |-> q[g[i]]]
    BY KeptPositions
<1> HIDE DEF n
<1>2. /\ g \in [1..n -> keep] /\ \A i, j \in 1..n : g[i] = g[j] => i = j
      /\ \A k \in keep : \E i \in 1..n : g[i] = k
    BY DEF Bijection, Injection, Surjection, IsInjective
<1>3. IsInjective(rest)
    BY <1>1, <1>2 DEF IsInjective
<1>4. Range(rest) = {q[k] : k \in keep}
    BY <1>1, <1>2 DEF Range
<1>5. {q[k] : k \in keep} = Range(q) \ {q[i] : i \in DOMAIN q \ keep}
    BY DEF Range, IsInjective
<1> QED
    BY <1>3, <1>4, <1>5, KeptType

(* A list that keeps its first element keeps it first. *)
LEMMA KeptFirst ==
    ASSUME NEW q \in Seq(Msg), NEW keep \in SUBSET DOMAIN q, 1 \in keep, NEW rest \in Kept(q, keep)
    PROVE  1 \in DOMAIN rest /\ rest[1] = q[1]
<1> DEFINE n == Cardinality(keep)
<1>1. /\ n \in Nat
      /\ \E g \in Bijection(1..n, keep) :
           /\ rest = [i \in 1..n |-> q[g[i]]]
           /\ \A i, j \in 1..n : i < j => g[i] < g[j]
    BY KeptPositions
<1> HIDE DEF n
<1>2. PICK g \in Bijection(1..n, keep) : /\ rest = [i \in 1..n |-> q[g[i]]]
                                         /\ \A i, j \in 1..n : i < j => g[i] < g[j]
    BY <1>1
<1>3. PICK k \in 1..n : g[k] = 1
    BY DEF Bijection, Surjection
<1>4. 1 \in 1..n /\ g[1] \in keep
    BY <1>1, <1>3 DEF Bijection, Surjection
<1>5. g[1] \in Nat \ {0}
    BY <1>4, LenProperties
<1>6. k = 1
    BY <1>1, <1>2, <1>3, <1>4, <1>5
<1> QED
    BY <1>2, <1>3, <1>4, <1>6

(* Held(c) is the same when messages move between the lists of c. *)
LEMMA HeldMoved ==
    ASSUME NEW s \in Seq(Msg), NEW o \in Seq(Msg)
    PROVE  /\ <<>> \o (s \o o) = s \o o
           /\ o # <<>> => Append(s, Head(o)) \o Tail(o) = s \o o
<1>1. s \o o \in Seq(Msg)
    BY ConcatProperties
<1>2. <<>> \o (s \o o) = s \o o
    BY <1>1, ConcatEmptySeq
<1>3. ASSUME o # <<>> PROVE Append(s, Head(o)) \o Tail(o) = s \o o
  <2> DEFINE a == Append(s, Head(o))
             t == Tail(o)
  <2>1. /\ Len(s) \in Nat /\ Len(o) \in Nat \ {0} /\ Head(o) = o[1]
      BY <1>3, LenProperties, EmptySeq
  <2>2. /\ t \in Seq(Msg) /\ Len(t) = Len(o) - 1 /\ Head(o) \in Msg
        /\ \A i \in 1..Len(t) : t[i] = o[i + 1]
      BY <1>3, HeadTailProperties
  <2>3. /\ a \in Seq(Msg) /\ Len(a) = Len(s) + 1
        /\ \A i \in 1..Len(s) : a[i] = s[i]
        /\ a[Len(s) + 1] = o[1]
      BY <2>1, <2>2, AppendProperties
  <2> HIDE DEF a, t
  <2>4. /\ a \o t \in Seq(Msg) /\ Len(a \o t) = Len(a) + Len(t)
        /\ \A i \in 1..Len(a) + Len(t) : (a \o t)[i] = IF i <= Len(a) THEN a[i] ELSE t[i - Len(a)]
      BY <2>2, <2>3, ConcatProperties
  <2>5. /\ Len(s \o o) = Len(s) + Len(o)
        /\ \A i \in 1..Len(s) + Len(o) : (s \o o)[i] = IF i <= Len(s) THEN s[i] ELSE o[i - Len(s)]
      BY ConcatProperties
  <2>6. Len(a \o t) = Len(s \o o)
      BY <2>1, <2>2, <2>3, <2>4, <2>5
  <2>7. ASSUME NEW i \in 1..Len(s) + Len(o) PROVE (a \o t)[i] = (s \o o)[i]
    <3>1. CASE i <= Len(s)
        BY <2>1, <2>2, <2>3, <2>4, <2>5, <3>1
    <3>2. CASE i = Len(s) + 1
      <4>1. (a \o t)[i] = a[Len(s) + 1]
          BY <2>1, <2>2, <2>3, <2>4, <3>2
      <4>2. (s \o o)[i] = o[i - Len(s)] /\ i - Len(s) = 1
          BY <2>1, <2>5, <3>2
      <4> QED
          BY <2>3, <4>1, <4>2
    <3>3. CASE i > Len(s) + 1
      <4>1. i - (Len(s) + 1) \in 1..Len(t) /\ (i - (Len(s) + 1)) + 1 = i - Len(s)
          BY <2>1, <2>2, <3>3
      <4>2. (a \o t)[i] = t[i - (Len(s) + 1)] /\ (s \o o)[i] = o[i - Len(s)]
          BY <2>1, <2>2, <2>3, <2>4, <2>5, <3>3
      <4>3. t[i - (Len(s) + 1)] = o[(i - (Len(s) + 1)) + 1]
          BY <2>2, <4>1
      <4>4. (i - (Len(s) + 1)) + 1 = i - Len(s)
          BY <4>1
      <4>5. t[i - (Len(s) + 1)] = o[i - Len(s)]
          BY ONLY <4>3, <4>4, Zenon
      <4> QED
          BY <4>2, <4>5
    <3>4. i <= Len(s) \/ i = Len(s) + 1 \/ i > Len(s) + 1
        BY <2>1
    <3> QED
        BY <3>1, <3>2, <3>3, <3>4
  <2>8. a \o t = s \o o
      BY <1>1, <2>4, <2>5, <2>6, <2>7, SeqEqual
  <2> QED
      BY <2>8 DEF a, t
<1> QED
    BY <1>2, <1>3

LEMMA WithoutConcat ==
    ASSUME NEW s \in Seq(Msg), NEW o \in Seq(Msg), NEW i \in DOMAIN s
    PROVE  i \in DOMAIN (s \o o) /\ (s \o o)[i] = s[i] /\ Without(s, i) \o o = Without(s \o o, i)
<1>1. Len(s) \in Nat /\ Len(o) \in Nat /\ i \in 1..Len(s)
    BY LenProperties
<1> DEFINE q == s \o o
           w == Without(s, i)
           v == Without(q, i)
<1>2. /\ q \in Seq(Msg) /\ Len(q) = Len(s) + Len(o)
      /\ \A j \in 1..Len(s) + Len(o) : q[j] = IF j <= Len(s) THEN s[j] ELSE o[j - Len(s)]
    BY ConcatProperties
<1> HIDE DEF q
<1>3. i \in DOMAIN q /\ q[i] = s[i]
  <2>1. DOMAIN q = 1..Len(q)
      BY <1>2, LenProperties
  <2> QED
      BY <1>1, <1>2, <2>1
<1>4. /\ w \in Seq(Msg) /\ Len(w) = Len(s) - 1
      /\ \A j \in 1..Len(s) - 1 : w[j] = IF j < i THEN s[j] ELSE s[j + 1]
    BY WithoutProperties, Zenon
<1>5. /\ v \in Seq(Msg) /\ Len(v) = Len(q) - 1
      /\ \A j \in 1..Len(q) - 1 : v[j] = IF j < i THEN q[j] ELSE q[j + 1]
    BY <1>2, <1>3, WithoutProperties, Zenon
<1> HIDE DEF w, v
<1>6. /\ w \o o \in Seq(Msg) /\ Len(w \o o) = Len(w) + Len(o)
      /\ \A j \in 1..Len(w) + Len(o) : (w \o o)[j] = IF j <= Len(w) THEN w[j] ELSE o[j - Len(w)]
    BY <1>4, ConcatProperties
<1>7. Len(w \o o) = Len(v)
    BY <1>1, <1>2, <1>4, <1>5, <1>6
<1>8. ASSUME NEW j \in 1..Len(s) + Len(o) - 1 PROVE (w \o o)[j] = v[j]
  <2>1. CASE j < i
      BY <1>1, <1>2, <1>4, <1>5, <1>6, <2>1
  <2>2. CASE j >= i /\ j < Len(s)
      BY <1>1, <1>2, <1>4, <1>5, <1>6, <2>2
  <2>3. CASE j >= Len(s)
    <3>1. (w \o o)[j] = o[j - Len(w)]
        BY <1>1, <1>4, <1>6, <2>3
    <3>2. v[j] = q[j + 1]
        BY <1>1, <1>2, <1>5, <2>3
    <3>3. q[j + 1] = o[(j + 1) - Len(s)]
        BY <1>1, <1>2, <2>3
    <3>4. j - Len(w) = (j + 1) - Len(s)
        BY <1>1, <1>4
    <3> QED
        BY <3>1, <3>2, <3>3, <3>4
  <2>4. j < i \/ (j >= i /\ j < Len(s)) \/ j >= Len(s)
      BY <1>1
  <2> QED
      BY <2>1, <2>2, <2>3, <2>4
<1>9. w \o o = v
  <2>1. Len(w \o o) = Len(s) + Len(o) - 1
      BY <1>1, <1>4, <1>6
  <2>2. \A j \in 1..Len(w \o o) : (w \o o)[j] = v[j]
      BY <1>8, <2>1
  <2> QED
      BY <1>5, <1>6, <1>7, <2>2, SeqEqual
<1> QED
    BY <1>3, <1>9 DEF q, v, w

LEMMA KeptAppend ==
    ASSUME NEW s \in Seq(Msg), NEW r \in Seq(Msg), NEW m \in Msg
    PROVE  s \o Append(r, m) = Append(s \o r, m)
<1>1. <<m>> \in Seq(Msg)
    OBVIOUS
<1>2. Append(r, m) = r \o <<m>>
    BY AppendIsConcat
<1>3. s \o r \in Seq(Msg)
    BY ConcatProperties
<1>4. Append(s \o r, m) = (s \o r) \o <<m>>
    BY <1>3, AppendIsConcat
<1> QED
    BY <1>1, <1>2, <1>4, ConcatAssociative

(* Erasing from a list is erasing from what it is the end of. *)
LEMMA KeptConcat ==
    ASSUME NEW s \in Seq(Msg), NEW o \in Seq(Msg), NEW erased \in SUBSET DOMAIN o,
           NEW rest \in Kept(o, DOMAIN o \ erased)
    PROVE  \E gone \in SUBSET DOMAIN (s \o o) :
             /\ s \o rest \in Kept(s \o o, DOMAIN (s \o o) \ gone)
             /\ {(s \o o)[i] : i \in gone} = {o[i] : i \in erased}
<1> DEFINE keep == DOMAIN o \ erased
           n == Cardinality(keep)
           k == Len(s)
           q == s \o o
           gone == {i \in DOMAIN q : i - k \in erased}
           stay == DOMAIN q \ gone
<1>1. k \in Nat /\ Len(o) \in Nat /\ DOMAIN o = 1..Len(o) /\ DOMAIN s = 1..k
    BY LenProperties
<1>2. /\ q \in Seq(Msg) /\ DOMAIN q = 1..k + Len(o)
      /\ \A i \in 1..k + Len(o) : q[i] = IF i <= k THEN s[i] ELSE o[i - k]
    BY <1>1, ConcatProperties, LenProperties
<1>3. /\ n \in Nat
      /\ \E g \in Bijection(1..n, keep) :
           /\ rest = [i \in 1..n |-> o[g[i]]]
           /\ \A i, j \in 1..n : i < j => g[i] < g[j]
  <2>1. keep \in SUBSET DOMAIN o /\ rest \in Kept(o, keep)
      OBVIOUS
  <2> HIDE DEF keep
  <2> QED
      BY <2>1, KeptPositions
<1>4. rest \in Seq(Msg)
    BY KeptType
<1> HIDE DEF n, q, k
<1>5. PICK g \in Bijection(1..n, keep) : /\ rest = [i \in 1..n |-> o[g[i]]]
                                         /\ \A i, j \in 1..n : i < j => g[i] < g[j]
    BY <1>3
<1>6. /\ g \in [1..n -> keep] /\ \A i, j \in 1..n : g[i] = g[j] => i = j
      /\ \A x \in keep : \E i \in 1..n : g[i] = x
    BY <1>5 DEF Bijection, Injection, Surjection, IsInjective
<1>7. \A i \in 1..n : g[i] \in 1..Len(o) /\ g[i] \notin erased
    BY <1>1, <1>6
<1> DEFINE h == [i \in 1..k + n |-> IF i <= k THEN i ELSE k + g[i - k]]
<1>8. ASSUME NEW i \in 1..k + n, i > k PROVE i - k \in 1..n /\ h[i] = k + g[i - k]
    BY <1>1, <1>3, <1>8
<1>9. \A i \in 1..k + n : i <= k => h[i] = i
    OBVIOUS
<1> HIDE DEF keep
<1>10. ASSUME NEW i \in 1..k + n PROVE h[i] \in stay
  <2>1. CASE i <= k
    <3>1. h[i] = i /\ i \in 1..k + Len(o) /\ i - k \notin erased
        BY <1>1, <1>3, <1>9, <2>1
    <3> QED
        BY <1>2, <3>1
  <2>2. CASE i > k
    <3>1. g[i - k] \in 1..Len(o) /\ g[i - k] \notin erased /\ h[i] = k + g[i - k]
        BY <1>7, <1>8, <2>2
    <3>2. h[i] \in 1..k + Len(o) /\ h[i] - k = g[i - k]
        BY <1>1, <3>1
    <3> QED
        BY <1>2, <3>1, <3>2
  <2> QED
      BY <1>1, <1>3, <2>1, <2>2
<1>11. ASSUME NEW i \in 1..k + n, NEW j \in 1..k + n, i < j PROVE h[i] < h[j]
  <2>1. CASE j <= k
      BY <1>1, <1>3, <1>9, <1>11, <2>1
  <2>2. CASE i <= k /\ j > k
    <3>1. g[j - k] \in 1..Len(o) /\ h[j] = k + g[j - k] /\ h[i] = i
        BY <1>7, <1>8, <1>9, <2>2
    <3> QED
        BY <1>1, <2>2, <3>1
  <2>3. CASE i > k
    <3>1. i - k \in 1..n /\ j - k \in 1..n /\ i - k < j - k
        BY <1>1, <1>3, <1>11, <2>3
    <3>2. g[i - k] < g[j - k] /\ g[i - k] \in 1..Len(o) /\ g[j - k] \in 1..Len(o)
        BY <1>5, <1>7, <3>1
    <3>3. h[i] = k + g[i - k] /\ h[j] = k + g[j - k]
        BY <1>1, <1>3, <1>8, <1>11, <2>3
    <3> QED
        BY <1>1, <3>2, <3>3
  <2> QED
      BY <1>1, <1>3, <1>11, <2>1, <2>2, <2>3
<1>12. ASSUME NEW x \in stay PROVE \E i \in 1..k + n : h[i] = x
  <2>1. x \in 1..k + Len(o) /\ x - k \notin erased
      BY <1>2
  <2>2. CASE x <= k
    <3>1. x \in 1..k + n /\ h[x] = x
        BY <1>1, <1>3, <1>9, <2>1, <2>2
    <3> QED
        BY <3>1
  <2>3. CASE x > k
    <3>1. x - k \in keep
        BY <1>1, <2>1, <2>3 DEF keep
    <3>2. PICK y \in 1..n : g[y] = x - k
        BY <1>6, <3>1
    <3>3. k + y \in 1..k + n /\ k + y > k /\ (k + y) - k = y
        BY <1>1, <1>3
    <3>4. h[k + y] = k + g[y]
        BY <1>8, <3>3
    <3>5. h[k + y] = x
        BY <1>1, <2>1, <3>2, <3>4
    <3> QED
        BY <3>3, <3>5
  <2> QED
      BY <1>1, <2>1, <2>2, <2>3
<1>13. Cardinality(stay) = k + n
  <2>1. h \in [1..k + n -> stay]
      BY <1>10
  <2> HIDE DEF stay
  <2>2. \A i \in 1..k + n, j \in 1..k + n : h[i] = h[j] => i = j
    <3>1. \A i \in 1..k + n : h[i] \in Int
        BY <1>2, <1>10 DEF stay
    <3> HIDE DEF h
    <3> QED
        BY <1>1, <1>3, <1>11, <3>1
  <2> HIDE DEF h
  <2>3. h \in Bijection(1..k + n, stay)
      BY <1>12, <2>1, <2>2 DEF Bijection, Injection, Surjection, IsInjective
  <2>4. ExistsBijection(1..k + n, stay)
      BY <2>3 DEF ExistsBijection
  <2>5. k + n \in Nat
      BY <1>1, <1>3
  <2> QED
      BY <2>4, <2>5, FS_CountingElements
<1>14. s \o rest = [i \in 1..k + n |-> q[h[i]]]
  <2>1. Len(rest) = n
      BY <1>3, <1>4, <1>5, LenProperties
  <2>2. /\ s \o rest \in Seq(Msg) /\ Len(s \o rest) = k + n
        /\ \A i \in 1..k + n : (s \o rest)[i] = IF i <= k THEN s[i] ELSE rest[i - k]
      BY <1>4, <2>1, ConcatProperties DEF k
  <2>3. ASSUME NEW i \in 1..k + n PROVE (s \o rest)[i] = q[h[i]]
    <3>1. CASE i <= k
      <4>1. h[i] = i /\ i \in 1..k + Len(o)
          BY <1>1, <1>3, <1>9, <3>1
      <4> QED
          BY <1>2, <2>2, <3>1, <4>1
    <3>2. CASE i > k
      <4>1. i - k \in 1..n /\ h[i] = k + g[i - k] /\ g[i - k] \in 1..Len(o)
          BY <1>7, <1>8, <3>2
      <4>2. k + g[i - k] \in 1..k + Len(o) /\ k + g[i - k] > k /\ (k + g[i - k]) - k = g[i - k]
          BY <1>1, <4>1
      <4>3. q[h[i]] = o[g[i - k]]
          BY <1>1, <1>2, <4>1, <4>2
      <4>4. (s \o rest)[i] = rest[i - k]
          BY <1>1, <1>3, <2>2, <3>2
      <4> QED
          BY <1>5, <4>1, <4>3, <4>4
    <3> QED
        BY <1>1, <1>3, <3>1, <3>2
  <2>4. DOMAIN (s \o rest) = 1..k + n
      BY <2>2, LenProperties
  <2> HIDE DEF h
  <2>5. s \o rest \in [1..k + n -> Msg]
      BY <2>2, LenProperties
  <2> QED
      BY <2>3, <2>5
<1>15. s \o rest \in Kept(q, stay)
  <2>1. h \in [1..k + n -> stay]
      BY <1>10
  <2> HIDE DEF h, stay
  <2> QED
      BY <1>11, <1>13, <1>14, <2>1 DEF Kept
<1>16. {q[i] : i \in gone} = {o[i] : i \in erased}
  <2>1. \A i \in gone : i - k \in erased /\ q[i] = o[i - k]
      BY <1>1, <1>2
  <2>2. \A i \in erased : k + i \in gone /\ q[k + i] = o[i]
    <3> SUFFICES ASSUME NEW i \in erased PROVE k + i \in gone /\ q[k + i] = o[i]
        OBVIOUS
    <3>1. i \in 1..Len(o)
        BY <1>1
    <3>2. k + i \in 1..k + Len(o) /\ (k + i) - k = i /\ k + i > k
        BY <1>1, <3>1
    <3> QED
        BY <1>1, <1>2, <3>2
  <2> HIDE DEF gone
  <2> QED
      BY <2>1, <2>2
<1> QED
    BY <1>15, <1>16 DEF q

(* Erasing nothing keeps the list. *)
LEMMA KeptAll == ASSUME NEW q \in Seq(Msg) PROVE q \in Kept(q, DOMAIN q \ {})
<1> DEFINE n == Len(q)
<1>1. n \in Nat /\ DOMAIN q = 1..n /\ q \in [1..n -> Msg]
    BY LenProperties
<1>2. Cardinality(1..n) = n
    BY <1>1, FS_Interval, SMTT(20)
<1> HIDE DEF n
<1> DEFINE g == [i \in 1..n |-> i]
<1>3. g \in [1..n -> 1..n] /\ \A i, j \in 1..n : i < j => g[i] < g[j]
    OBVIOUS
<1>4. q = [i \in 1..n |-> q[g[i]]]
    BY <1>1
<1> HIDE DEF g
<1>5. DOMAIN q \ {} = 1..n
    BY <1>1
<1>6. q \in { [i \in 1..n |-> q[f[i]]] :
               f \in { h \in [1..n -> 1..n] : \A i, j \in 1..n : i < j => h[i] < h[j] } }
    BY <1>3, <1>4
<1> QED
    BY <1>2, <1>5, <1>6 DEF Kept

-----------------------------------------------------------------------------
(* The lists of queue c hold the messages accepted and not yet done with,  *)
(* each once.                                                              *)
Exact(c, sent, out, f) ==
    /\ IsInjective(sent) /\ IsInjective(out)
    /\ Range(sent) \cap Range(out) = {}
    /\ Range(sent) \cup Range(out) = {m \in Msg : QueueOf(m) = c /\ f[m] = "held"}

HeldInv ==
    /\ \A c \in Queue : Exact(c, sentQ[c], outQ[c], fate)
    /\ \A m \in Transactional : fate[m] # "abandoned"

LEMMA ListsOfMsg ==
    ASSUME TypeOK, NEW c \in Queue
    PROVE  sentQ[c] \in Seq(Msg) /\ outQ[c] \in Seq(Msg)
BY SeqMonotonic, QueueAssumption DEF TypeOK, QueueAssumption

LEMMA EmptyContent == IsInjective(<<>>) /\ Range(<<>>) = {}
BY DEF IsInjective, Range

LEMMA HeldOnce == TypeOK /\ HeldInv => HeldExactlyOnce
<1> SUFFICES ASSUME TypeOK, HeldInv PROVE HeldExactlyOnce
    OBVIOUS
<1>1. ASSUME NEW c \in Queue
      PROVE  IsInjective(Held(c)) /\ Range(Held(c)) = {m \in Msg : QueueOf(m) = c /\ fate[m] = "held"}
    BY <1>1, ListsOfMsg, ConcatContent DEF HeldInv, Exact, Held
<1>2. ASSUME NEW c \in Queue, NEW i \in DOMAIN Held(c) PROVE QueueOf(Held(c)[i]) = c
  <2>1. Held(c)[i] \in Range(Held(c))
      BY DEF Range
  <2> QED
      BY <1>1, <2>1
<1>3. \A m \in Msg : QueueOf(m) \in Queue
    BY DEF QueueOf, Queue
<1>4. \A c \in Queue : \A i, j \in DOMAIN Held(c) : Held(c)[i] = Held(c)[j] => i = j
    BY <1>1 DEF IsInjective
<1>5. \A m \in Msg : fate[m] = "held" <=> m \in Range(Held(QueueOf(m)))
    BY <1>1, <1>3
<1> QED
    BY <1>2, <1>4, <1>5 DEF HeldExactlyOnce, HeldInv

(* The messages of a queue have the other queue's fate left alone. *)
LEMMA OtherQueue ==
    ASSUME NEW c, NEW s, NEW o, NEW f, NEW g, Exact(c, s, o, f),
           \A m \in Msg : QueueOf(m) = c => (g[m] = "held" <=> f[m] = "held")
    PROVE  Exact(c, s, o, g)
BY DEF Exact

LEMMA EnqueueHeld ==
    ASSUME TypeOK, HeldInv, NEW m \in Msg, fate[m] = "new",
           NEW rest \in Seq(Msg), NEW gone \in SUBSET Range(outQ[QueueOf(m)]),
           IsInjective(rest), Range(rest) = Range(outQ[QueueOf(m)]) \ gone,
           Enqueue(m, rest, gone)
    PROVE  HeldInv'
<1> DEFINE c == QueueOf(m)
<1>1. c \in Queue
    BY DEF QueueOf, Queue
<1>2. /\ outQ' = [outQ EXCEPT ![c] = Append(rest, m)] /\ sentQ' = sentQ
      /\ fate' = [FateOf(gone, "replaced") EXCEPT ![m] = "held"]
    BY DEF Enqueue
<1>3. /\ \A n \in Msg : fate'[n] = IF n = m THEN "held" ELSE IF n \in gone THEN "replaced" ELSE fate[n]
      /\ outQ'[c] = Append(rest, m)
      /\ \A d \in Queue : d # c => outQ'[d] = outQ[d]
    BY <1>1, <1>2 DEF FateOf, TypeOK
<1>4. Exact(c, sentQ[c], outQ[c], fate)
    BY <1>1 DEF HeldInv
<1> HIDE DEF c
<1>5. \A n \in gone : QueueOf(n) = c
    BY <1>4 DEF Exact, c
<1>6. Exact(c, sentQ'[c], outQ'[c], fate')
  <2>1. m \notin Range(sentQ[c]) \cup Range(outQ[c])
      BY <1>4 DEF Exact
  <2>2. IsInjective(outQ'[c]) /\ Range(outQ'[c]) = (Range(outQ[c]) \ gone) \cup {m}
      BY <1>3, <2>1, AppendContent DEF c
  <2>3. Range(sentQ[c]) \cup ((Range(outQ[c]) \ gone) \cup {m})
          = {n \in Msg : QueueOf(n) = c /\ fate'[n] = "held"}
    <3>1. \A n \in Msg : QueueOf(n) = c /\ fate'[n] = "held"
                            <=> n = m \/ (n \notin gone /\ QueueOf(n) = c /\ fate[n] = "held")
        BY <1>3, <2>1, <1>4 DEF c, Exact
    <3> QED
        BY <1>4, <3>1 DEF Exact, c
  <2> QED
      BY <1>2, <1>4, <2>1, <2>2, <2>3 DEF Exact
<1>7. ASSUME NEW d \in Queue, d # c PROVE Exact(d, sentQ'[d], outQ'[d], fate')
  <2>1. \A n \in Msg : QueueOf(n) = d => (fate'[n] = "held" <=> fate[n] = "held")
      BY <1>3, <1>5, <1>7 DEF c
  <2>2. Exact(d, sentQ[d], outQ[d], fate)
      BY DEF HeldInv
  <2>3. Exact(d, sentQ[d], outQ[d], fate')
      BY <2>1, <2>2, OtherQueue
  <2> QED
      BY <1>2, <1>3, <1>7, <2>3
<1>8. \A n \in Transactional : fate'[n] # "abandoned"
    BY <1>3, QueueAssumption DEF HeldInv, QueueAssumption
<1> QED
    BY <1>6, <1>7, <1>8 DEF HeldInv

(* What addReplaceExisting leaves of the list. *)
LEMMA ReplacedContent ==
    ASSUME TypeOK, HeldInv, NEW c \in Queue, NEW hit,
           NEW rest \in Kept(outQ[c], DOMAIN outQ[c] \ Erased(hit)), hit \subseteq DOMAIN outQ[c]
    PROVE  /\ rest \in Seq(Msg) /\ IsInjective(rest)
           /\ {outQ[c][i] : i \in Erased(hit)} \subseteq Range(outQ[c])
           /\ Range(rest) = Range(outQ[c]) \ {outQ[c][i] : i \in Erased(hit)}
<1> DEFINE q == outQ[c]
           keep == DOMAIN q \ Erased(hit)
<1>1. Erased(hit) \subseteq DOMAIN q
    BY DEF Erased
<1>2. q \in Seq(Msg) /\ IsInjective(q)
    BY ListsOfMsg DEF HeldInv, Exact
<1>3. DOMAIN q \ keep = Erased(hit)
    BY <1>1
<1>4. {q[i] : i \in Erased(hit)} \subseteq Range(q)
    BY <1>1 DEF Range
<1>5. rest \in Kept(q, keep) /\ keep \in SUBSET DOMAIN q
    OBVIOUS
<1> HIDE DEF q, keep
<1>6. /\ rest \in Seq(Msg) /\ IsInjective(rest)
      /\ Range(rest) = Range(q) \ {q[i] : i \in DOMAIN q \ keep}
    BY <1>2, <1>5, KeptContent
<1> QED
    BY <1>3, <1>4, <1>6 DEF q

LEMMA SubmitHeld ==
    ASSUME TypeOK, HeldInv, NEW m \in Msg, Submit(m)
    PROVE  HeldInv'
<1> DEFINE c == QueueOf(m)
<1>1. c \in Queue
    BY DEF QueueOf, Queue
<1>2. CASE Add(m)
  <2>1. outQ[c] \in Seq(Msg) /\ IsInjective(outQ[c])
      BY <1>1, ListsOfMsg DEF HeldInv, Exact
  <2>2. fate[m] = "new" /\ Enqueue(m, outQ[c], {})
      BY <1>2 DEF Add
  <2>3. Range(outQ[c]) = Range(outQ[c]) \ {} /\ {} \in SUBSET Range(outQ[c])
      OBVIOUS
  <2> QED
      BY <2>1, <2>2, <2>3, EnqueueHeld
<1>3. CASE AddReplaceExisting(m)
  <2> DEFINE hit == SameAction(m)
  <2>1. PICK rest \in Kept(outQ[c], DOMAIN outQ[c] \ Erased(hit)) :
            Enqueue(m, rest, {outQ[c][i] : i \in Erased(hit)})
      BY <1>3 DEF AddReplaceExisting
  <2>2. hit \subseteq DOMAIN outQ[c] /\ fate[m] = "new"
      BY <1>3 DEF SameAction, AddReplaceExisting
  <2> HIDE DEF hit
  <2> QED
      BY <1>1, <2>1, <2>2, ReplacedContent, EnqueueHeld
<1>4. CASE RefuseOffline(m)
  <2>1. /\ fate[m] = "new" /\ fate' = [fate EXCEPT ![m] = "abandoned"]
        /\ outQ' = outQ /\ sentQ' = sentQ /\ m \notin Transactional
      BY <1>4 DEF RefuseOffline, Accept, objVars
  <2>2. \A n \in Msg : (fate'[n] = "held" <=> fate[n] = "held") /\ (n # m => fate'[n] = fate[n])
      BY <2>1 DEF TypeOK
  <2>3. ASSUME NEW d \in Queue PROVE Exact(d, sentQ[d], outQ[d], fate')
      BY <2>2, OtherQueue DEF HeldInv
  <2> QED
      BY <2>1, <2>2, <2>3, QueueAssumption DEF HeldInv, QueueAssumption
<1> QED
    BY <1>2, <1>3, <1>4 DEF Submit

(* Nothing of it happens to the lists. *)
LEMMA ListsUnchanged ==
    ASSUME HeldInv, UNCHANGED <<outQ, sentQ, fate>>
    PROVE  HeldInv'
BY DEF HeldInv

(* The first message of a list is sent and done with, or discarded. *)
LEMMA HeadDone ==
    ASSUME TypeOK, HeldInv, NEW c \in Queue, outQ[c] # <<>>, NEW f \in {"sent", "discarded"},
           outQ' = [outQ EXCEPT ![c] = Tail(@)], sentQ' = sentQ,
           fate' = [fate EXCEPT ![Head(outQ[c])] = f]
    PROVE  HeldInv'
<1> DEFINE h == Head(outQ[c])
<1>1. /\ outQ[c] \in Seq(Msg) /\ Exact(c, sentQ[c], outQ[c], fate)
      /\ 1 \in DOMAIN outQ[c] /\ h = outQ[c][1]
      /\ Tail(outQ[c]) = Without(outQ[c], 1)
    BY ListsOfMsg, TailContent DEF HeldInv
<1>2. /\ IsInjective(Tail(outQ[c])) /\ Range(Tail(outQ[c])) = Range(outQ[c]) \ {h}
      /\ h \in Range(outQ[c])
  <2>1. IsInjective(outQ[c]) /\ h \in Range(outQ[c])
      BY <1>1 DEF Exact, Range
  <2> QED
      BY <1>1, <2>1, WithoutContent
<1> HIDE DEF h
<1>3. h \in Msg /\ QueueOf(h) = c /\ h \notin Range(sentQ[c])
    BY <1>1, <1>2 DEF Exact
<1>4. /\ \A n \in Msg : fate'[n] = IF n = h THEN f ELSE fate[n]
      /\ outQ'[c] = Tail(outQ[c]) /\ \A d \in Queue : d # c => outQ'[d] = outQ[d]
    BY <1>3 DEF TypeOK, h
<1>5. Exact(c, sentQ'[c], outQ'[c], fate')
  <2>1. {n \in Msg : QueueOf(n) = c /\ fate'[n] = "held"}
          = {n \in Msg : QueueOf(n) = c /\ fate[n] = "held"} \ {h}
      BY <1>4
  <2> QED
      BY <1>1, <1>2, <1>3, <1>4, <2>1 DEF Exact
<1>6. ASSUME NEW d \in Queue, d # c PROVE Exact(d, sentQ'[d], outQ'[d], fate')
  <2>1. \A n \in Msg : QueueOf(n) = d => (fate'[n] = "held" <=> fate[n] = "held")
      BY <1>3, <1>4, <1>6
  <2>2. Exact(d, sentQ[d], outQ[d], fate)
      BY DEF HeldInv
  <2>3. Exact(d, sentQ[d], outQ[d], fate')
      BY <2>1, <2>2, OtherQueue
  <2> QED
      BY <1>4, <1>6, <2>3
<1>7. \A n \in Transactional : fate'[n] # "abandoned"
    BY <1>4, QueueAssumption DEF HeldInv, QueueAssumption
<1> QED
    BY <1>5, <1>6, <1>7 DEF HeldInv

LEMMA ProcessNextMessageHeld ==
    ASSUME HeldInv, ProcessNextMessage
    PROVE  HeldInv'
BY ListsUnchanged DEF ProcessNextMessage, histVars

LEMMA BytesWrittenHeld ==
    ASSUME IInv, HeldInv, BytesWritten
    PROVE  HeldInv'
<1>1. CASE OnBytesWrittenIgnored
    BY <1>1, ListsUnchanged DEF OnBytesWrittenIgnored, objVars
<1>2. CASE OnBytesWritten
  <2> DEFINE h == Head(outQ[currentQ])
  <2>1. TypeOK /\ currentQ \in Queue /\ outQ[currentQ] # <<>>
      BY <1>2 DEF OnBytesWritten, IInv, HeadPresent, TypeOK
  <2>2. outQ' = [outQ EXCEPT ![currentQ] = Tail(@)]
      BY <1>2 DEF OnBytesWritten
  <2>3. CASE h \notin Call
    <3>1. fate' = [fate EXCEPT ![h] = "sent"] /\ sentQ' = sentQ
        BY <1>2, <2>3 DEF OnBytesWritten
    <3> QED
        BY <2>1, <2>2, <3>1, HeadDone
  <2>4. CASE h \in Call
    <3> DEFINE c == currentQ
    <3>1. /\ sentQ' = [sentQ EXCEPT ![c] = Append(@, h)] /\ fate' = fate
        BY <1>2, <2>4 DEF OnBytesWritten
    <3>2. /\ outQ[c] \in Seq(Msg) /\ sentQ[c] \in Seq(Msg)
          /\ 1 \in DOMAIN outQ[c] /\ h = outQ[c][1]
          /\ Tail(outQ[c]) = Without(outQ[c], 1)
        BY <2>1, ListsOfMsg, TailContent
    <3>3. Exact(c, sentQ[c], outQ[c], fate) /\ h \in Range(outQ[c])
        BY <2>1, <3>2 DEF HeldInv, Range
    <3>4. IsInjective(Tail(outQ[c])) /\ Range(Tail(outQ[c])) = Range(outQ[c]) \ {h}
        BY <3>2, <3>3, WithoutContent DEF Exact
    <3>5. h \in Msg /\ h \notin Range(sentQ[c])
        BY <3>3 DEF Exact
    <3> HIDE DEF h, c
    <3>6. /\ IsInjective(Append(sentQ[c], h)) /\ Range(Append(sentQ[c], h)) = Range(sentQ[c]) \cup {h}
        BY <3>2, <3>3, <3>5, AppendContent DEF Exact
    <3>7. /\ outQ'[c] = Tail(outQ[c]) /\ sentQ'[c] = Append(sentQ[c], h)
          /\ \A d \in Queue : d # c => outQ'[d] = outQ[d] /\ sentQ'[d] = sentQ[d]
        BY <2>1, <2>2, <3>1 DEF TypeOK, c
    <3>8. Exact(c, sentQ'[c], outQ'[c], fate)
        BY <3>3, <3>4, <3>5, <3>6, <3>7 DEF Exact
    <3> QED
        BY <3>1, <3>7, <3>8 DEF HeldInv
  <2> QED
      BY <2>3, <2>4
<1> QED
    BY <1>1, <1>2 DEF BytesWritten

LEMMA OnSendMessageTimeoutHeld ==
    ASSUME IInv, HeldInv, OnSendMessageTimeout
    PROVE  HeldInv'
<1>1. TypeOK /\ currentQ \in Queue
    BY DEF IInv, TypeOK
<1>2. CASE SendTimeoutRetry
    BY <1>2, ListsUnchanged DEF SendTimeoutRetry, histVars
<1>3. CASE SendTimeoutDiscard
  <2>1. outQ[currentQ] # <<>>
      BY <1>3 DEF SendTimeoutDiscard, IInv, HeadPresent
  <2> QED
      BY <1>1, <1>3, <2>1, HeadDone DEF SendTimeoutDiscard
<1>4. CASE RetryTimeout
    BY <1>4, ListsUnchanged DEF RetryTimeout, histVars
<1>5. CASE NoReplyTimeoutResend
  <2> DEFINE c == currentQ
  <2>1. /\ outQ' = [outQ EXCEPT ![c] = sentQ[c] \o @]
        /\ sentQ' = [sentQ EXCEPT ![c] = <<>>] /\ fate' = fate
      BY <1>5 DEF NoReplyTimeoutResend, RestoreSentMsgToOutQ, histVars
  <2>2. /\ outQ'[c] = sentQ[c] \o outQ[c] /\ sentQ'[c] = <<>>
        /\ \A d \in Queue : d # c => outQ'[d] = outQ[d] /\ sentQ'[d] = sentQ[d]
      BY <1>1, <2>1 DEF TypeOK
  <2>3. sentQ[c] \in Seq(Msg) /\ outQ[c] \in Seq(Msg) /\ Exact(c, sentQ[c], outQ[c], fate)
      BY <1>1, ListsOfMsg DEF HeldInv
  <2> HIDE DEF c
  <2>4. IsInjective(sentQ[c] \o outQ[c]) /\ Range(sentQ[c] \o outQ[c]) = Range(sentQ[c]) \cup Range(outQ[c])
      BY <2>3, ConcatContent DEF Exact
  <2>5. Exact(c, sentQ'[c], outQ'[c], fate)
      BY <2>2, <2>3, <2>4, EmptyContent DEF Exact
  <2> QED
      BY <2>1, <2>2, <2>5 DEF HeldInv
<1>6. CASE NoReplyTimeoutGiveUp
    BY <1>6, ListsUnchanged DEF NoReplyTimeoutGiveUp
<1> QED
    BY <1>2, <1>3, <1>4, <1>5, <1>6 DEF OnSendMessageTimeout

LEMMA ReplyHeld ==
    ASSUME IInv, HeldInv, NEW m \in Call, Reply(m)
    PROVE  HeldInv'
<1>1. TypeOK /\ currentQ \in Queue
    BY DEF IInv, TypeOK
<1>2. CASE ReplyNotFound(m)
    BY <1>2, ListsUnchanged DEF ReplyNotFound, objVars, histVars
<1>3. CASE RemoveSentCallMessage(m)
  <2> DEFINE c == currentQ
  <2>1. PICK i \in DOMAIN sentQ[c] :
            sentQ[c][i] = m /\ sentQ' = [sentQ EXCEPT ![c] = Without(sentQ[c], i)]
      BY <1>1, <1>3 DEF RemoveSentCallMessage, Without, TypeOK
  <2>2. fate' = [fate EXCEPT ![m] = "answered"] /\ outQ' = outQ
      BY <1>3 DEF RemoveSentCallMessage
  <2>3. /\ sentQ'[c] = Without(sentQ[c], i)
        /\ \A d \in Queue : d # c => sentQ'[d] = sentQ[d]
      BY <1>1, <2>1 DEF TypeOK
  <2>4. sentQ[c] \in Seq(Msg) /\ Exact(c, sentQ[c], outQ[c], fate) /\ m \in Range(sentQ[c])
      BY <1>1, <2>1, ListsOfMsg DEF HeldInv, Range
  <2> HIDE DEF c
  <2>5. IsInjective(sentQ'[c]) /\ Range(sentQ'[c]) = Range(sentQ[c]) \ {m}
      BY <2>1, <2>3, <2>4, WithoutContent DEF Exact
  <2>6. m \in Msg /\ QueueOf(m) = c /\ m \notin Range(outQ[c])
      BY <2>4 DEF Exact
  <2>7. \A n \in Msg : fate'[n] = IF n = m THEN "answered" ELSE fate[n]
      BY <1>1, <2>2, <2>6 DEF TypeOK
  <2>8. Exact(c, sentQ'[c], outQ'[c], fate')
    <3>1. {n \in Msg : QueueOf(n) = c /\ fate'[n] = "held"}
            = {n \in Msg : QueueOf(n) = c /\ fate[n] = "held"} \ {m}
        BY <2>7
    <3> QED
        BY <2>2, <2>4, <2>5, <2>6, <3>1 DEF Exact
  <2>9. ASSUME NEW d \in Queue, d # c PROVE Exact(d, sentQ'[d], outQ'[d], fate')
    <3>1. \A n \in Msg : QueueOf(n) = d => (fate'[n] = "held" <=> fate[n] = "held")
        BY <2>6, <2>7, <2>9
    <3> QED
        BY <2>2, <2>3, <2>9, <3>1, OtherQueue, ZenonT(30) DEF HeldInv
  <2>10. \A n \in Transactional : fate'[n] # "abandoned"
      BY <2>7, QueueAssumption DEF HeldInv, QueueAssumption
  <2> QED
      BY <2>8, <2>9, <2>10 DEF HeldInv
<1> QED
    BY <1>2, <1>3 DEF Reply

LEMMA StopProcessingHeld ==
    ASSUME TypeOK, HeldInv, StopProcessing
    PROVE  HeldInv'
<1> DEFINE q == outQ["NonTransactional"]
           hit == {i \in DOMAIN q : q[i] \in Authorize}
           gone == {q[i] : i \in Erased(hit)}
           lost == gone \cup Range(sentQ["NonTransactional"])
<1> USE DEF Queue
<1>1. PICK rest \in Kept(q, DOMAIN q \ Erased(hit)) :
        outQ' = [outQ EXCEPT !["NonTransactional"] = rest,
                             !["Transactional"] =
                                 IF currentQ = "Transactional" THEN sentQ[currentQ] \o @ ELSE @]
    BY DEF StopProcessing
<1>2. /\ sentQ' = [sentQ EXCEPT !["NonTransactional"] = <<>>, ![currentQ] = <<>>]
      /\ fate' = FateOf(lost, "abandoned")
    BY DEF StopProcessing
<1>3. /\ outQ'["NonTransactional"] = rest
      /\ outQ'["Transactional"] = IF currentQ = "Transactional"
                                  THEN sentQ["Transactional"] \o outQ["Transactional"]
                                  ELSE outQ["Transactional"]
    BY <1>1 DEF TypeOK
<1>4. /\ sentQ'["NonTransactional"] = <<>>
      /\ sentQ'["Transactional"] = IF currentQ = "Transactional" THEN <<>> ELSE sentQ["Transactional"]
    BY <1>2 DEF TypeOK
<1>5. \A n \in Msg : fate'[n] = IF n \in lost THEN "abandoned" ELSE fate[n]
    BY <1>2 DEF FateOf
<1>6. /\ Exact("NonTransactional", sentQ["NonTransactional"], q, fate)
      /\ Exact("Transactional", sentQ["Transactional"], outQ["Transactional"], fate)
    BY DEF HeldInv
<1>7. /\ rest \in Seq(Msg) /\ IsInjective(rest) /\ gone \subseteq Range(q)
      /\ Range(rest) = Range(q) \ gone
  <2>1. hit \subseteq DOMAIN q
      OBVIOUS
  <2> HIDE DEF hit
  <2> QED
      BY <2>1, ReplacedContent
<1> HIDE DEF gone, hit, q
<1>8. Exact("NonTransactional", sentQ'["NonTransactional"], outQ'["NonTransactional"], fate')
  <2>1. {n \in Msg : QueueOf(n) = "NonTransactional" /\ fate'[n] = "held"}
          = {n \in Msg : QueueOf(n) = "NonTransactional" /\ fate[n] = "held"} \ lost
      BY <1>5
  <2>2. Range(rest) = {n \in Msg : QueueOf(n) = "NonTransactional" /\ fate[n] = "held"} \ lost
      BY <1>6, <1>7 DEF Exact
  <2> QED
      BY <1>3, <1>4, <1>7, <2>1, <2>2, EmptyContent DEF Exact
<1>9. \A n \in lost : QueueOf(n) = "NonTransactional"
    BY <1>6, <1>7 DEF Exact
<1>10. Exact("Transactional", sentQ'["Transactional"], outQ'["Transactional"], fate')
  <2>1. Exact("Transactional", sentQ["Transactional"], outQ["Transactional"], fate')
      BY <1>5, <1>6, <1>9, OtherQueue
  <2>2. CASE currentQ # "Transactional"
      BY <1>3, <1>4, <2>1, <2>2
  <2>3. CASE currentQ = "Transactional"
    <3>1. sentQ["Transactional"] \in Seq(Msg) /\ outQ["Transactional"] \in Seq(Msg)
        BY ListsOfMsg
    <3>2. /\ IsInjective(outQ'["Transactional"])
          /\ Range(outQ'["Transactional"]) = Range(sentQ["Transactional"]) \cup Range(outQ["Transactional"])
        BY <1>3, <2>1, <2>3, <3>1, ConcatContent DEF Exact
    <3> QED
        BY <1>4, <2>1, <2>3, <3>2, EmptyContent DEF Exact
  <2> QED
      BY <2>2, <2>3
<1>11. \A n \in Transactional : fate'[n] # "abandoned"
  <2>1. \A n \in Transactional : n \notin lost /\ n \in Msg
      BY <1>9, QueueAssumption DEF QueueOf, QueueAssumption
  <2> QED
      BY <1>5, <2>1 DEF HeldInv
<1> QED
    BY <1>8, <1>10, <1>11 DEF HeldInv

LEMMA InitHeld == Init => HeldInv
<1> SUFFICES ASSUME Init PROVE HeldInv
    OBVIOUS
<1>1. ASSUME NEW c \in Queue PROVE Exact(c, sentQ[c], outQ[c], fate)
  <2>1. sentQ[c] = <<>> /\ outQ[c] = <<>> /\ \A m \in Msg : fate[m] = "new"
      BY DEF Init
  <2> QED
      BY <2>1, EmptyContent DEF Exact
<1> QED
    BY <1>1, QueueAssumption DEF HeldInv, Init, QueueAssumption

LEMMA NextHeld == IInv /\ HeldInv /\ [Next]_vars => HeldInv'
<1> SUFFICES ASSUME IInv, HeldInv, [Next]_vars PROVE HeldInv'
    OBVIOUS
<1>1. TypeOK
    BY DEF IInv
<1>2. ASSUME NEW m \in Msg, Submit(m) PROVE HeldInv'
    BY <1>1, <1>2, SubmitHeld
<1>3. CASE ProcessNextMessage
    BY <1>3, ProcessNextMessageHeld
<1>4. CASE BytesWritten
    BY <1>4, BytesWrittenHeld
<1>5. CASE OnSendMessageTimeout
    BY <1>5, OnSendMessageTimeoutHeld
<1>6. ASSUME NEW m \in Call, Reply(m) PROVE HeldInv'
    BY <1>6, ReplyHeld
<1>7. CASE OnWsStateChanged
  <2>1. CASE WsConnecting \/ WsUnconnected
      BY <1>1, <2>1, StopProcessingHeld DEF WsConnecting, WsUnconnected
  <2>2. CASE WsConnected \/ WsClosing
      BY <2>2, ListsUnchanged DEF WsConnected, WsClosing, objVars, histVars
  <2> QED
      BY <1>7, <2>1, <2>2 DEF OnWsStateChanged
<1>8. CASE UNCHANGED vars
    BY <1>8, ListsUnchanged DEF vars, objVars, histVars
<1> QED
    BY <1>2, <1>3, <1>4, <1>5, <1>6, <1>7, <1>8 DEF Next

(* A message accepted is in exactly one place of the lists until it is     *)
(* answered, sent, replaced or discarded, and no transactional one is      *)
(* abandoned, whatever is resent, given up, replaced or cut off.           *)
THEOREM QueueHeldExactlyOnce == Spec => []HeldExactlyOnce
<1>1. Spec => []HeldInv
    BY InitHeld, NextHeld, QueueInvariant, PTL DEF Spec
<1>2. IInv /\ HeldInv => HeldExactlyOnce
    BY HeldOnce DEF IInv
<1> QED
    BY <1>1, <1>2, QueueInvariant, PTL

-----------------------------------------------------------------------------
(* The queue as the transaction requester sees it *)

(* As long as the queue has given up on no call, a call in the socket's    *)
(* buffer is the first of those held, and only calls written are answered. *)
BufferInv ==
    /\ givenUp = {}
    /\ atCS \subseteq written
    /\ \A m \in txBuffer : fate[m] # "new"
    /\ \A m \in txBuffer \cap Transactional :
         fate[m] = "held" => Held("Transactional")[1] = m

OutboxInv == IInv /\ HeldInv /\ BufferInv

OutboxStep == [Outbox!Next]_(Outbox!vars)

(* The calls held and what became of them stay as they are. *)
CallsUnchanged ==
    /\ Held("Transactional")' = Held("Transactional")
    /\ \A m \in Transactional : fate'[m] = fate[m]

(* The transactional calls held, with one list or both in use. *)
LEMMA TransactionalHeld ==
    ASSUME OutboxInv
    PROVE  /\ "Transactional" \in Queue
           /\ sentQ["Transactional"] \in Seq(Msg) /\ outQ["Transactional"] \in Seq(Msg)
           /\ Held("Transactional") \in Seq(Msg)
           /\ IsInjective(Held("Transactional"))
           /\ Range(Held("Transactional")) = {m \in Transactional : fate[m] = "held"}
           /\ (st # "WaitReply" \/ currentQ # "Transactional") => sentQ["Transactional"] = <<>>
           /\ sentQ["Transactional"] = <<>> => Held("Transactional") = outQ["Transactional"]
<1> DEFINE s == sentQ["Transactional"]
           o == outQ["Transactional"]
<1>1. TypeOK /\ "Transactional" \in Queue
    BY DEF OutboxInv, IInv, Queue
<1>2. s \in Seq(Msg) /\ o \in Seq(Msg) /\ Exact("Transactional", s, o, fate)
    BY <1>1, ListsOfMsg DEF OutboxInv, HeldInv
<1>3. {m \in Msg : QueueOf(m) = "Transactional" /\ fate[m] = "held"} = {m \in Transactional : fate[m] = "held"}
    BY QueueAssumption DEF QueueAssumption, QueueOf
<1>4. st # "WaitReply" \/ currentQ # "Transactional" => s = <<>>
    BY <1>1 DEF OutboxInv, BufferInv, IInv, NothingStranded
<1> HIDE DEF s, o
<1>5. s \o o \in Seq(Msg) /\ IsInjective(s \o o) /\ Range(s \o o) = Range(s) \cup Range(o)
    BY <1>2, ConcatContent DEF Exact
<1>6. s = <<>> => s \o o = o
    BY <1>2, ConcatEmptySeq
<1> QED
    BY <1>1, <1>2, <1>3, <1>4, <1>5, <1>6 DEF Exact, Held, s, o

(* The other list holds no transactional call. *)
LEMMA OtherList ==
    ASSUME HeldInv, NEW c \in Queue, c # "Transactional"
    PROVE  Range(sentQ[c]) \cap Transactional = {} /\ Range(outQ[c]) \cap Transactional = {}
<1>1. Exact(c, sentQ[c], outQ[c], fate)
    BY DEF HeldInv
<1>2. \A m \in Transactional : QueueOf(m) # c
    BY DEF QueueOf
<1> QED
    BY <1>1, <1>2 DEF Exact

(* The queue and the outbox keep parts of their lists in the same way. *)
LEMMA KeptSubsequence ==
    ASSUME NEW q, NEW keep
    PROVE  Kept(q, keep) = Outbox!Subsequence(q, keep)
<1>1. Cardinality(keep) = Outbox!Cardinality(keep)
    BY DEF Cardinality, Outbox!Cardinality
<1> QED
    BY <1>1, Zenon DEF Kept, Outbox!Subsequence

(* The steps of the outbox, in terms of the queue. *)
LEMMA OutboxAccept ==
    ASSUME OutboxInv, NEW m \in Transactional, fate[m] = "new",
           NEW gone \in SUBSET DOMAIN Held("Transactional"),
           \A i \in gone : Action[Held("Transactional")[i]] = Action[m],
           NEW rest \in Kept(Held("Transactional"), DOMAIN Held("Transactional") \ gone),
           Held("Transactional")' = Append(rest, m),
           \A n \in Transactional :
             fate'[n] = IF n = m THEN "held"
                        ELSE IF n \in {Held("Transactional")[i] : i \in gone} THEN "replaced" ELSE fate[n],
           written' = written
    PROVE  Outbox!Next
<1> DEFINE q == Held("Transactional")
           f == [n \in Transactional |-> fate[n]]
           a == [n \in Transactional |-> Action[n]]
<1>1. \A i \in DOMAIN q : q[i] \in Transactional
    BY TransactionalHeld DEF Range
<1>2. f[m] = "new"
    OBVIOUS
<1>3. gone \in SUBSET {i \in DOMAIN q : a[q[i]] = a[m]}
    BY <1>1
<1>4. rest \in Outbox!Subsequence(q, DOMAIN q \ gone)
    BY KeptSubsequence
<1>5. f' = [n \in Transactional |-> CASE n = m -> "held"
                                      [] \E i \in gone : q[i] = n -> "replaced"
                                      [] OTHER -> f[n]]
  <2>1. \A n \in Transactional :
          fate'[n] = CASE n = m -> "held" [] \E i \in gone : q[i] = n -> "replaced" [] OTHER -> f[n]
    <3> SUFFICES ASSUME NEW n \in Transactional
                 PROVE  fate'[n] = CASE n = m -> "held"
                                     [] \E i \in gone : q[i] = n -> "replaced"
                                     [] OTHER -> f[n]
        OBVIOUS
    <3>1. n = m => n \notin {q[i] : i \in gone}
        BY <1>1, <1>2, TransactionalHeld DEF Range
    <3>2. n \in {q[i] : i \in gone} <=> \E i \in gone : q[i] = n
        OBVIOUS
    <3> QED
        BY <3>1, <3>2
  <2> HIDE DEF q
  <2> QED
      BY <2>1
<1>6. (written \cap Transactional)' = written \cap Transactional
    OBVIOUS
<1> QED
    BY <1>2, <1>3, <1>4, <1>5, <1>6 DEF Outbox!Next, Outbox!Accept

LEMMA OutboxLeave ==
    ASSUME NEW i \in DOMAIN Held("Transactional"), NEW m \in Transactional, Held("Transactional")[i] = m,
           Held("Transactional")' = Without(Held("Transactional"), i),
           NEW f, \A n \in Transactional : fate'[n] = IF n = m THEN f ELSE fate[n],
           f = "discarded" \/ (f = "answered" /\ m \in written),
           written' = written
    PROVE  Outbox!Next
<1>1. [n \in Transactional |-> fate[n]]' = [[n \in Transactional |-> fate[n]] EXCEPT ![m] = f]
    OBVIOUS
<1>2. (written \cap Transactional)' = written \cap Transactional
    OBVIOUS
<1>3. Outbox!Leave(m, f)
    BY <1>1, <1>2 DEF Outbox!Leave, Without
<1>4. Outbox!Answered(m) \/ Outbox!SendingFailed(m)
    BY <1>3 DEF Outbox!Answered, Outbox!SendingFailed
<1> QED
    BY <1>4 DEF Outbox!Next

LEMMA OutboxWrite ==
    ASSUME OutboxInv, Flush, CallsUnchanged
    PROVE  Outbox!Next
<1> DEFINE q == Held("Transactional")
           S == txBuffer \cap Transactional
<1>1. (written \cap Transactional)' = (written \cap Transactional) \cup S
    BY DEF Flush
<1>2. ASSUME NEW i \in DOMAIN q, q[i] \in S PROVE i = 1
  <2>1. fate[q[i]] = "held" /\ IsInjective(q) /\ q \in Seq(Msg)
      BY TransactionalHeld DEF Range
  <2>2. q[1] = q[i]
      BY <1>2, <2>1 DEF OutboxInv, BufferInv
  <2>3. 1 \in DOMAIN q
      BY <2>1, LenProperties
  <2> QED
      BY <2>1, <2>2, <2>3 DEF IsInjective
<1>3. \A i \in DOMAIN q : q[i] \in S => \A j \in 1..(i - 1) : q[j] \in (written \cap Transactional)'
  <2> SUFFICES ASSUME NEW i \in DOMAIN q, q[i] \in S, NEW j \in 1..(i - 1) PROVE FALSE
      OBVIOUS
  <2>1. i = 1
      BY <1>2
  <2> QED
      BY <2>1
<1>4. UNCHANGED <<q, [n \in Transactional |-> fate[n]]>>
    BY DEF CallsUnchanged
<1>5. Outbox!Write(S)
    BY <1>1, <1>3, <1>4 DEF Outbox!Write
<1> QED
    BY <1>5 DEF Outbox!Next

LEMMA OutboxStutter ==
    ASSUME CallsUnchanged, written' = written
    PROVE  OutboxStep
<1>1. [n \in Transactional |-> fate[n]]' = [n \in Transactional |-> fate[n]]
    BY DEF CallsUnchanged
<1>2. (written \cap Transactional)' = written \cap Transactional
    OBVIOUS
<1>3. UNCHANGED Outbox!vars
    BY <1>1, <1>2 DEF CallsUnchanged, Outbox!vars
<1> QED
    BY <1>3 DEF OutboxStep

(* Nothing of it happens to the calls or to the socket. *)
LEMMA OutboxUntouched ==
    ASSUME OutboxInv, CallsUnchanged, UNCHANGED histVars, txBuffer' \subseteq txBuffer, atCS' \subseteq atCS
    PROVE  BufferInv' /\ OutboxStep
<1>1. OutboxStep
    BY OutboxStutter DEF histVars
<1>2. BufferInv'
    BY DEF OutboxInv, BufferInv, CallsUnchanged, histVars
<1> QED
    BY <1>1, <1>2

LEMMA ListsUntouched ==
    ASSUME UNCHANGED <<outQ, sentQ, fate>>
    PROVE  CallsUnchanged
BY DEF CallsUnchanged, Held

-----------------------------------------------------------------------------
LEMMA EnqueueOutbox ==
    ASSUME OutboxInv, NEW m \in Msg, fate[m] = "new",
           NEW erased \in SUBSET SameAction(m),
           NEW rest \in Kept(outQ[QueueOf(m)], DOMAIN outQ[QueueOf(m)] \ erased),
           Enqueue(m, rest, {outQ[QueueOf(m)][i] : i \in erased})
    PROVE  BufferInv' /\ OutboxStep
<1> DEFINE c == QueueOf(m)
           gone == {outQ[c][i] : i \in erased}
           q == Held("Transactional")
<1>1. /\ TypeOK /\ HeldInv /\ BufferInv /\ c \in Queue
      /\ erased \subseteq DOMAIN outQ[c] /\ gone \subseteq Range(outQ[c])
      /\ \A i \in erased : Action[outQ[c][i]] = Action[m]
    BY DEF OutboxInv, IInv, QueueOf, Queue, SameAction, Range
<1>2. /\ outQ' = [outQ EXCEPT ![c] = Append(rest, m)] /\ sentQ' = sentQ
      /\ fate' = [FateOf(gone, "replaced") EXCEPT ![m] = "held"]
      /\ UNCHANGED <<txBuffer, atCS, written, givenUp>>
    BY DEF Enqueue
<1>3. /\ \A n \in Msg : fate'[n] = IF n = m THEN "held" ELSE IF n \in gone THEN "replaced" ELSE fate[n]
      /\ outQ'[c] = Append(rest, m)
      /\ \A d \in Queue : d # c => outQ'[d] = outQ[d]
    BY <1>1, <1>2 DEF FateOf, TypeOK
<1>4. txBuffer \subseteq Msg /\ Transactional \subseteq Msg
    BY <1>1, QueueAssumption DEF TypeOK, QueueAssumption
<1>5. CASE m \notin Transactional
  <2>1. c # "Transactional"
      BY <1>5 DEF QueueOf
  <2>2. gone \cap Transactional = {}
      BY <1>1, <2>1, OtherList
  <2> HIDE DEF c, gone
  <2>3. CallsUnchanged
      BY <1>2, <1>3, <1>4, <1>5, <2>1, <2>2 DEF CallsUnchanged, Held, Queue
  <2>4. OutboxStep
      BY <1>2, <2>3, OutboxStutter
  <2>5. \A n \in txBuffer : fate'[n] # "new"
      BY <1>1, <1>3, <1>4 DEF BufferInv
  <2>6. BufferInv'
      BY <1>1, <1>2, <2>3, <2>5 DEF BufferInv, CallsUnchanged
  <2> QED
      BY <2>4, <2>6
<1>6. CASE m \in Transactional
  <2> DEFINE s == sentQ["Transactional"]
             o == outQ["Transactional"]
  <2>1. c = "Transactional"
      BY <1>6 DEF QueueOf
  <2>2. s \in Seq(Msg) /\ o \in Seq(Msg) /\ q = s \o o
      BY TransactionalHeld DEF Held
  <2>3. rest \in Kept(o, DOMAIN o \ erased) /\ erased \in SUBSET DOMAIN o /\ gone = {o[i] : i \in erased}
      BY <1>1, <2>1
  <2>4. sentQ'["Transactional"] = s /\ outQ'["Transactional"] = Append(rest, m)
      BY <1>2, <1>3, <2>1
  <2>5. DOMAIN o \ erased \in SUBSET DOMAIN o
      OBVIOUS
  <2> HIDE DEF s, o, q, c, gone
  <2>6. PICK out \in SUBSET DOMAIN q : /\ s \o rest \in Kept(q, DOMAIN q \ out)
                                       /\ {q[i] : i \in out} = gone
    <3>1. \E out \in SUBSET DOMAIN (s \o o) :
            /\ s \o rest \in Kept(s \o o, DOMAIN (s \o o) \ out)
            /\ {(s \o o)[i] : i \in out} = {o[i] : i \in erased}
        BY <2>2, <2>3, KeptConcat
    <3> QED
        BY <2>2, <2>3, <3>1, ZenonT(30)
  <2>7. rest \in Seq(Msg)
      BY <2>2, <2>3, <2>5, KeptType
  <2>8. q' = Append(s \o rest, m)
    <3>1. q' = s \o Append(rest, m)
        BY <2>4 DEF q, Held
    <3> QED
        BY <2>2, <2>7, <3>1, KeptAppend
  <2>9. \A i \in out : Action[q[i]] = Action[m]
      BY <1>1, <2>6 DEF gone
  <2>10. Outbox!Next
    <3>1. \A n \in Transactional :
            fate'[n] = IF n = m THEN "held" ELSE IF n \in {q[i] : i \in out} THEN "replaced" ELSE fate[n]
        BY <1>3, <1>4, <2>6
    <3> QED
        BY <1>2, <1>6, <2>6, <2>8, <2>9, <3>1, OutboxAccept DEF q
  <2>11. ASSUME NEW n \in txBuffer \cap Transactional, fate'[n] = "held" PROVE q'[1] = n
    <3>1. n # m /\ n \notin gone /\ fate[n] = "held" /\ n \in Msg
        BY <1>1, <1>3, <1>4, <2>11 DEF BufferInv
    <3>2. q[1] = n /\ q \in Seq(Msg) /\ n \in Range(q)
        BY <1>1, <3>1, TransactionalHeld DEF BufferInv, q
    <3>3. 1 \in DOMAIN q
        BY <3>2, LenProperties DEF Range
    <3>4. 1 \in DOMAIN q \ out /\ DOMAIN q \ out \in SUBSET DOMAIN q
        BY <2>6, <3>1, <3>2, <3>3
    <3>5. 1 \in DOMAIN (s \o rest) /\ (s \o rest)[1] = n
        BY <2>6, <3>2, <3>4, KeptFirst
    <3>6. s \o rest \in Seq(Msg)
        BY <2>2, <2>7, ConcatProperties
    <3> QED
        BY <2>8, <3>5, <3>6, AppendProperties, LenProperties
  <2>12. \A n \in txBuffer : fate'[n] # "new"
      BY <1>1, <1>3, <1>4 DEF BufferInv
  <2>13. BufferInv'
      BY <1>1, <1>2, <2>11, <2>12 DEF BufferInv, q
  <2> QED
      BY <2>10, <2>13 DEF OutboxStep
<1> QED
    BY <1>5, <1>6

LEMMA SubmitOutbox ==
    ASSUME OutboxInv, NEW m \in Msg, Submit(m)
    PROVE  BufferInv' /\ OutboxStep
<1> DEFINE c == QueueOf(m)
<1>1. TypeOK /\ c \in Queue
    BY DEF OutboxInv, IInv, QueueOf, Queue
<1>2. CASE Add(m)
  <2>1. /\ outQ[c] \in Kept(outQ[c], DOMAIN outQ[c] \ {})
        /\ {} \in SUBSET SameAction(m)
      BY <1>1, ListsOfMsg, KeptAll
  <2>2. {outQ[c][i] : i \in {}} = {}
      OBVIOUS
  <2>3. fate[m] = "new" /\ Enqueue(m, outQ[c], {outQ[c][i] : i \in {}})
      BY <1>2, <2>2 DEF Add
  <2> QED
      BY <2>1, <2>3, EnqueueOutbox
<1>3. CASE AddReplaceExisting(m)
  <2> DEFINE erased == Erased(SameAction(m))
  <2>1. fate[m] = "new" /\ erased \in SUBSET SameAction(m)
      BY <1>3 DEF AddReplaceExisting, Erased
  <2>2. PICK rest \in Kept(outQ[c], DOMAIN outQ[c] \ erased) :
            Enqueue(m, rest, {outQ[c][i] : i \in erased})
      BY <1>3 DEF AddReplaceExisting
  <2> HIDE DEF erased
  <2> QED
      BY <2>1, <2>2, EnqueueOutbox
<1>4. CASE RefuseOffline(m)
  <2>1. /\ fate' = [fate EXCEPT ![m] = "abandoned"] /\ m \notin Transactional
        /\ UNCHANGED <<outQ, sentQ, txBuffer, atCS, written, givenUp>>
      BY <1>4 DEF RefuseOffline, Accept, objVars, envVars
  <2>2. CallsUnchanged
      BY <1>1, <2>1, QueueAssumption DEF CallsUnchanged, Held, TypeOK, QueueAssumption
  <2>3. \A n \in txBuffer : fate'[n] # "new"
      BY <1>1, <2>1 DEF OutboxInv, BufferInv, TypeOK
  <2>4. BufferInv'
      BY <2>1, <2>2, <2>3 DEF OutboxInv, BufferInv, CallsUnchanged
  <2> QED
      BY <2>1, <2>2, <2>4, OutboxStutter
<1> QED
    BY <1>2, <1>3, <1>4 DEF Submit

(* The message sent is the first of those held, or not transactional. *)
LEMMA SendMessageOutbox ==
    ASSUME OutboxInv, NEW c \in Queue, outQ[c] # <<>>, sentQ["Transactional"] = <<>>,
           SendMessage(c), UNCHANGED <<outQ, sentQ, atCS, histVars>>
    PROVE  BufferInv' /\ OutboxStep
<1> DEFINE h == Head(outQ[c])
<1>1. CallsUnchanged
    BY ListsUntouched DEF histVars
<1>2. OutboxStep
    BY <1>1, OutboxStutter DEF histVars
<1>3. outQ[c] \in Seq(Msg) /\ 1 \in DOMAIN outQ[c] /\ h = outQ[c][1] /\ h \in Range(outQ[c])
    BY ListsOfMsg, TailContent DEF OutboxInv, IInv, Range
<1>4. fate[h] = "held" /\ (h \in Transactional => h = Held("Transactional")[1])
  <2>1. Exact(c, sentQ[c], outQ[c], fate)
      BY DEF OutboxInv, HeldInv
  <2>2. fate[h] = "held"
      BY <1>3, <2>1 DEF Exact
  <2>3. h \in Transactional => c = "Transactional"
      BY <1>3, OtherList DEF OutboxInv
  <2> QED
      BY <1>3, <2>2, <2>3, TransactionalHeld
<1> HIDE DEF h
<1>5. txBuffer' \subseteq txBuffer \cup {h}
    BY DEF SendMessage, h
<1>6. /\ givenUp' = {} /\ atCS' \subseteq written' /\ fate' = fate
      /\ Held("Transactional")' = Held("Transactional")
    BY <1>1 DEF OutboxInv, BufferInv, CallsUnchanged, histVars
<1>7. BufferInv'
  <2>1. \A m \in txBuffer' : fate'[m] # "new"
      BY <1>4, <1>5, <1>6 DEF OutboxInv, BufferInv
  <2>2. \A m \in txBuffer' \cap Transactional :
          fate'[m] = "held" => Held("Transactional")'[1] = m
      BY <1>4, <1>5, <1>6 DEF OutboxInv, BufferInv
  <2> QED
      BY <1>6, <2>1, <2>2 DEF BufferInv
<1> QED
    BY <1>2, <1>7

LEMMA ProcessNextMessageOutbox ==
    ASSUME OutboxInv, ProcessNextMessage
    PROVE  BufferInv' /\ OutboxStep
<1>1. UNCHANGED <<outQ, sentQ, atCS, histVars>>
    BY DEF ProcessNextMessage
<1>2. st # "WaitReply"
  <2>1. processPending = 1
      BY DEF ProcessNextMessage, OutboxInv, IInv, SchedulingInv
  <2> QED
      BY <2>1 DEF OutboxInv, IInv, SchedulingInv
<1>3. sentQ["Transactional"] = <<>>
    BY <1>2, TransactionalHeld
<1>4. CASE \E c \in Queue : outQ[c] # <<>> /\ SendMessage(c)
    BY <1>1, <1>3, <1>4, SendMessageOutbox
<1>5. CASE txBuffer' = txBuffer
    BY <1>1, <1>5, ListsUntouched, OutboxUntouched DEF histVars
<1> QED
    BY <1>4, <1>5 DEF ProcessNextMessage, Queue

LEMMA BytesWrittenOutbox ==
    ASSUME OutboxInv, BytesWritten
    PROVE  BufferInv' /\ OutboxStep
<1>1. Flush /\ givenUp' = givenUp
    BY DEF BytesWritten, OnBytesWritten, OnBytesWrittenIgnored
<1>2. CallsUnchanged
  <2>1. CASE OnBytesWrittenIgnored
      BY <2>1, ListsUntouched DEF OnBytesWrittenIgnored, objVars
  <2>2. CASE OnBytesWritten
    <3> DEFINE c == currentQ
               h == Head(outQ[c])
    <3>1. TypeOK /\ c \in Queue /\ outQ[c] # <<>> /\ HeldInv
        BY <2>2 DEF OnBytesWritten, OutboxInv, IInv, HeadPresent, TypeOK
    <3>2. /\ outQ' = [outQ EXCEPT ![c] = Tail(@)]
          /\ \/ h \in Call /\ sentQ' = [sentQ EXCEPT ![c] = Append(@, h)] /\ fate' = fate
             \/ h \notin Call /\ fate' = [fate EXCEPT ![h] = "sent"] /\ sentQ' = sentQ
        BY <2>2 DEF OnBytesWritten
    <3>3. outQ[c] \in Seq(Msg) /\ sentQ[c] \in Seq(Msg) /\ h \in Range(outQ[c])
        BY <3>1, ListsOfMsg, TailContent DEF Range
    <3>4. CASE c # "Transactional"
      <4>1. h \notin Transactional
          BY <3>1, <3>3, <3>4, OtherList
      <4>2. sentQ'["Transactional"] = sentQ["Transactional"] /\ outQ'["Transactional"] = outQ["Transactional"]
          BY <3>1, <3>2, <3>4 DEF TypeOK, Queue
      <4>3. \A m \in Transactional : fate'[m] = fate[m]
          BY <3>1, <3>2, <4>1, QueueAssumption DEF TypeOK, QueueAssumption
      <4> QED
          BY <4>2, <4>3 DEF CallsUnchanged, Held
    <3>5. CASE c = "Transactional"
      <4>1. h \in Call
        <5>1. Exact(c, sentQ[c], outQ[c], fate)
            BY <3>1 DEF HeldInv
        <5> QED
            BY <3>3, <3>5, <5>1, QueueAssumption DEF Exact, QueueOf, QueueAssumption
      <4>2. /\ outQ'["Transactional"] = Tail(outQ[c]) /\ sentQ'["Transactional"] = Append(sentQ[c], h)
            /\ fate' = fate
          BY <3>1, <3>2, <3>5, <4>1 DEF TypeOK
      <4>3. Append(sentQ[c], h) \o Tail(outQ[c]) = sentQ[c] \o outQ[c]
          BY <3>1, <3>3, HeldMoved
      <4> QED
          BY <3>5, <4>2, <4>3 DEF CallsUnchanged, Held
    <3> QED
        BY <3>4, <3>5
  <2> QED
      BY <2>1, <2>2 DEF BytesWritten
<1>3. Outbox!Next
    BY <1>1, <1>2, OutboxWrite
<1>4. BufferInv'
    BY <1>1 DEF BufferInv, OutboxInv, Flush
<1> QED
    BY <1>3, <1>4 DEF OutboxStep

LEMMA SendTimeoutDiscardOutbox ==
    ASSUME OutboxInv, SendTimeoutDiscard
    PROVE  BufferInv' /\ OutboxStep
<1> DEFINE c == currentQ
           h == Head(outQ[c])
           q == Held("Transactional")
<1>1. TypeOK /\ c \in Queue /\ outQ[c] # <<>> /\ HeldInv /\ BufferInv /\ st = "Sent"
    BY DEF SendTimeoutDiscard, OutboxInv, IInv, HeadPresent, TypeOK
<1>2. /\ outQ' = [outQ EXCEPT ![c] = Tail(@)] /\ fate' = [fate EXCEPT ![h] = "discarded"]
      /\ UNCHANGED <<sentQ, txBuffer, atCS, written, givenUp>>
    BY DEF SendTimeoutDiscard
<1>3. /\ outQ[c] \in Seq(Msg) /\ 1 \in DOMAIN outQ[c] /\ h = outQ[c][1] /\ h \in Range(outQ[c])
      /\ Tail(outQ[c]) = Without(outQ[c], 1)
    BY <1>1, ListsOfMsg, TailContent DEF Range
<1>4. h \in Msg /\ (h \in Transactional <=> c = "Transactional")
  <2>1. Exact(c, sentQ[c], outQ[c], fate)
      BY <1>1 DEF HeldInv
  <2> QED
      BY <1>3, <2>1 DEF Exact, QueueOf
<1>5. /\ \A n \in Msg : fate'[n] = IF n = h THEN "discarded" ELSE fate[n]
      /\ outQ'[c] = Tail(outQ[c]) /\ \A d \in Queue : d # c => outQ'[d] = outQ[d]
    BY <1>1, <1>2, <1>4 DEF TypeOK
<1>6. txBuffer \subseteq Msg /\ Transactional \subseteq Msg
    BY <1>1, QueueAssumption DEF TypeOK, QueueAssumption
<1>7. \A n \in txBuffer : fate'[n] # "new"
    BY <1>1, <1>5, <1>6 DEF BufferInv
<1>8. CASE c # "Transactional"
  <2>1. CallsUnchanged
    <3>1. \A m \in Transactional : fate'[m] = fate[m]
        BY <1>4, <1>5, <1>6, <1>8
    <3>2. outQ'["Transactional"] = outQ["Transactional"]
        BY <1>5, <1>8 DEF Queue
    <3> QED
        BY <1>2, <3>1, <3>2 DEF CallsUnchanged, Held
  <2>2. BufferInv'
      BY <1>1, <1>2, <1>7, <2>1 DEF BufferInv, CallsUnchanged
  <2> QED
      BY <1>2, <2>1, <2>2, OutboxStutter
<1>9. CASE c = "Transactional"
  <2>1. sentQ["Transactional"] = <<>> /\ q = outQ[c]
      BY <1>1, <1>9, TransactionalHeld
  <2>2. q' = Without(q, 1)
    <3>1. q' = <<>> \o Tail(outQ[c])
        BY <1>2, <1>5, <1>9, <2>1 DEF Held
    <3>2. Tail(outQ[c]) \in Seq(Msg)
        BY <1>1, <1>3, HeadTailProperties
    <3> QED
        BY <1>3, <2>1, <3>1, <3>2, ConcatEmptySeq
  <2>3. 1 \in DOMAIN q /\ q[1] = h /\ h \in Transactional
      BY <1>3, <1>4, <1>9, <2>1
  <2>4. \A n \in Transactional : fate'[n] = IF n = h THEN "discarded" ELSE fate[n]
      BY <1>5, <1>6
  <2> HIDE DEF h
  <2>5. Outbox!Next
      BY <1>2, <2>2, <2>3, <2>4, OutboxLeave
  <2>6. \A n \in txBuffer \cap Transactional : fate'[n] # "held"
      BY <1>1, <2>3, <2>4 DEF BufferInv
  <2>7. BufferInv'
      BY <1>1, <1>2, <1>7, <2>6 DEF BufferInv
  <2> QED
      BY <2>5, <2>7 DEF OutboxStep
<1> QED
    BY <1>8, <1>9

LEMMA TimeoutOutbox ==
    ASSUME OutboxInv, SendTimeoutRetry \/ RetryTimeout \/ NoReplyTimeoutResend
    PROVE  BufferInv' /\ OutboxStep
<1>1. TypeOK /\ currentQ \in Queue
    BY DEF OutboxInv, IInv, TypeOK
<1>2. CASE SendTimeoutRetry
    BY <1>2, ListsUntouched, OutboxUntouched DEF SendTimeoutRetry, envVars, histVars
<1>3. CASE RetryTimeout
  <2>1. sentQ["Transactional"] = <<>> /\ outQ[currentQ] # <<>>
      BY <1>3, TransactionalHeld DEF RetryTimeout, OutboxInv, IInv, HeadPresent
  <2> QED
      BY <1>1, <1>3, <2>1, SendMessageOutbox DEF RetryTimeout
<1>4. CASE NoReplyTimeoutResend
  <2>1. /\ outQ' = [outQ EXCEPT ![currentQ] = sentQ[currentQ] \o @]
        /\ sentQ' = [sentQ EXCEPT ![currentQ] = <<>>]
        /\ UNCHANGED <<txBuffer, atCS, histVars>>
      BY <1>4 DEF NoReplyTimeoutResend, RestoreSentMsgToOutQ
  <2>2. CallsUnchanged
    <3>1. CASE currentQ = "Transactional"
      <4>1. /\ outQ'["Transactional"] = sentQ["Transactional"] \o outQ["Transactional"]
            /\ sentQ'["Transactional"] = <<>>
          BY <1>1, <2>1, <3>1 DEF TypeOK
      <4> QED
          BY <2>1, <4>1, TransactionalHeld, HeldMoved, ZenonT(30) DEF CallsUnchanged, Held, histVars
    <3>2. CASE currentQ # "Transactional"
      <4>1. /\ outQ'["Transactional"] = outQ["Transactional"]
            /\ sentQ'["Transactional"] = sentQ["Transactional"]
          BY <1>1, <2>1, <3>2 DEF TypeOK, Queue
      <4> QED
          BY <2>1, <4>1 DEF CallsUnchanged, Held, histVars
    <3> QED
        BY <3>1, <3>2
  <2> QED
      BY <2>1, <2>2, OutboxUntouched
<1> QED
    BY <1>2, <1>3, <1>4

LEMMA ReplyOutbox ==
    ASSUME OutboxInv, NEW m \in Call, Reply(m)
    PROVE  BufferInv' /\ OutboxStep
<1> DEFINE c == currentQ
           q == Held("Transactional")
<1>1. TypeOK /\ c \in Queue /\ HeldInv /\ BufferInv
    BY DEF OutboxInv, IInv, TypeOK
<1>2. m \in written /\ atCS' \subseteq atCS
    BY <1>1 DEF Reply, ReplyNotFound, RemoveSentCallMessage, ReplyReceived, BufferInv
<1>3. CASE ReplyNotFound(m)
    BY <1>2, <1>3, ListsUntouched, OutboxUntouched DEF ReplyNotFound, objVars, histVars
<1>4. CASE RemoveSentCallMessage(m)
  <2>1. PICK i \in DOMAIN sentQ[c] :
            sentQ[c][i] = m /\ sentQ' = [sentQ EXCEPT ![c] = Without(sentQ[c], i)]
      BY <1>1, <1>4 DEF RemoveSentCallMessage, Without, TypeOK
  <2>2. /\ fate' = [fate EXCEPT ![m] = "answered"]
        /\ UNCHANGED <<outQ, txBuffer, written, givenUp>>
      BY <1>4 DEF RemoveSentCallMessage
  <2>3. m \in Range(sentQ[c]) /\ m \in Msg /\ (m \in Transactional <=> c = "Transactional")
    <3>1. m \in Range(sentQ[c])
        BY <2>1 DEF Range
    <3>2. Exact(c, sentQ[c], outQ[c], fate)
        BY <1>1 DEF HeldInv
    <3> QED
        BY <3>1, <3>2 DEF Exact, QueueOf
  <2>4. \A n \in Msg : fate'[n] = IF n = m THEN "answered" ELSE fate[n]
      BY <1>1, <2>2, <2>3 DEF TypeOK
  <2>5. txBuffer \subseteq Msg /\ Transactional \subseteq Msg
      BY <1>1, QueueAssumption DEF TypeOK, QueueAssumption
  <2>6. (\A n \in txBuffer : fate'[n] # "new") /\ givenUp' = {} /\ atCS' \subseteq written'
      BY <1>1, <1>2, <2>2, <2>4, <2>5 DEF BufferInv
  <2>7. CASE c # "Transactional"
    <3>1. sentQ'["Transactional"] = sentQ["Transactional"]
        BY <1>1, <2>1, <2>7 DEF TypeOK, Queue
    <3>2. \A n \in Transactional : fate'[n] = fate[n]
        BY <2>3, <2>4, <2>5, <2>7
    <3>3. CallsUnchanged
        BY <2>2, <3>1, <3>2 DEF CallsUnchanged, Held
    <3>4. BufferInv'
        BY <1>1, <2>2, <2>6, <3>3 DEF BufferInv, CallsUnchanged
    <3> QED
        BY <2>2, <3>3, <3>4, OutboxStutter
  <2>8. CASE c = "Transactional"
    <3> DEFINE s == sentQ["Transactional"]
               o == outQ["Transactional"]
    <3>1. s \in Seq(Msg) /\ o \in Seq(Msg) /\ q = s \o o /\ i \in DOMAIN s /\ s[i] = m /\ IsInjective(q)
        BY <2>1, <2>8, TransactionalHeld DEF Held
    <3>2. q' = Without(s, i) \o o
      <4>1. sentQ'["Transactional"] = Without(s, i)
          BY <1>1, <2>1, <2>8 DEF TypeOK
      <4> QED
          BY <2>2, <4>1 DEF Held
    <3> HIDE DEF s, o, q
    <3>3. i \in DOMAIN q /\ q[i] = m /\ q' = Without(q, i) /\ q \in Seq(Msg)
        BY <3>1, <3>2, WithoutConcat, ConcatProperties
    <3>4. Outbox!Next
      <4>1. \A n \in Transactional : fate'[n] = IF n = m THEN "answered" ELSE fate[n]
          BY <2>4, <2>5
      <4> QED
          BY <1>2, <2>2, <2>3, <2>8, <3>3, <4>1, OutboxLeave DEF q
    <3>5. ASSUME NEW n \in txBuffer \cap Transactional, fate'[n] = "held" PROVE q'[1] = n
      <4>1. n # m /\ fate[n] = "held" /\ q[1] = n
          BY <1>1, <2>4, <2>5, <3>5 DEF BufferInv, q
      <4>2. /\ Len(q) \in Nat /\ i \in 1..Len(q) /\ i # 1
            /\ \A j \in 1..Len(q) - 1 : q'[j] = IF j < i THEN q[j] ELSE q[j + 1]
          BY <3>3, <4>1, WithoutProperties, LenProperties
      <4>3. 1 \in 1..Len(q) - 1 /\ 1 < i
          BY <4>2
      <4> QED
          BY <4>1, <4>2, <4>3
    <3>6. BufferInv'
        BY <2>2, <2>6, <3>5 DEF BufferInv, q
    <3> QED
        BY <3>4, <3>6 DEF OutboxStep
  <2> QED
      BY <2>7, <2>8
<1> QED
    BY <1>3, <1>4 DEF Reply

LEMMA StopProcessingOutbox ==
    ASSUME OutboxInv, StopProcessing
    PROVE  BufferInv' /\ OutboxStep
<1> DEFINE q == outQ["NonTransactional"]
           erased == Erased({i \in DOMAIN q : q[i] \in Authorize})
           lost == {q[i] : i \in erased} \cup Range(sentQ["NonTransactional"])
<1> USE DEF Queue
<1>1. TypeOK /\ HeldInv /\ BufferInv
    BY DEF OutboxInv, IInv
<1>2. /\ outQ'["Transactional"] = IF currentQ = "Transactional"
                                  THEN sentQ["Transactional"] \o outQ["Transactional"]
                                  ELSE outQ["Transactional"]
      /\ sentQ'["Transactional"] = IF currentQ = "Transactional" THEN <<>> ELSE sentQ["Transactional"]
    BY <1>1 DEF StopProcessing, TypeOK
<1>3. /\ fate' = FateOf(lost, "abandoned") /\ txBuffer' = {} /\ atCS' = {}
      /\ UNCHANGED <<written, givenUp>>
    BY DEF StopProcessing
<1>4. lost \cap Transactional = {}
  <2>1. {q[i] : i \in erased} \subseteq Range(q)
      BY DEF Erased, Range
  <2> HIDE DEF erased
  <2> QED
      BY <1>1, <2>1, OtherList
<1> HIDE DEF lost
<1>5. \A m \in Transactional : fate'[m] = fate[m]
    BY <1>3, <1>4, QueueAssumption DEF FateOf, QueueAssumption
<1>6. Held("Transactional")' = Held("Transactional")
  <2>1. CASE currentQ = "Transactional"
      BY <1>2, <2>1, TransactionalHeld, HeldMoved DEF Held
  <2>2. CASE currentQ # "Transactional"
      BY <1>2, <2>2 DEF Held
  <2> QED
      BY <2>1, <2>2
<1>7. CallsUnchanged
    BY <1>5, <1>6 DEF CallsUnchanged
<1>8. BufferInv'
    BY <1>1, <1>3 DEF BufferInv
<1> QED
    BY <1>3, <1>7, <1>8, OutboxStutter

-----------------------------------------------------------------------------
LEMMA InitOutbox == Init => OutboxInv /\ Outbox!Init
<1> SUFFICES ASSUME Init PROVE OutboxInv /\ Outbox!Init
    OBVIOUS
<1>1. BufferInv
    BY DEF Init, BufferInv
<1>2. Held("Transactional") = <<>>
  <2>1. sentQ["Transactional"] = <<>> /\ outQ["Transactional"] = <<>>
      BY DEF Init, Queue
  <2>2. <<>> \in Seq(Msg)
      OBVIOUS
  <2> QED
      BY <2>1, <2>2, ConcatEmptySeq DEF Held
<1>3. [m \in Transactional |-> fate[m]] = [m \in Transactional |-> "new"]
    BY QueueAssumption DEF Init, QueueAssumption
<1>4. written \cap Transactional = {}
    BY DEF Init
<1>5. Outbox!Init
    BY <1>2, <1>3, <1>4 DEF Outbox!Init
<1> QED
    BY <1>1, <1>5, InitIInv, InitHeld DEF OutboxInv

LEMMA InTimeOutbox == OutboxInv /\ [AnswersInTime]_vars => OutboxInv' /\ OutboxStep
<1> SUFFICES ASSUME OutboxInv, [AnswersInTime]_vars PROVE OutboxInv' /\ OutboxStep
    OBVIOUS
<1>1. IInv' /\ HeldInv'
  <2>1. [Next]_vars
      BY DEF AnswersInTime, Next, OnSendMessageTimeout
  <2> QED
      BY <2>1, NextIInv, NextHeld DEF OutboxInv
<1>2. BufferInv' /\ OutboxStep
  <2>1. ASSUME NEW m \in Msg, Submit(m) PROVE BufferInv' /\ OutboxStep
      BY <2>1, SubmitOutbox
  <2>2. CASE ProcessNextMessage
      BY <2>2, ProcessNextMessageOutbox
  <2>3. CASE BytesWritten
      BY <2>3, BytesWrittenOutbox
  <2>4. CASE SendTimeoutDiscard
      BY <2>4, SendTimeoutDiscardOutbox
  <2>5. CASE SendTimeoutRetry \/ RetryTimeout \/ NoReplyTimeoutResend
      BY <2>5, TimeoutOutbox
  <2>6. ASSUME NEW m \in Call, Reply(m) PROVE BufferInv' /\ OutboxStep
      BY <2>6, ReplyOutbox
  <2>7. CASE OnWsStateChanged
    <3>1. CASE WsConnecting \/ WsUnconnected
        BY <3>1, StopProcessingOutbox DEF WsConnecting, WsUnconnected
    <3>2. CASE WsConnected \/ WsClosing
        BY <3>2, ListsUntouched, OutboxUntouched DEF WsConnected, WsClosing, objVars, histVars
    <3> QED
        BY <2>7, <3>1, <3>2 DEF OnWsStateChanged
  <2>8. CASE UNCHANGED vars
      BY <2>8, ListsUntouched, OutboxUntouched DEF vars, objVars, envVars, histVars
  <2> QED
      BY <2>1, <2>2, <2>3, <2>4, <2>5, <2>6, <2>7, <2>8 DEF AnswersInTime
<1> QED
    BY <1>1, <1>2 DEF OutboxInv

(* Through lost connections, timeouts and late answers the queue keeps the *)
(* promise of TransactionalOutbox to the transaction requester, for every  *)
(* set of messages and retry limit, as long as the CS answers at the       *)
(* latest the last transmission waited for: calls first reach the CS in    *)
(* the order of submission, and none is lost without a trace.              *)
THEOREM QueueImplementsOutbox == InTimeSpec => ImplementsOutbox
BY InitOutbox, InTimeOutbox, PTL DEF InTimeSpec, OutboxStep, ImplementsOutbox, Outbox!Spec
=============================================================================
