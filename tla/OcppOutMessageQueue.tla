------------------------ MODULE OcppOutMessageQueue ------------------------
(***************************************************************************)
(* OcppOutMessageQueue (OCPP/ocppoutmessagequeue.{h,cpp}): the charger's   *)
(* queue of outgoing OCPP messages, with the web socket it writes to and   *)
(* the central system (CS) at the other end.                               *)
(*                                                                         *)
(* The queue is driven by one Qt event loop: every action below is one     *)
(* callback run to completion (a call of add/addReplaceExisting, a timer   *)
(* expiry, a bytesWritten or stateChanged signal, an incoming reply).      *)
(***************************************************************************)
EXTENDS Integers, Sequences, FiniteSets, Functions

CONSTANTS
    Msg,                \* every RPC message the charger may ever send, by message id
    Call,               \* those that are Call messages and so get a reply
    Transactional,      \* StartTransaction, StopTransaction and MeterValues calls
    Authorize,          \* Authorize calls
    Replacing,          \* calls submitted with addReplaceExisting
    Action,             \* Action[m]: the OCPP action of call m
    MaxRetries,         \* maxRetries: send attempts after the first one
    MaxWaitReplyRetries \* maxWaitReplyRetries: transmissions after the first one

ASSUME QueueAssumption ==
    /\ Transactional \subseteq Call
    /\ Authorize \subseteq Call \ Transactional
    /\ Replacing \subseteq Call
    /\ Call \subseteq Msg
    /\ DOMAIN Action = Call
    /\ \A m \in Transactional, n \in Call \ Transactional : Action[m] # Action[n]
    /\ MaxRetries \in Nat
    /\ MaxWaitReplyRetries \in Nat \ {0}

VARIABLES
    \* the object's members
    st,                 \* SendState
    csOnline,
    currentQ,           \* the queue the message being sent belongs to
    outQ,               \* outNonTransMsgQ and outTransMsgQ
    sentQ,              \* sentNonTransMsgQ and sentTransMsgQ
    sendMsgTimer,       \* "off", or what the one-shot timer was started for
    retryCnt,
    waitReplyRecordMap, \* unanswered transmissions counted for m; 0: no entry
    \* the event loop, the socket and the CS
    processPending,     \* zero-delay timers that will call processNextMessage
    ws,                 \* QAbstractSocket::SocketState
    txBuffer,           \* messages whose bytes the socket has not yet written
    atCS,               \* calls the CS received on this connection and may answer
    \* history
    fate,               \* what became of m
    written,            \* messages written to the socket at least once
    givenUp             \* calls whose reply the queue stopped waiting for

objVars == <<st, csOnline, currentQ, outQ, sentQ, sendMsgTimer, retryCnt, waitReplyRecordMap>>
envVars == <<processPending, ws, txBuffer, atCS>>
histVars == <<fate, written, givenUp>>
vars == <<objVars, envVars, histVars>>

Queue == {"NonTransactional", "Transactional"}
SendState == {"Idle", "Scheduled", "Sent", "Retrying", "WaitReply"}
Busy == {"Sent", "Retrying", "WaitReply"}
Timer == {"off", "send", "retry", "noReply"}
SocketState == {"Unconnected", "Connecting", "Connected", "Closing"}
Fate == {"new", "held", "answered", "sent", "discarded", "replaced", "abandoned"}

QueueOf(m) == IF m \in Transactional THEN "Transactional" ELSE "NonTransactional"

TypeOK ==
    /\ st \in SendState
    /\ csOnline \in BOOLEAN
    /\ currentQ \in Queue
    /\ outQ \in [Queue -> Seq(Msg)]
    /\ sentQ \in [Queue -> Seq(Call)]
    /\ sendMsgTimer \in Timer
    /\ retryCnt \in 0..MaxRetries
    /\ waitReplyRecordMap \in [Call -> 0..MaxWaitReplyRetries]
    /\ processPending \in Nat
    /\ ws \in SocketState
    /\ txBuffer \subseteq Msg
    /\ atCS \subseteq Call
    /\ fate \in [Msg -> Fate]
    /\ written \subseteq Msg
    /\ givenUp \subseteq Call

Init ==
    /\ st = "Idle"
    /\ csOnline = FALSE
    /\ currentQ = "NonTransactional"
    /\ outQ = [c \in Queue |-> <<>>]
    /\ sentQ = [c \in Queue |-> <<>>]
    /\ sendMsgTimer = "off"
    /\ retryCnt = 0
    /\ waitReplyRecordMap = [m \in Call |-> 0]
    /\ processPending = 0
    /\ ws = "Unconnected"
    /\ txBuffer = {}
    /\ atCS = {}
    /\ fate = [m \in Msg |-> "new"]
    /\ written = {}
    /\ givenUp = {}

-----------------------------------------------------------------------------
(* Helpers on the message lists *)

(* The subsequence of q at the positions in keep. It is stated as the set  *)
(* holding that one subsequence: order-preserving maps of 1..|keep| into   *)
(* keep.                                                                   *)
Kept(q, keep) ==
    { [i \in 1..Cardinality(keep) |-> q[f[i]]] :
        f \in { g \in [1..Cardinality(keep) -> keep] :
                  \A i, j \in 1..Cardinality(keep) : i < j => g[i] < g[j] } }

(* The positions erased by the loops of addReplaceExisting and             *)
(* removeRealTimeMsgFromQ over q, where hit is the set of matching         *)
(* positions. Each loop erases at the iterator and then still increments   *)
(* it, so the element after an erased one is never examined: of a run of   *)
(* consecutive matches every second one survives.                          *)
Erased(hit) ==
    { i \in hit : \E j \in hit :
        /\ j <= i
        /\ j - 1 \notin hit
        /\ j..i \subseteq hit
        /\ (i - j) % 2 = 0 }

FateOf(S, f) == [m \in Msg |-> IF m \in S THEN f ELSE fate[m]]

(* Fault: looks at one list only. *)
ScheduleNextOneListOnly(q) ==
    IF csOnline /\ q["NonTransactional"] # <<>>
    THEN /\ st' = "Scheduled"
         /\ processPending' = processPending + 1
    ELSE /\ st' = "Idle"
         /\ UNCHANGED processPending

(* scheduleNextIfQNotEmpty, called when st has just become Idle and the    *)
(* out-lists are q.                                                        *)
ScheduleNextIfQNotEmpty(q) ==
    IF csOnline /\ \E c \in Queue : q[c] # <<>>
    THEN /\ st' = "Scheduled"
         /\ processPending' = processPending + 1
    ELSE /\ st' = "Idle"
         /\ UNCHANGED processPending

(* Fault: does not start the timer. *)
SendMessageNoTimer(c) ==
    /\ st' = "Sent"
    /\ UNCHANGED sendMsgTimer
    /\ txBuffer' = IF ws = "Connected" THEN txBuffer \cup {Head(outQ[c])} ELSE txBuffer

(* sendMessage: hands the first message of list c to the socket, which     *)
(* takes no bytes unless it is connected.                                  *)
SendMessage(c) ==
    /\ st' = "Sent"
    /\ sendMsgTimer' = "send"
    /\ txBuffer' = IF ws = "Connected" THEN txBuffer \cup {Head(outQ[c])} ELSE txBuffer

(* Fault: forgets to clear the sent list. *)
RestoreKeepingSent ==
    /\ outQ' = [outQ EXCEPT ![currentQ] = sentQ[currentQ] \o @]
    /\ UNCHANGED sentQ

(* restoreSentMsgToOutQ: only the lists of the current queue.              *)
RestoreSentMsgToOutQ ==
    /\ outQ' = [outQ EXCEPT ![currentQ] = sentQ[currentQ] \o @]
    /\ sentQ' = [sentQ EXCEPT ![currentQ] = <<>>]

-----------------------------------------------------------------------------
(* The client submits message m: add, or addReplaceExisting *)

Accept(m) == csOnline \/ m \in Transactional

(* Fault: the action is not compared. *)
SameActionAnyCall(m) ==
    { i \in DOMAIN outQ[QueueOf(m)] :
        /\ outQ[QueueOf(m)][i] \in Call
        /\ i = 1 => st \in {"Idle", "Scheduled"} }

(* Positions whose call has the same action as m; the first one is         *)
(* protected unless the queue is idle or merely scheduled.                 *)
SameAction(m) ==
    { i \in DOMAIN outQ[QueueOf(m)] :
        /\ outQ[QueueOf(m)][i] \in Call
        /\ Action[outQ[QueueOf(m)][i]] = Action[m]
        /\ i = 1 => st \in {"Idle", "Scheduled"} }

(* add after the list was reduced to rest, which erased the messages gone. *)
Enqueue(m, rest, gone) ==
    /\ outQ' = [outQ EXCEPT ![QueueOf(m)] = Append(rest, m)]
    /\ IF rest = <<>> /\ st = "Idle"
       THEN ScheduleNextIfQNotEmpty(outQ')
       ELSE UNCHANGED <<st, processPending>>
    /\ fate' = [FateOf(gone, "replaced") EXCEPT ![m] = "held"]
    /\ UNCHANGED <<csOnline, currentQ, sentQ, sendMsgTimer, retryCnt, waitReplyRecordMap,
                   ws, txBuffer, atCS, written, givenUp>>

Add(m) ==
    /\ fate[m] = "new"
    /\ m \notin Replacing
    /\ Accept(m)
    /\ Enqueue(m, outQ[QueueOf(m)], {})

AddReplaceExisting(m) ==
    /\ fate[m] = "new"
    /\ m \in Replacing
    /\ Accept(m)
    /\ LET q == outQ[QueueOf(m)]
           erased == Erased(SameAction(m))
       IN \E rest \in Kept(q, DOMAIN q \ erased) :
            Enqueue(m, rest, {q[i] : i \in erased})

(* Both ignore a non-transactional message while the CS is offline. *)
RefuseOffline(m) ==
    /\ fate[m] = "new"
    /\ ~Accept(m)
    /\ fate' = [fate EXCEPT ![m] = "abandoned"]
    /\ UNCHANGED <<objVars, envVars, written, givenUp>>

-----------------------------------------------------------------------------
(* processNextMessage: a zero-delay timer fired. It does not look at       *)
(* csOnline, and takes non-transactional messages first.                   *)
ProcessNextMessage ==
    /\ processPending > 0
    /\ processPending' = processPending - 1
    /\ \/ /\ outQ["NonTransactional"] # <<>>
          /\ currentQ' = "NonTransactional"
          /\ SendMessage("NonTransactional")
       \/ /\ outQ["NonTransactional"] = <<>>
          /\ outQ["Transactional"] # <<>>
          /\ currentQ' = "Transactional"
          /\ SendMessage("Transactional")
       \/ /\ \A c \in Queue : outQ[c] = <<>>
          /\ st' = "Idle"
          /\ UNCHANGED <<currentQ, sendMsgTimer, txBuffer>>
    /\ UNCHANGED <<csOnline, outQ, sentQ, retryCnt, waitReplyRecordMap, ws, atCS, histVars>>

(* The socket has written all it had: the CS has those messages. A closing *)
(* socket also writes its close frame, and signals that the same way.      *)
Flush ==
    /\ ws \in {"Connected", "Closing"}
    /\ txBuffer # {} \/ ws = "Closing"
    /\ txBuffer' = {}
    /\ atCS' = atCS \cup (txBuffer \cap Call)
    /\ written' = written \cup txBuffer

(* onBytesWritten, nothing left to write, while a message is being sent. *)
OnBytesWritten ==
    /\ Flush
    /\ st = "Sent"
    /\ retryCnt' = 0
    /\ LET msg == Head(outQ[currentQ]) IN
       /\ outQ' = [outQ EXCEPT ![currentQ] = Tail(@)]
       /\ \/ /\ msg \in Call
             /\ sentQ' = [sentQ EXCEPT ![currentQ] = Append(@, msg)]
             /\ st' = "WaitReply"
             /\ sendMsgTimer' = "noReply"
             /\ UNCHANGED <<processPending, fate>>
          \/ /\ msg \notin Call
             /\ sendMsgTimer' = "off"
             /\ fate' = [fate EXCEPT ![msg] = "sent"]
             /\ ScheduleNextIfQNotEmpty(outQ')
             /\ UNCHANGED sentQ
    /\ UNCHANGED <<csOnline, currentQ, waitReplyRecordMap, ws, givenUp>>

(* onBytesWritten in any other state: the signal is ignored. *)
OnBytesWrittenIgnored ==
    /\ Flush
    /\ st # "Sent"
    /\ UNCHANGED <<objVars, processPending, ws, fate, givenUp>>

-----------------------------------------------------------------------------
(* onSendMessageTimeout, by state. The branch for st = Idle only logs.     *)

(* Fault: one retry too many. *)
SendTimeoutRetryOnceMore ==
    /\ st = "Sent" /\ sendMsgTimer # "off"
    /\ retryCnt <= MaxRetries
    /\ st' = "Retrying"
    /\ sendMsgTimer' = "retry"
    /\ UNCHANGED <<csOnline, currentQ, outQ, sentQ, retryCnt, waitReplyRecordMap, envVars, histVars>>

SendTimeoutRetry ==
    /\ st = "Sent" /\ sendMsgTimer # "off"
    /\ retryCnt < MaxRetries
    /\ st' = "Retrying"
    /\ sendMsgTimer' = "retry"
    /\ UNCHANGED <<csOnline, currentQ, outQ, sentQ, retryCnt, waitReplyRecordMap, envVars, histVars>>

(* Fault: the next message inherits the retries. *)
SendTimeoutDiscardKeepingCount ==
    /\ st = "Sent" /\ sendMsgTimer # "off"
    /\ retryCnt >= MaxRetries
    /\ outQ' = [outQ EXCEPT ![currentQ] = Tail(@)]
    /\ fate' = [fate EXCEPT ![Head(outQ[currentQ])] = "discarded"]
    /\ sendMsgTimer' = "off"
    /\ ScheduleNextIfQNotEmpty(outQ')
    /\ UNCHANGED <<csOnline, currentQ, sentQ, retryCnt, waitReplyRecordMap, ws, txBuffer, atCS,
                   written, givenUp>>

(* Retries used up: the message is taken off the list and nobody is told. *)
SendTimeoutDiscard ==
    /\ st = "Sent" /\ sendMsgTimer # "off"
    /\ retryCnt >= MaxRetries
    /\ outQ' = [outQ EXCEPT ![currentQ] = Tail(@)]
    /\ fate' = [fate EXCEPT ![Head(outQ[currentQ])] = "discarded"]
    /\ sendMsgTimer' = "off"
    /\ retryCnt' = 0
    /\ ScheduleNextIfQNotEmpty(outQ')
    /\ UNCHANGED <<csOnline, currentQ, sentQ, waitReplyRecordMap, ws, txBuffer, atCS,
                   written, givenUp>>

RetryTimeout ==
    /\ st = "Retrying" /\ sendMsgTimer # "off"
    /\ retryCnt' = retryCnt + 1
    /\ SendMessage(currentQ)
    /\ UNCHANGED <<csOnline, currentQ, outQ, sentQ, waitReplyRecordMap, processPending, ws, atCS, histVars>>

(* The call blamed for a missing reply is the first of the sent list,      *)
(* whichever was sent last.                                                *)
AwaitedCall == Head(sentQ[currentQ])

NoReplyTimeoutResend ==
    /\ st = "WaitReply" /\ sendMsgTimer # "off"
    /\ waitReplyRecordMap[AwaitedCall] < MaxWaitReplyRetries
    /\ waitReplyRecordMap' = [waitReplyRecordMap EXCEPT ![AwaitedCall] = @ + 1]
    /\ sendMsgTimer' = "off"
    /\ RestoreSentMsgToOutQ
    /\ ScheduleNextIfQNotEmpty(outQ')
    /\ UNCHANGED <<csOnline, currentQ, retryCnt, ws, txBuffer, atCS, histVars>>

(* Too many: the call stays in the sent list and nothing is scheduled; no  *)
(* slot is connected to msgNoReplyError.                                   *)
NoReplyTimeoutGiveUp ==
    /\ st = "WaitReply" /\ sendMsgTimer # "off"
    /\ waitReplyRecordMap[AwaitedCall] >= MaxWaitReplyRetries
    /\ waitReplyRecordMap' = [waitReplyRecordMap EXCEPT ![AwaitedCall] = 0]
    /\ sendMsgTimer' = "off"
    /\ st' = "Idle"
    /\ givenUp' = givenUp \cup Range(sentQ[currentQ])
    /\ UNCHANGED <<csOnline, currentQ, outQ, sentQ, retryCnt, envVars, fate, written>>

-----------------------------------------------------------------------------
(* The CS answers call m: OcppClient::OcppDataReceived calls               *)
(* removeSentCallMessage, which searches the sent list of the current      *)
(* queue only.                                                             *)
ReplyReceived(m) ==
    /\ ws \in {"Connected", "Closing"}
    /\ m \in atCS
    /\ atCS' = atCS \ {m}

RemoveSentCallMessage(m) ==
    /\ ReplyReceived(m)
    /\ \E i \in DOMAIN sentQ[currentQ] :
         /\ sentQ[currentQ][i] = m
         /\ sentQ' = [sentQ EXCEPT ![currentQ] = SubSeq(@, 1, i - 1) \o SubSeq(@, i + 1, Len(@))]
    /\ fate' = [fate EXCEPT ![m] = "answered"]
    /\ \/ /\ st = "WaitReply"
          /\ sendMsgTimer' = "off"
          /\ ScheduleNextIfQNotEmpty(outQ)
       \/ /\ st # "WaitReply"
          /\ UNCHANGED <<st, sendMsgTimer, processPending>>
    /\ UNCHANGED <<csOnline, currentQ, outQ, retryCnt, waitReplyRecordMap, ws, txBuffer,
                   written, givenUp>>

ReplyNotFound(m) ==
    /\ ReplyReceived(m)
    /\ \A i \in DOMAIN sentQ[currentQ] : sentQ[currentQ][i] # m
    /\ UNCHANGED <<objVars, processPending, ws, txBuffer, histVars>>

-----------------------------------------------------------------------------
(* onWsStateChanged *)

(* Fault: the state outlives the connection. *)
StopProcessingKeepingState ==
    /\ csOnline' = FALSE
    /\ sendMsgTimer' = "off"
    /\ retryCnt' = 0
    /\ RestoreSentMsgToOutQ
    /\ txBuffer' = {}
    /\ atCS' = {}
    /\ UNCHANGED <<st, currentQ, waitReplyRecordMap, processPending, fate, written, givenUp>>

(* ConnectingState and UnconnectedState run the same block. *)
StopProcessing ==
    LET q == outQ["NonTransactional"]
        erased == Erased({i \in DOMAIN q : q[i] \in Authorize})
    IN /\ csOnline' = FALSE
       /\ st' = "Idle"
       /\ sendMsgTimer' = "off"
       /\ retryCnt' = 0
       /\ \E rest \in Kept(q, DOMAIN q \ erased) :
            outQ' = [outQ EXCEPT !["NonTransactional"] = rest,
                                 !["Transactional"] =
                                     IF currentQ = "Transactional" THEN sentQ[currentQ] \o @ ELSE @]
       /\ sentQ' = [sentQ EXCEPT !["NonTransactional"] = <<>>, ![currentQ] = <<>>]
       /\ fate' = FateOf({q[i] : i \in erased} \cup Range(sentQ["NonTransactional"]), "abandoned")
       /\ txBuffer' = {}
       /\ atCS' = {}
       /\ UNCHANGED <<currentQ, waitReplyRecordMap, processPending, written, givenUp>>

(* A connection attempt starts from a timer of at least a second: the      *)
(* zero-delay timer pending when the last one ended has fired by then      *)
(* (timing assumption of the model).                                       *)
WsConnecting ==
    /\ ws = "Unconnected"
    /\ processPending = 0
    /\ ws' = "Connecting"
    /\ StopProcessing

(* Fault: what waited for the connection is not scheduled. *)
WsConnectedWithoutScheduling ==
    /\ ws = "Connecting"
    /\ ws' = "Connected"
    /\ csOnline' = TRUE
    /\ retryCnt' = 0
    /\ UNCHANGED <<st, processPending, currentQ, outQ, sentQ, sendMsgTimer, waitReplyRecordMap,
                   txBuffer, atCS, histVars>>

WsConnected ==
    /\ ws = "Connecting"
    /\ ws' = "Connected"
    /\ csOnline' = TRUE
    /\ retryCnt' = 0
    /\ IF st = "Idle" /\ \E c \in Queue : outQ[c] # <<>>
       THEN st' = "Scheduled" /\ processPending' = processPending + 1
       ELSE UNCHANGED <<st, processPending>>
    /\ UNCHANGED <<currentQ, outQ, sentQ, sendMsgTimer, waitReplyRecordMap, txBuffer, atCS, histVars>>

(* ClosingState is not handled: the queue goes on. *)
WsClosing ==
    /\ ws = "Connected"
    /\ ws' = "Closing"
    /\ UNCHANGED <<objVars, processPending, txBuffer, atCS, histVars>>

WsUnconnected ==
    /\ ws \in {"Connecting", "Connected", "Closing"}
    /\ ws' = "Unconnected"
    /\ StopProcessing

-----------------------------------------------------------------------------
Submit(m) == Add(m) \/ AddReplaceExisting(m) \/ RefuseOffline(m)
BytesWritten == OnBytesWritten \/ OnBytesWrittenIgnored
OnSendMessageTimeout ==
    \/ SendTimeoutRetry \/ SendTimeoutDiscard \/ RetryTimeout
    \/ NoReplyTimeoutResend \/ NoReplyTimeoutGiveUp
Reply(m) == RemoveSentCallMessage(m) \/ ReplyNotFound(m)
OnWsStateChanged == WsConnecting \/ WsConnected \/ WsClosing \/ WsUnconnected

Next ==
    \/ \E m \in Msg : Submit(m)
    \/ ProcessNextMessage
    \/ BytesWritten
    \/ OnSendMessageTimeout
    \/ \E m \in Call : Reply(m)
    \/ OnWsStateChanged

Spec == Init /\ [][Next]_vars
-----------------------------------------------------------------------------
(* Properties *)

Held(c) == sentQ[c] \o outQ[c]

(* onBytesWritten, sendMessage and onSendMessageTimeout call first() and   *)
(* takeFirst() on a list they do not test: it is never empty then.         *)
HeadPresent ==
    /\ st \in {"Sent", "Retrying"} => outQ[currentQ] # <<>>
    /\ st = "WaitReply" => sentQ[currentQ] # <<>>

(* A message the queue has accepted is in exactly one place of its four    *)
(* lists until it is answered, sent (if it needs no answer), replaced or   *)
(* discarded; going offline abandons no transactional message.             *)
HeldExactlyOnce ==
    /\ \A c \in Queue : \A i, j \in DOMAIN Held(c) : Held(c)[i] = Held(c)[j] => i = j
    /\ \A c \in Queue : \A i \in DOMAIN Held(c) : QueueOf(Held(c)[i]) = c
    /\ \A m \in Msg : fate[m] = "held" <=> m \in Range(Held(QueueOf(m)))
    /\ \A m \in Transactional : fate[m] # "abandoned"

(* The one timer runs exactly while the queue waits for it, for the reason *)
(* it waits; a scheduled queue has its zero-delay timer pending. A state   *)
(* with neither would never be left.                                       *)
TimerArmed ==
    /\ st = "Sent" => sendMsgTimer = "send"
    /\ st = "Retrying" => sendMsgTimer = "retry"
    /\ st = "WaitReply" => sendMsgTimer = "noReply"
    /\ st \notin Busy => sendMsgTimer = "off"
    /\ st = "Scheduled" => processPending = 1

(* Scheduling discipline: at most one zero-delay timer, pending for a      *)
(* scheduled queue or left over from a lost connection; the queue's idea   *)
(* of the connection is the socket's.                                      *)
SchedulingInv ==
    /\ processPending \in {0, 1}
    /\ processPending = 1 => st = "Scheduled" \/ (st = "Idle" /\ ~csOnline)
    /\ st = "Scheduled" => csOnline
    /\ csOnline <=> ws \in {"Connected", "Closing"}
    /\ ws = "Connecting" => st = "Idle" /\ processPending = 0
    /\ st = "Retrying" => retryCnt < MaxRetries

(* Online and with something to send, the queue is not idle, unless it has *)
(* once given up on a call (onSendMessageTimeout then schedules nothing).  *)
NoStall ==
    csOnline /\ st = "Idle" /\ givenUp = {} => \A c \in Queue : outQ[c] = <<>>

(* As long as the queue has never given up on a call, the sent lists hold  *)
(* nothing but the one call whose reply is awaited: timeouts, replies and  *)
(* lost connections leave no call behind. (After it has, a late answer to  *)
(* the abandoned call also ends the wait for the next one.)                *)
NothingStranded ==
    givenUp = {} =>
        \A c \in Queue :
            IF st = "WaitReply" /\ c = currentQ THEN Len(sentQ[c]) = 1 ELSE sentQ[c] = <<>>

(* Every message starts with its full number of send retries, whatever     *)
(* interrupted the one before it.                                          *)
FullRetryBudget == st \in {"Idle", "Scheduled", "WaitReply"} => retryCnt = 0

(* The queue as the transaction requester sees it. *)
Outbox == INSTANCE TransactionalOutbox WITH
    Call <- Transactional,
    Action <- [m \in Transactional |-> Action[m]],
    pending <- Held("Transactional"),
    fate <- [m \in Transactional |-> fate[m]],
    written <- written \cap Transactional

(* The queue implements the promise made to the transaction requester      *)
(* (TransactionalOutbox), through lost connections, timeouts and late      *)
(* answers, as long as it gives up on no call: one it has given up on      *)
(* while the socket was closing may be overtaken by later ones.            *)
ImplementsOutbox == Outbox!Spec

-----------------------------------------------------------------------------
(* Liveness: the CS answers at the latest the last transmission the queue  *)
(* waits for, so that it never gives up; the event loop fires its timers,  *)
(* the socket drains while connected.                                      *)
AnswersInTime ==
    \/ \E m \in Msg : Submit(m)
    \/ ProcessNextMessage
    \/ BytesWritten
    \/ SendTimeoutRetry \/ SendTimeoutDiscard \/ RetryTimeout \/ NoReplyTimeoutResend
    \/ \E m \in Call : Reply(m)
    \/ OnWsStateChanged

InTimeSpec == Init /\ [][AnswersInTime]_vars

FairSpec ==
    /\ InTimeSpec
    /\ WF_vars(ProcessNextMessage)
    /\ WF_vars(BytesWritten)
    /\ WF_vars(RetryTimeout)
    /\ \A m \in Call : WF_vars(Reply(m))

(* If the connection finally stays up, every transactional message leaves  *)
(* the queue: no interleaving of timeouts, replies and reconnections (all  *)
(* before the last one) leaves it waiting with nothing scheduled.          *)
EventuallyDelivered ==
    <>[](ws = "Connected") =>
        \A m \in Transactional : fate[m] = "held" ~> fate[m] # "held"
=============================================================================
