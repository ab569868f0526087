--------------------------- MODULE Authorization ----------------------------
(***************************************************************************)
(* Who may start and stop charging: the RFID request of the windows        *)
(* (chargerrequestrfid.cpp, rfidreaderwindow.cpp), the authorization cache *)
(* and its file (authorizationcache.cpp), and the Authorize calls of       *)
(* OcppClient whose answers come when they will. What the local list says  *)
(* of a tag changes at any time (LocalAuthList), as does whether the CS is *)
(* on line (OcppConnection): both are read once for a card. The payment    *)
(* window has a request to begin a charge, the charging window one to end  *)
(* it; one of them is open at a time.                                      *)
(***************************************************************************)
EXTENDS Naturals, Sequences, Selections

CONSTANTS
    Tag,
    NoTag,
    Status,         \* verdicts on a tag
    Unknown,        \* no verdict
    MaxCacheEntries,
    AuthStop,       \* setting: another card may stop the charging if the CS accepts it
    MaxUnderWay     \* bound: Authorize calls under way

Valid == {"Accepted", "ConcurrentTx"}

ASSUME AuthorizationAssumption ==
    /\ Valid \cup {"Expired"} \subseteq Status
    /\ NoTag \notin Tag
    /\ Unknown \notin Status
    /\ MaxCacheEntries \in Nat \ {0}
    /\ AuthStop \in BOOLEAN
    /\ MaxUnderWay \in Nat

VARIABLES               \* AuthorizationCache
    cache,              \* entries, the one updated longest ago first
    cacheFile,
    flushTimer          \* authCacheFlushTimer runs

VARIABLES               \* OcppClient, CCharger
    calls,              \* tags of Authorize calls waiting for their answers
    lookup,             \* tag with a zero-delay timer for onAuthCacheLookupSucc, or NoTag
    refusal,            \* the same for raiseOcppAuthOfflineSignal
    idTag,              \* m_ChargerA.IdTag
    session             \* tag the charging goes on under, or NoTag; startTxRfidUuid of the
                        \* request to end it

VARIABLES               \* ChargerRequestRfid with its RfidReaderWindow
    window,             \* the window the request belongs to
    reader,             \* state of the reader window
    closings            \* timers for closeTemporaryMessage

VARIABLES
    asked,              \* history: tag this request waits for, or NoTag, and the CS's last
                        \* verdict on it when its card was read
    told,               \* history: the CS's last verdict on each tag
    stray,              \* history: an answer came to a request that had not asked for it
    mixed,              \* history: a verdict was cached for a tag it was not given on
    lost                \* history: the program ended with verdicts not yet on file

cacheVars == <<cache, cacheFile, flushTimer>>
callVars == <<calls, lookup, refusal>>
requestVars == <<window, reader, closings>>
historyVars == <<told, stray, mixed, lost>>
vars == <<cacheVars, callVars, idTag, session, requestVars, asked,
          historyVars>>

Entry == [tag: Tag, status: Status, expiry: {"none", "ahead", "past"}]
Nothing == [tag |-> NoTag, verdict |-> Unknown]
Reader == {"PresentCard", "CardCaptured", "RetryMessage", "PresentCardAgain"}

TypeOK ==
    /\ cache \in Seq(Entry) /\ Len(cache) <= MaxCacheEntries
    /\ cacheFile \in Seq(Entry)
    /\ calls \in Seq(Tag)
    /\ closings \in 0..(MaxUnderWay + 1)
    /\ {flushTimer, stray, mixed, lost} \subseteq BOOLEAN
    /\ {lookup, refusal, idTag, session} \subseteq Tag \cup {NoTag}
    /\ asked \in [tag: Tag \cup {NoTag}, verdict: Status \cup {Unknown}]
    /\ window \in {"None", "Start", "Stop"}
    /\ reader \in Reader
    /\ told \in [Tag -> Status \cup {Unknown}]

Init ==
    /\ cache = <<>> /\ cacheFile = <<>> /\ flushTimer = FALSE
    /\ calls = <<>> /\ lookup = NoTag /\ refusal = NoTag
    /\ idTag = NoTag /\ session = NoTag
    /\ window = "None" /\ reader = "PresentCard" /\ closings = 0
    /\ asked = Nothing
    /\ told = [t \in Tag |-> Unknown]
    /\ stray = FALSE /\ mixed = FALSE /\ lost = FALSE

-----------------------------------------------------------------------------
(* AuthorizationCache *)

Indices(t) == {i \in DOMAIN cache : cache[i].tag = t}
Lookup(t) == CHOOSE i \in DOMAIN cache : cache[i].tag = t
Holds(t) == Indices(t) # {} /\ cache[Lookup(t)].status \in Valid
(* Fault: any entry will do that is not too old. *)
CheckPresent(t) == Indices(t) # {} /\ cache[Lookup(t)].expiry # "past"
CheckValid(t) == Holds(t) /\ cache[Lookup(t)].expiry # "past"

(* checkValid marks an entry it finds too old. *)
Marked(t) ==
    [i \in DOMAIN cache |->
        IF i \in Indices(t) /\ Holds(t) /\ ~CheckValid(t)
        THEN [cache[i] EXCEPT !.status = "Expired"] ELSE cache[i]]

(* Fault: entries that are valid are not removed. *)
FreedOfInvalid == {Selected(cache, {e \in Entry : e.status \in Valid})}

(* What freeUpSpace may leave of a full cache: the valid entries, if there *)
(* is room then, or else those of them updated last. How many depends on   *)
(* the ages it tries, from 14 days to one hour; if all entries are newer   *)
(* it removes just the oldest.                                             *)
Freed ==
    LET valids == Selected(cache, {e \in Entry : e.status \in Valid})
        kept == IF Len(valids) < MaxCacheEntries THEN {1} ELSE 2..(Len(valids) + 1)
    IN {SubSeq(valids, from, Len(valids)) : from \in kept}

Inserted(entries, entry) ==
    Append(Selected(entries, {e \in Entry : e.tag # entry.tag}), entry)

(* Fault: a verdict that refuses is not noted. *)
AddValidEntry(entry) ==
    /\ flushTimer' = TRUE
    /\ IF entry.status \notin Valid THEN UNCHANGED cache
       ELSE IF Len(cache) >= MaxCacheEntries
       THEN \E left \in Freed : cache' = Inserted(left, entry)
       ELSE cache' = Inserted(cache, entry)
    /\ UNCHANGED cacheFile

AddEntry(entry) ==
    /\ flushTimer' = TRUE
    /\ IF Len(cache) >= MaxCacheEntries
       THEN \E left \in Freed : cache' = Inserted(left, entry)
       ELSE cache' = Inserted(cache, entry)
    /\ UNCHANGED cacheFile

(* onAuthCacheFlushTimeout; a failure to open the file is only logged. *)
FlushCache ==
    /\ flushTimer
    /\ flushTimer' = FALSE
    /\ cacheFile' \in {cacheFile, cache}
    /\ UNCHANGED <<cache, callVars, idTag, session, requestVars, asked,
                   historyVars>>

(* ClearCache.req *)
ClearCache ==
    /\ cache' = <<>>
    /\ flushTimer' = TRUE
    /\ UNCHANGED <<cacheFile, callVars, idTag, session, requestVars, asked,
                   historyVars>>

Aged(entries) ==
    [i \in DOMAIN entries |->
        IF entries[i].expiry = "ahead" THEN [entries[i] EXCEPT !.expiry = "past"]
                                       ELSE entries[i]]

(* The expiry dates given so far pass. *)
TimePasses ==
    /\ cache' = Aged(cache)
    /\ cacheFile' = Aged(cacheFile)
    /\ UNCHANGED <<flushTimer, callVars, idTag, session, requestVars, asked,
                   historyVars>>

-----------------------------------------------------------------------------
(* Windows *)

Close ==
    /\ window' = "None" /\ reader' = "PresentCard" /\ closings' = 0
    /\ asked' = Nothing

(* A charge begins under idTag, in mode ChargeToFull: the payment window   *)
(* gives way to windows that listen for the card to end it.                *)
StartCharge(t) ==
    /\ session' = t
    /\ window' = "Stop" /\ reader' = "PresentCard" /\ closings' = 0
    /\ asked' = Nothing

StopCharge == session' = NoTag /\ Close

(* displayMessage with autoClose *)
ShowMessage ==
    /\ reader' = "RetryMessage"
    /\ closings' = closings + 1
    /\ UNCHANGED window

(* Zero-delay timers fire before a user can do anything more. *)
NothingDue == lookup = NoTag /\ refusal = NoTag

OpenPaymentWindow ==
    /\ window = "None" /\ session = NoTag /\ NothingDue
    /\ window' = "Start"
    /\ UNCHANGED <<cacheVars, callVars, idTag, session, reader,
                   closings, asked, historyVars>>

(* The user quits, or takes the cable. The Authorize call stays.           *)
ClosePaymentWindow ==
    /\ window = "Start"
    /\ Close
    /\ UNCHANGED <<cacheVars, callVars, idTag, session, historyVars>>

(* Fault: the timer is not a single one. *)
CloseTemporaryMessageAgain ==
    /\ closings > 0 /\ reader = "RetryMessage"
    /\ reader' = "PresentCardAgain"
    /\ UNCHANGED <<cacheVars, callVars, idTag, session, window, closings,
                   asked, historyVars>>

(* closeTemporaryMessage; outside of RetryMessage it throws, see Crash. *)
CloseTemporaryMessage ==
    /\ closings > 0 /\ reader = "RetryMessage"
    /\ closings' = closings - 1
    /\ reader' = "PresentCardAgain"
    /\ UNCHANGED <<cacheVars, callVars, idTag, session, window,
                   asked, historyVars>>

(* requestAccepted on an answer *)
RequestAccepted ==
    IF window = "Start" THEN StartCharge(idTag) ELSE StopCharge

RequestRejected ==
    ShowMessage /\ asked' = Nothing /\ UNCHANGED session

NobodyWaits == UNCHANGED <<session, requestVars, asked>>

-----------------------------------------------------------------------------
(* A card *)

(* checkCardAgainstServer, addAuthorizeReq, ocppSendAuthorize *)
CheckCardAgainstServer(t, useAuthCache, online) ==
    /\ idTag' = t
    /\ asked' = [tag |-> t, verdict |-> told[t]]
    /\ reader' = "CardCaptured"
    /\ cache' = IF useAuthCache THEN Marked(t) ELSE cache
    /\ IF useAuthCache /\ CheckValid(t)
       THEN lookup' = t /\ UNCHANGED <<calls, refusal>>
       ELSE IF online THEN /\ Len(calls) < MaxUnderWay
                           /\ calls' = Append(calls, t)
                           /\ UNCHANGED <<lookup, refusal>>
                      ELSE refusal' = t /\ UNCHANGED <<calls, lookup>>
    /\ UNCHANGED <<session, window, closings>>

(* The reader has been asked for a card and has read one. *)
CardCanBeRead == NothingDue /\ reader \in {"PresentCard", "PresentCardAgain"}

(* onReaderResponded, BeginCharge; listed is the verdict of the local list *)
CardToStart(t, listed, online) ==
    /\ CardCanBeRead /\ window = "Start"
    /\ \/ /\ listed \in Valid
          /\ idTag' = t
          /\ StartCharge(t)
          /\ UNCHANGED <<cache, callVars>>
       \/ /\ listed \in Status \ Valid
          /\ RequestRejected
          /\ UNCHANGED <<cache, callVars, idTag>>
       \/ /\ listed = Unknown
          /\ CheckCardAgainstServer(t, TRUE, online)
    /\ UNCHANGED <<cacheFile, flushTimer, told, stray, mixed, lost>>

(* onReaderResponded, EndCharge. Every charge here has a tag: one without, *)
(* which any card may stop, is left out, and so is the card that suspends  *)
(* a charge.                                                               *)
CardToStop(t, online) ==
    /\ CardCanBeRead /\ window = "Stop"
    /\ \/ /\ t = session
          /\ idTag' = t
          /\ StopCharge
          /\ UNCHANGED <<cache, callVars>>
       \/ /\ t # session /\ AuthStop
          /\ CheckCardAgainstServer(t, FALSE, online)
       \/ /\ t # session /\ ~AuthStop
          /\ RequestRejected
          /\ UNCHANGED <<cache, callVars, idTag>>
    /\ UNCHANGED <<cacheFile, flushTimer, told, stray, mixed, lost>>

-----------------------------------------------------------------------------
(* Answers: every open request acts on each, whatever it has asked. *)

Accepts(status) ==
    IF window = "Start" THEN status = "Accepted" ELSE status \in Valid

(* onOcppAuthorizeResponse; the answer is to a question about tag t. *)
OnAuthorizeResponse(t, available, status) ==
    /\ stray' = (stray \/ (window # "None" /\ asked.tag # t))
    /\ CASE window = "None" -> NobodyWaits
         [] window # "None" /\ available /\ Accepts(status) -> RequestAccepted
         [] OTHER -> RequestRejected

(* Authorize.conf: the verdict is cached for the tag that is idTag now. *)
AuthorizeConf(status, expiry) ==
    /\ calls # <<>>
    /\ calls' = Tail(calls)
    /\ AddEntry([tag |-> idTag, status |-> status, expiry |-> expiry])
    /\ told' = [told EXCEPT ![Head(calls)] = status]
    /\ mixed' = (mixed \/ idTag # Head(calls))
    /\ OnAuthorizeResponse(Head(calls), TRUE, status)
    /\ UNCHANGED <<lookup, refusal, idTag, lost>>

(* Authorize.conf without idTagInfo *)
AuthorizeConfMalformed ==
    /\ calls # <<>>
    /\ calls' = Tail(calls)
    /\ OnAuthorizeResponse(Head(calls), FALSE, "Blocked")
    /\ UNCHANGED <<cacheVars, lookup, refusal, idTag, told, mixed, lost>>

(* onAuthCacheLookupSucc: accepts what idTag has become meanwhile. *)
AuthCacheLookupSucc ==
    /\ lookup # NoTag
    /\ lookup' = NoTag
    /\ stray' = (stray \/ (window # "None" /\ asked.tag # lookup))
    /\ IF window = "None" THEN NobodyWaits ELSE RequestAccepted
    /\ UNCHANGED <<cacheVars, calls, refusal, idTag, told, mixed, lost>>

(* onOcppAuthorizeReqCannotSend *)
CannotSend(t) ==
    /\ stray' = (stray \/ (window # "None" /\ asked.tag # t))
    /\ IF window = "None" THEN NobodyWaits ELSE RequestRejected

AuthOfflineSignal ==
    /\ refusal # NoTag
    /\ refusal' = NoTag
    /\ CannotSend(refusal)
    /\ UNCHANGED <<cacheVars, calls, lookup, idTag, told, mixed, lost>>

(* A call leaves the queue without an answer: with the connection, which   *)
(* is signalled, or as CallError or after its retries, which is not.       *)
AuthorizeCallLost(signalled) ==
    /\ calls # <<>>
    /\ calls' = Tail(calls)
    /\ IF signalled THEN CannotSend(Head(calls)) ELSE NobodyWaits /\ UNCHANGED stray
    /\ UNCHANGED <<cacheVars, lookup, refusal, idTag, told, mixed, lost>>

-----------------------------------------------------------------------------
(* The rest of the program, and the power *)

(* RmtStartTxExec::go: RemoteStartTransaction.req for an idle charger *)
RemoteStart(t) ==
    /\ session = NoTag
    /\ idTag' = t
    /\ StartCharge(t)
    /\ UNCHANGED <<cacheVars, callVars, told, stray, mixed, lost>>

(* The charging ends otherwise. *)
SessionEnds ==
    /\ session # NoTag
    /\ StopCharge
    /\ UNCHANGED <<cacheVars, callVars, idTag, told, stray, mixed, lost>>

(* StartTransaction.conf or StopTransaction.conf for a session of tag t *)
TransactionConf(t, status) ==
    /\ AddEntry([tag |-> t, status |-> status, expiry |-> "none"])
    /\ told' = [told EXCEPT ![t] = status]
    /\ UNCHANGED <<callVars, idTag, session, requestVars, asked,
                   stray, mixed, lost>>

(* The program starts again; a write of the cache may have been cut, and   *)
(* what is left does not load. The session is not resumed here.            *)
Restart ==
    /\ \/ cacheFile' = cacheFile
       \/ flushTimer /\ cacheFile' = <<>>
    /\ cache' = cacheFile'
    /\ lost' = (lost \/ cacheFile # cache)
    /\ flushTimer' = FALSE
    /\ calls' = <<>> /\ lookup' = NoTag /\ refusal' = NoTag
    /\ idTag' = NoTag
    /\ StopCharge
    /\ UNCHANGED <<told, stray, mixed>>

PowerFailure == Restart

(* closeTemporaryMessage throws, and nobody catches it. *)
Crash ==
    /\ closings > 0 /\ reader # "RetryMessage"
    /\ Restart

-----------------------------------------------------------------------------
Next ==
    \/ FlushCache \/ ClearCache \/ TimePasses
    \/ OpenPaymentWindow \/ ClosePaymentWindow \/ CloseTemporaryMessage
    \/ \E t \in Tag, listed \in Status \cup {Unknown}, online \in BOOLEAN :
            CardToStart(t, listed, online)
    \/ \E t \in Tag, online \in BOOLEAN : CardToStop(t, online)
    \/ \E t \in Tag : RemoteStart(t)
    \/ \E status \in Status, expiry \in {"none", "ahead"} : AuthorizeConf(status, expiry)
    \/ AuthorizeConfMalformed
    \/ AuthCacheLookupSucc \/ AuthOfflineSignal
    \/ \E signalled \in BOOLEAN : AuthorizeCallLost(signalled)
    \/ SessionEnds
    \/ \E t \in Tag, status \in Status : TransactionConf(t, status)
    \/ PowerFailure \/ Crash

Spec == Init /\ [][Next]_vars

-----------------------------------------------------------------------------
(* A tag is valid in the cache only if the last verdict of the CS on this  *)
(* very tag was valid: neither making room, expiry nor a torn file changes *)
(* that. It fails once a verdict is cached for the tag that idTag has      *)
(* become since the question (Authorize.conf), and after verdicts not yet  *)
(* on file are lost.                                                       *)
CacheMatchesVerdict ==
    mixed \/ lost
    \/ \A i \in DOMAIN cache : cache[i].status \in Valid => told[cache[i].tag] \in Valid

(* An answer starts a charge only under a tag the CS's last verdict        *)
(* accepts (its verdict when the card was read, if the cache answers):     *)
(* through cache, expiry, lost and late answers, provided that each has    *)
(* reached the request it was for, as neither onOcppAuthorizeResponse nor  *)
(* onAuthCacheLookupSucc looks at the tag.                                 *)
StartedByApproved ==
    [][ session = NoTag /\ session' # NoTag /\ callVars' # callVars
        /\ ~(stray' \/ mixed' \/ lost')
        => {asked.verdict, told'[session']} \cap Valid # {} ]_vars

(* A temporary message has one timer, which finds it still shown: two      *)
(* rejections in a row would end the program (closeTemporaryMessage        *)
(* throws). They come only of an answer to a request that did not ask.     *)
MessageClosedOnce ==
    stray \/ closings = (IF reader = "RetryMessage" THEN 1 ELSE 0)
=============================================================================
