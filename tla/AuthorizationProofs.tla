------------------------ MODULE AuthorizationProofs -------------------------
(***************************************************************************)
(* Proofs about Authorization, for every set of tags and verdicts, any     *)
(* size of the cache and any number of Authorize calls under way: the      *)
(* types, what the cache says of a tag, that each temporary message has    *)
(* one timer, and under which tag an answer starts a charge.               *)
(***************************************************************************)
EXTENDS Authorization, SelectionsProofs

(* The file was a cache once. *)
CacheFileFits == Len(cacheFile) <= MaxCacheEntries

(* Each timer for a message comes of a card or of an answer, and the next  *)
(* card is read only after the last message is gone.                       *)
CallsUnderWay ==
    LET refusals == IF refusal = NoTag THEN 0 ELSE 1 IN
    /\ Len(calls) <= MaxUnderWay
    /\ closings + Len(calls) + refusals <= MaxUnderWay + 1
    /\ reader \in {"PresentCard", "PresentCardAgain"} => closings + Len(calls) <= MaxUnderWay

(* A request waits for an answer only with its reader in CardCaptured.     *)
AskedWhileCaptured == asked.tag # NoTag => reader = "CardCaptured"

(* The cache has answered for a tag on which the CS's last verdict was     *)
(* valid when the card was read.                                           *)
LookupApproved ==
    mixed \/ lost
    \/ (lookup # NoTag /\ asked.tag = lookup => asked.verdict \in Valid)

(* A question is asked with its tag in idTag, where some tag stays.        *)
QuestionHasTag == calls # <<>> \/ lookup # NoTag => idTag # NoTag

IInv ==
    /\ TypeOK
    /\ CacheFileFits
    /\ QuestionHasTag
    /\ CallsUnderWay
    /\ AskedWhileCaptured
    /\ MessageClosedOnce
    /\ CacheMatchesVerdict
    /\ LookupApproved

-----------------------------------------------------------------------------
(* The cache *)

(* Making room leaves some of the entries, and room. *)
LEMMA FreedProperties ==
    ASSUME TypeOK, NEW left \in Freed
    PROVE  /\ left \in Seq(Entry)
           /\ Len(left) < MaxCacheEntries
           /\ \A i \in DOMAIN left : \E j \in DOMAIN cache : left[i] = cache[j]
<1> DEFINE V == {e \in Entry : e.status \in Valid}
           valids == Selected(cache, V)
<1>1. /\ valids \in Seq(Entry)
      /\ Len(valids) <= Len(cache)
      /\ \A j \in DOMAIN valids : \E k \in DOMAIN cache : valids[j] = cache[k]
  <2>1. cache \in Seq(Entry)
    BY DEF TypeOK
  <2> HIDE DEF V
  <2> QED
    BY <2>1, SelectedProperties, SelectedFrom
<1>2. PICK from \in Nat \ {0} :
        /\ left = SubSeq(valids, from, Len(valids))
        /\ from <= Len(valids) + 1
        /\ Len(valids) < MaxCacheEntries \/ from >= 2
  <2> HIDE DEF V
  <2>1. Len(valids) \in Nat
    BY <1>1, LenProperties
  <2>2. /\ \E from \in IF Len(valids) < MaxCacheEntries THEN {1} ELSE 2..(Len(valids) + 1) :
              left = SubSeq(valids, from, Len(valids))
    BY DEF Freed, V
  <2> QED
    BY <2>1, <2>2, AuthorizationAssumption
<1> HIDE DEF valids
<1>3. /\ Len(valids) \in Nat /\ DOMAIN valids = 1..Len(valids)
      /\ \A i \in 1..Len(valids) : valids[i] \in Entry
      /\ Len(cache) \in Nat /\ Len(cache) <= MaxCacheEntries
  BY <1>1, LenProperties, ElementOfSeq DEF TypeOK
<1>4. /\ left \in Seq(Entry)
      /\ Len(left) = IF from <= Len(valids) THEN Len(valids) - from + 1 ELSE 0
      /\ \A i \in 1 .. Len(valids) - from + 1 : left[i] = valids[from + i - 1]
  <2>1. \A i \in from..Len(valids) : valids[i] \in Entry
    BY <1>2, <1>3
  <2> QED
    BY <1>2, <1>3, <2>1, SubSeqProperties
<1>5. Len(left) < MaxCacheEntries
  BY <1>1, <1>2, <1>3, <1>4, AuthorizationAssumption
<1>6. ASSUME NEW i \in DOMAIN left
      PROVE  \E j \in DOMAIN cache : left[i] = cache[j]
  <2>1. Len(left) \in Nat /\ DOMAIN left = 1..Len(left)
    BY <1>4, LenProperties
  <2>2. left[i] = valids[from + i - 1] /\ from + i - 1 \in DOMAIN valids
    BY <1>2, <1>3, <1>4, <2>1
  <2> QED
    BY <1>1, <2>2
<1> QED
  BY <1>4, <1>5, <1>6

(* A new entry replaces those of its tag. *)
LEMMA InsertedProperties ==
    ASSUME NEW entries \in Seq(Entry), NEW entry \in Entry, Len(entries) < MaxCacheEntries
    PROVE  LET new == Inserted(entries, entry) IN
           /\ new \in Seq(Entry)
           /\ Len(new) <= MaxCacheEntries
           /\ \A i \in DOMAIN new :
                 \/ new[i] = entry
                 \/ /\ new[i].tag # entry.tag
                    /\ \E j \in DOMAIN entries : new[i] = entries[j]
<1> DEFINE O == {e \in Entry : e.tag # entry.tag}
           others == Selected(entries, O)
           new == Inserted(entries, entry)
<1>1. /\ others \in Seq(Entry)
      /\ Len(others) <= Len(entries)
      /\ \A j \in DOMAIN others : others[j] \in O /\ \E k \in DOMAIN entries : others[j] = entries[k]
  <2> HIDE DEF O
  <2> QED
    BY SelectedProperties, SelectedFrom
<1>2. new = Append(others, entry)
  BY DEF Inserted
<1> HIDE DEF new, others
<1>3. Len(others) \in Nat /\ DOMAIN others = 1..Len(others) /\ Len(entries) \in Nat
  BY <1>1, LenProperties
<1>4. /\ new \in Seq(Entry)
      /\ Len(new) = Len(others) + 1
      /\ \A i \in 1..Len(others) : new[i] = others[i]
      /\ new[Len(others) + 1] = entry
  BY <1>1, <1>2, AppendProperties
<1>5. Len(new) <= MaxCacheEntries
  BY <1>1, <1>3, <1>4, AuthorizationAssumption
<1>6. ASSUME NEW i \in DOMAIN new
      PROVE  \/ new[i] = entry
             \/ /\ new[i].tag # entry.tag
                /\ \E j \in DOMAIN entries : new[i] = entries[j]
  <2>1. i \in 1..(Len(others) + 1)
    BY <1>4, LenProperties
  <2>2. CASE i = Len(others) + 1
    BY <2>2, <1>4
  <2>3. CASE i # Len(others) + 1
    <3>1. i \in 1..Len(others)
      BY <2>1, <2>3, <1>3
    <3> QED
      BY <3>1, <1>1, <1>3, <1>4
  <2> QED
    BY <2>2, <2>3
<1> QED
  BY <1>4, <1>5, <1>6 DEF new

(* What addEntry makes of the cache. *)
LEMMA AddEntryProperties ==
    ASSUME TypeOK, NEW entry \in Entry, AddEntry(entry)
    PROVE  /\ cache' \in Seq(Entry)
           /\ Len(cache') <= MaxCacheEntries
           /\ \A i \in DOMAIN cache' :
                 \/ cache'[i] = entry
                 \/ /\ cache'[i].tag # entry.tag
                    /\ \E j \in DOMAIN cache : cache'[i] = cache[j]
<1>1. /\ cache \in Seq(Entry) /\ Len(cache) \in Nat /\ Len(cache) <= MaxCacheEntries
      /\ MaxCacheEntries \in Nat
  BY LenProperties, AuthorizationAssumption DEF TypeOK
<1>2. CASE Len(cache) >= MaxCacheEntries
  <2>1. PICK left \in Freed : cache' = Inserted(left, entry)
    BY <1>2 DEF AddEntry
  <2>2. /\ left \in Seq(Entry) /\ Len(left) < MaxCacheEntries
        /\ \A i \in DOMAIN left : \E j \in DOMAIN cache : left[i] = cache[j]
    BY FreedProperties
  <2>3. /\ cache' \in Seq(Entry) /\ Len(cache') <= MaxCacheEntries
        /\ \A i \in DOMAIN cache' :
              \/ cache'[i] = entry
              \/ /\ cache'[i].tag # entry.tag
                 /\ \E j \in DOMAIN left : cache'[i] = left[j]
    BY <2>1, <2>2, InsertedProperties
  <2> QED
    BY <2>2, <2>3
<1>3. CASE ~(Len(cache) >= MaxCacheEntries)
  <2>1. cache' = Inserted(cache, entry)
    BY <1>3 DEF AddEntry
  <2>2. Len(cache) < MaxCacheEntries
    BY <1>1, <1>3
  <2> QED
    BY <1>1, <2>1, <2>2, InsertedProperties
<1> QED
  BY <1>2, <1>3

(* checkValid changes no tag and makes no entry valid.                     *)
LEMMA MarkedProperties ==
    ASSUME TypeOK, NEW t \in Tag
    PROVE  /\ Marked(t) \in Seq(Entry)
           /\ Len(Marked(t)) = Len(cache)
           /\ DOMAIN Marked(t) = DOMAIN cache
           /\ \A i \in DOMAIN cache : /\ Marked(t)[i].tag = cache[i].tag
                                      /\ Marked(t)[i].status \in Valid => Marked(t)[i] = cache[i]
<1>1. /\ cache \in Seq(Entry) /\ Len(cache) \in Nat /\ DOMAIN cache = 1..Len(cache)
      /\ \A i \in DOMAIN cache : cache[i] \in Entry
  BY LenProperties DEF TypeOK
<1>2. "Expired" \in Status /\ "Expired" \notin Valid
  BY AuthorizationAssumption DEF Valid
<1>3. \A i \in DOMAIN cache : /\ Marked(t)[i] \in Entry
                              /\ Marked(t)[i].tag = cache[i].tag
                              /\ Marked(t)[i].status \in Valid => Marked(t)[i] = cache[i]
  BY <1>1, <1>2 DEF Marked, Entry
<1>4. Marked(t) = [i \in 1..Len(cache) |-> Marked(t)[i]]
  BY <1>1 DEF Marked
<1>5. Marked(t) \in [1..Len(cache) -> Entry]
  BY <1>1, <1>3, <1>4
<1>6. Marked(t) \in Seq(Entry)
  BY <1>1, <1>5, SeqDef
<1> QED
  BY <1>1, <1>3, <1>5, <1>6, LenProperties

(* Nor does time. *)
LEMMA AgedProperties ==
    ASSUME NEW entries \in Seq(Entry)
    PROVE  /\ Aged(entries) \in Seq(Entry)
           /\ Len(Aged(entries)) = Len(entries)
           /\ DOMAIN Aged(entries) = DOMAIN entries
           /\ \A i \in DOMAIN entries : /\ Aged(entries)[i].tag = entries[i].tag
                                        /\ Aged(entries)[i].status = entries[i].status
<1>1. /\ Len(entries) \in Nat /\ DOMAIN entries = 1..Len(entries)
      /\ \A i \in DOMAIN entries : entries[i] \in Entry
  BY LenProperties
<1>3. \A i \in DOMAIN entries : /\ Aged(entries)[i] \in Entry
                                /\ Aged(entries)[i].tag = entries[i].tag
                                /\ Aged(entries)[i].status = entries[i].status
  BY <1>1 DEF Aged, Entry
<1>4. Aged(entries) = [i \in 1..Len(entries) |-> Aged(entries)[i]]
  BY <1>1 DEF Aged
<1>5. Aged(entries) \in [1..Len(entries) -> Entry]
  BY <1>1, <1>3, <1>4
<1>6. Aged(entries) \in Seq(Entry)
  BY <1>1, <1>5, SeqDef
<1> QED
  BY <1>1, <1>3, <1>5, <1>6, LenProperties

(* An answer leaves the queue of calls shorter. *)
LEMMA TailOfCalls ==
    ASSUME TypeOK, calls # <<>>
    PROVE  /\ Head(calls) \in Tag /\ Head(calls) # NoTag
           /\ Tail(calls) \in Seq(Tag)
           /\ Len(calls) \in Nat \ {0} /\ Len(Tail(calls)) = Len(calls) - 1
<1>1. calls \in Seq(Tag)
  BY DEF TypeOK
<1>2. /\ Head(calls) \in Tag /\ Tail(calls) \in Seq(Tag)
      /\ Len(Tail(calls)) = Len(calls) - 1
  BY <1>1, HeadTailProperties
<1>3. Len(calls) \in Nat /\ Len(Tail(calls)) \in Nat
  BY <1>1, <1>2, LenProperties
<1> QED
  BY <1>2, <1>3, AuthorizationAssumption

-----------------------------------------------------------------------------
(* The steps, as the invariants see them *)

CacheTypeOK ==
    /\ cache \in Seq(Entry) /\ Len(cache) <= MaxCacheEntries
    /\ cacheFile \in Seq(Entry) /\ Len(cacheFile) <= MaxCacheEntries

LEMMA CacheType ==
    ASSUME TypeOK, CacheFileFits, QuestionHasTag, [Next]_vars
    PROVE  CacheTypeOK'
<1>1. CacheTypeOK
  BY DEF TypeOK, CacheFileFits, CacheTypeOK
<1>2. UNCHANGED <<cache, cacheFile>> => CacheTypeOK'
  BY <1>1 DEF CacheTypeOK
<1>3. ASSUME NEW entry \in Entry, AddEntry(entry)
      PROVE  CacheTypeOK'
  BY <1>1, <1>3, AddEntryProperties DEF AddEntry, CacheTypeOK
<1>4. <<>> \in Seq(Entry) /\ Len(<<>>) = 0
  BY EmptySeq
<1>5. ASSUME Restart
      PROVE  CacheTypeOK'
  <2>1. cacheFile' \in {cacheFile, <<>>} /\ cache' = cacheFile'
    BY <1>5 DEF Restart
  <2>2. CASE cacheFile' = cacheFile
    BY <1>1, <2>1, <2>2 DEF CacheTypeOK
  <2>3. CASE cacheFile' = <<>>
    <3>1. cache' = <<>>
      BY <2>1, <2>3
    <3>2. Len(cache') <= MaxCacheEntries /\ Len(cacheFile') <= MaxCacheEntries
      BY <1>4, <2>3, <3>1, AuthorizationAssumption
    <3> QED
      BY <1>4, <2>3, <3>1, <3>2, Zenon DEF CacheTypeOK
  <2> QED
    BY <2>1, <2>2, <2>3
<1>6. CASE FlushCache
  BY <1>6, <1>1 DEF FlushCache, CacheTypeOK
<1>7. CASE ClearCache
  BY <1>7, <1>1, <1>4, AuthorizationAssumption DEF ClearCache, CacheTypeOK
<1>8. CASE TimePasses
  <2>1. cache' = Aged(cache) /\ cacheFile' = Aged(cacheFile)
    BY <1>8 DEF TimePasses
  <2>2. /\ Aged(cache) \in Seq(Entry) /\ Len(Aged(cache)) <= MaxCacheEntries
        /\ Aged(cacheFile) \in Seq(Entry) /\ Len(Aged(cacheFile)) <= MaxCacheEntries
    BY <1>1, AgedProperties DEF CacheTypeOK
  <2> QED
    BY <2>1, <2>2 DEF CacheTypeOK
<1>9. ASSUME NEW t \in Tag, NEW useAuthCache \in BOOLEAN, NEW online \in BOOLEAN,
             CheckCardAgainstServer(t, useAuthCache, online), UNCHANGED cacheFile
      PROVE  CacheTypeOK'
  BY <1>1, <1>9, MarkedProperties DEF CheckCardAgainstServer, CacheTypeOK
<1>10. ASSUME NEW t \in Tag, NEW listed \in Status \cup {Unknown}, NEW online \in BOOLEAN,
              CardToStart(t, listed, online)
       PROVE  CacheTypeOK'
  BY <1>2, <1>9, <1>10 DEF CardToStart
<1>11. ASSUME NEW t \in Tag, NEW online \in BOOLEAN, CardToStop(t, online)
       PROVE  CacheTypeOK'
  BY <1>2, <1>9, <1>11 DEF CardToStop
<1>12. ASSUME NEW status \in Status, NEW expiry \in {"none", "ahead"},
              AuthorizeConf(status, expiry)
       PROVE  CacheTypeOK'
  <2>1. [tag |-> idTag, status |-> status, expiry |-> expiry] \in Entry
    BY <1>12 DEF Entry, AuthorizeConf, TypeOK, QuestionHasTag
  <2> QED
    BY <2>1, <1>3, <1>12 DEF AuthorizeConf
<1>13. ASSUME NEW t \in Tag, NEW status \in Status, TransactionConf(t, status)
       PROVE  CacheTypeOK'
  <2>1. [tag |-> t, status |-> status, expiry |-> "none"] \in Entry
    BY DEF Entry
  <2> QED
    BY <2>1, <1>3, <1>13 DEF TransactionConf
<1>14. CASE \/ OpenPaymentWindow \/ ClosePaymentWindow \/ CloseTemporaryMessage
            \/ \E t \in Tag : RemoteStart(t)
            \/ AuthorizeConfMalformed \/ AuthCacheLookupSucc \/ AuthOfflineSignal
            \/ \E signalled \in BOOLEAN : AuthorizeCallLost(signalled)
            \/ SessionEnds
            \/ UNCHANGED vars
  BY <1>2, <1>14 DEF OpenPaymentWindow, ClosePaymentWindow, CloseTemporaryMessage, RemoteStart,
     AuthorizeConfMalformed, AuthCacheLookupSucc, AuthOfflineSignal, AuthorizeCallLost,
     SessionEnds, cacheVars, vars
<1> QED
  BY <1>5, <1>6, <1>7, <1>8, <1>10, <1>11, <1>12, <1>13, <1>14
     DEF Next, PowerFailure, Crash

FlagsOK == flushTimer \in BOOLEAN /\ stray \in BOOLEAN /\ mixed \in BOOLEAN /\ lost \in BOOLEAN

LEMMA FlagsType ==
    ASSUME FlagsOK, Next \/ UNCHANGED vars
    PROVE  FlagsOK'
<1>1. Next \/ UNCHANGED vars =>
        /\ flushTimer' \in {flushTimer, TRUE, FALSE}
        /\ stray' = stray \/ stray' \in BOOLEAN
        /\ mixed' = mixed \/ mixed' \in BOOLEAN
        /\ lost' = lost \/ lost' \in BOOLEAN
  BY DEF Next, FlushCache, ClearCache, TimePasses, OpenPaymentWindow, ClosePaymentWindow,
     CloseTemporaryMessage, CardToStart, CardToStop, RemoteStart, AuthorizeConf, AddEntry,
     AuthorizeConfMalformed, AuthCacheLookupSucc, AuthOfflineSignal, AuthorizeCallLost,
     SessionEnds, TransactionConf, PowerFailure, Crash, Restart, OnAuthorizeResponse, CannotSend,
     vars, cacheVars, historyVars
<1> QED
  BY <1>1 DEF FlagsOK

(* The types of what the requests and the calls are made of.               *)
RequestTypeOK ==
    /\ calls \in Seq(Tag)
    /\ closings \in 0..(MaxUnderWay + 1)
    /\ lookup \in Tag \cup {NoTag} /\ refusal \in Tag \cup {NoTag}
    /\ idTag \in Tag \cup {NoTag} /\ session \in Tag \cup {NoTag}
    /\ asked \in [tag: Tag \cup {NoTag}, verdict: Status \cup {Unknown}]
    /\ window \in {"None", "Start", "Stop"}
    /\ reader \in Reader
    /\ told \in [Tag -> Status \cup {Unknown}]

RequestInv == RequestTypeOK /\ QuestionHasTag /\ CallsUnderWay

LEMMA RequestType ==
    ASSUME RequestInv, TypeOK, [Next]_vars
    PROVE  RequestInv'
<1> USE AuthorizationAssumption
<1>1. Len(<<>>) = 0 /\ <<>> \in Seq(Tag)
  BY EmptySeq
<1>2. Len(calls) \in Nat
  BY LenProperties DEF TypeOK
<1>3. ASSUME NEW t \in Tag
      PROVE  /\ Append(calls, t) \in Seq(Tag)
             /\ Len(Append(calls, t)) = Len(calls) + 1
  BY AppendProperties DEF TypeOK
<1> USE DEF RequestInv, RequestTypeOK, QuestionHasTag, CallsUnderWay, Nothing, Reader
<1>4. CASE FlushCache \/ ClearCache \/ TimePasses \/ UNCHANGED vars
  BY <1>4, <1>2 DEF FlushCache, ClearCache, TimePasses, vars, cacheVars, callVars, requestVars,
     historyVars
<1>5. CASE OpenPaymentWindow \/ ClosePaymentWindow \/ CloseTemporaryMessage
  BY <1>5, <1>2 DEF OpenPaymentWindow, ClosePaymentWindow, CloseTemporaryMessage, Close,
     cacheVars, callVars, requestVars, historyVars
<1>6. ASSUME NEW t \in Tag, RemoteStart(t)
      PROVE  RequestInv'
  BY <1>6, <1>2 DEF RemoteStart, StartCharge, cacheVars, callVars
<1>7. CASE SessionEnds
  BY <1>7, <1>2 DEF SessionEnds, StopCharge, Close, cacheVars, callVars
<1>8. ASSUME NEW t \in Tag, NEW status \in Status, TransactionConf(t, status)
      PROVE  RequestInv'
  BY <1>8, <1>2 DEF TransactionConf, callVars, requestVars
<1>9. ASSUME Restart
      PROVE  RequestInv'
  <2>1. /\ calls' = <<>> /\ lookup' = NoTag /\ refusal' = NoTag /\ idTag' = NoTag
        /\ session' = NoTag /\ window' = "None" /\ reader' = "PresentCard" /\ closings' = 0
        /\ asked' = Nothing /\ told' = told
    BY <1>9 DEF Restart, StopCharge, Close
  <2>2. calls' \in Seq(Tag) /\ Len(calls') = 0
    BY <1>1, <2>1, Zenon
  <2> QED
    BY <2>1, <2>2
<1>10. ASSUME NEW t \in Tag, NEW useAuthCache \in BOOLEAN, NEW online \in BOOLEAN,
              CardCanBeRead, CheckCardAgainstServer(t, useAuthCache, online), UNCHANGED told
       PROVE  RequestInv'
  <2>1. /\ idTag' = t /\ asked' = [tag |-> t, verdict |-> told[t]] /\ reader' = "CardCaptured"
        /\ UNCHANGED <<session, window, closings, told>>
        /\ closings + Len(calls) <= MaxUnderWay /\ refusal = NoTag
        /\ t # NoTag
    BY <1>10 DEF CardCanBeRead, NothingDue, CheckCardAgainstServer
  <2>2. \/ lookup' = t /\ UNCHANGED <<calls, refusal>>
        \/ Len(calls) < MaxUnderWay /\ calls' = Append(calls, t) /\ UNCHANGED <<lookup, refusal>>
        \/ refusal' = t /\ UNCHANGED <<calls, lookup>>
    BY <1>10 DEF CheckCardAgainstServer
  <2>3. calls' \in Seq(Tag) /\ lookup' \in Tag \cup {NoTag} /\ refusal' \in Tag \cup {NoTag}
    BY <2>2, <1>3
  <2>4. CallsUnderWay'
    BY <2>1, <2>2, <1>2, <1>3
  <2> QED
    BY <2>1, <2>3, <2>4
<1>11. ASSUME CardCanBeRead, RequestRejected, UNCHANGED <<callVars, idTag, told>>
       PROVE  RequestInv'
  BY <1>11, <1>2 DEF CardCanBeRead, NothingDue, RequestRejected, ShowMessage, callVars
<1>12. ASSUME NEW t \in Tag, NEW listed \in Status \cup {Unknown}, NEW online \in BOOLEAN,
              CardToStart(t, listed, online)
       PROVE  RequestInv'
  <2>1. ASSUME CardCanBeRead, idTag' = t, StartCharge(t), UNCHANGED <<callVars, told>>
        PROVE  RequestInv'
    BY <2>1, <1>2 DEF StartCharge, callVars
  <2> QED
    BY <1>10, <1>11, <1>12, <2>1 DEF CardToStart
<1>13. ASSUME NEW t \in Tag, NEW online \in BOOLEAN, CardToStop(t, online)
       PROVE  RequestInv'
  <2>1. ASSUME CardCanBeRead, idTag' = t, StopCharge, UNCHANGED <<callVars, told>>
        PROVE  RequestInv'
    BY <2>1, <1>2 DEF StopCharge, Close, callVars
  <2> QED
    BY <1>10, <1>11, <1>13, <2>1 DEF CardToStop
<1>14. ASSUME RequestAccepted \/ RequestRejected \/ NobodyWaits,
              /\ \/ calls # <<>> /\ calls' = Tail(calls) /\ UNCHANGED <<lookup, refusal>>
                 \/ lookup # NoTag /\ lookup' = NoTag /\ UNCHANGED <<calls, refusal>>
                    /\ ~RequestRejected
                 \/ refusal # NoTag /\ refusal' = NoTag /\ UNCHANGED <<calls, lookup>>,
              UNCHANGED idTag, told' \in [Tag -> Status \cup {Unknown}]
       PROVE  RequestInv'
  <2> DEFINE refusals == IF refusal = NoTag THEN 0 ELSE 1
  <2>1. /\ calls' \in Seq(Tag) /\ Len(calls') \in Nat
        /\ Len(calls') <= Len(calls)
        /\ Len(calls') + refusals' <= Len(calls) + refusals
        /\ RequestRejected => Len(calls') + refusals' < Len(calls) + refusals
        /\ calls' # <<>> => calls # <<>>
        /\ lookup' \in {lookup, NoTag} /\ refusal' \in {refusal, NoTag}
    <3>1. CASE calls # <<>> /\ calls' = Tail(calls) /\ UNCHANGED <<lookup, refusal>>
      BY <3>1, <1>2, TailOfCalls
    <3>2. CASE lookup # NoTag /\ lookup' = NoTag /\ UNCHANGED <<calls, refusal>> /\ ~RequestRejected
      BY <3>2, <1>2
    <3>3. CASE refusal # NoTag /\ refusal' = NoTag /\ UNCHANGED <<calls, lookup>>
      BY <3>3, <1>2
    <3> QED
      BY <1>14, <3>1, <3>2, <3>3
  <2> HIDE DEF refusals
  <2>2. CASE RequestAccepted
    BY <1>14, <1>2, <2>1, <2>2 DEF RequestAccepted, StartCharge, StopCharge, Close, refusals
  <2>3. CASE RequestRejected
    BY <1>14, <1>2, <2>1, <2>3 DEF RequestRejected, ShowMessage, refusals
  <2>4. CASE NobodyWaits
    BY <1>14, <1>2, <2>1, <2>4 DEF NobodyWaits, requestVars, refusals
  <2> QED
    BY <1>14, <2>2, <2>3, <2>4
<1>15. ASSUME NEW status \in Status, NEW expiry \in {"none", "ahead"}, AuthorizeConf(status, expiry)
       PROVE  RequestInv'
  <2>1. told' \in [Tag -> Status \cup {Unknown}]
    BY <1>15 DEF AuthorizeConf
  <2>2. RequestAccepted \/ RequestRejected \/ NobodyWaits
    BY <1>15 DEF AuthorizeConf, OnAuthorizeResponse
  <2> QED
    BY <1>14, <1>15, <2>1, <2>2 DEF AuthorizeConf
<1>16. CASE AuthorizeConfMalformed
  <2>1. RequestRejected \/ NobodyWaits
    BY <1>16 DEF AuthorizeConfMalformed, OnAuthorizeResponse
  <2> QED
    BY <1>14, <1>16, <2>1 DEF AuthorizeConfMalformed
<1>17. CASE AuthCacheLookupSucc
  <2>1. (RequestAccepted \/ NobodyWaits) /\ ~RequestRejected
    BY <1>17 DEF AuthCacheLookupSucc, RequestAccepted, RequestRejected, NobodyWaits, ShowMessage,
       StartCharge, StopCharge, Close, requestVars
  <2> QED
    BY <1>14, <1>17, <2>1 DEF AuthCacheLookupSucc
<1>18. CASE AuthOfflineSignal
  <2>1. RequestRejected \/ NobodyWaits
    BY <1>18 DEF AuthOfflineSignal, CannotSend
  <2> QED
    BY <1>14, <1>18, <2>1 DEF AuthOfflineSignal
<1>19. ASSUME NEW signalled \in BOOLEAN, AuthorizeCallLost(signalled)
       PROVE  RequestInv'
  <2>1. RequestRejected \/ NobodyWaits
    BY <1>19 DEF AuthorizeCallLost, CannotSend
  <2> QED
    BY <1>14, <1>19, <2>1 DEF AuthorizeCallLost
<1> QED
  BY <1>4, <1>5, <1>6, <1>7, <1>8, <1>9, <1>12, <1>13, <1>15, <1>16, <1>17, <1>18, <1>19
     DEF Next, PowerFailure, Crash

(* An answer that has reached the request it was for finds its reader in   *)
(* CardCaptured, and so no message shown.                                  *)
MessageInv == AskedWhileCaptured /\ MessageClosedOnce

LEMMA MessageStep ==
    ASSUME TypeOK, MessageInv, [Next]_vars
    PROVE  MessageInv'
<1> USE DEF MessageInv, AskedWhileCaptured, MessageClosedOnce, Nothing
<1>1. CASE FlushCache \/ ClearCache \/ TimePasses \/ UNCHANGED vars
  BY <1>1 DEF FlushCache, ClearCache, TimePasses, vars, requestVars, historyVars
<1>2. CASE OpenPaymentWindow \/ ClosePaymentWindow
  BY <1>2 DEF OpenPaymentWindow, ClosePaymentWindow, Close, historyVars
<1>3. CASE CloseTemporaryMessage
  <2>1. UNCHANGED <<asked, stray>> /\ reader = "RetryMessage" /\ reader' = "PresentCardAgain"
        /\ closings' = closings - 1
    BY <1>3 DEF CloseTemporaryMessage, historyVars
  <2> QED
    BY <2>1
<1>4. ASSUME StopCharge \/ (\E t \in Tag : StartCharge(t))
      PROVE  MessageInv'
  BY <1>4 DEF StartCharge, StopCharge, Close
<1>5. ASSUME NEW t \in Tag, RemoteStart(t)
      PROVE  MessageInv'
  BY <1>4, <1>5 DEF RemoteStart
<1>6. CASE SessionEnds
  BY <1>4, <1>6 DEF SessionEnds
<1>7. ASSUME NEW t \in Tag, NEW status \in Status, TransactionConf(t, status)
      PROVE  MessageInv'
  BY <1>7 DEF TransactionConf, requestVars
<1>8. ASSUME Restart
      PROVE  MessageInv'
  BY <1>4, <1>8 DEF Restart
<1>9. ASSUME CardCanBeRead, UNCHANGED stray,
             RequestRejected \/ \E t \in Tag, useAuthCache \in BOOLEAN, online \in BOOLEAN :
                                    CheckCardAgainstServer(t, useAuthCache, online)
      PROVE  MessageInv'
  BY <1>9 DEF CardCanBeRead, RequestRejected, ShowMessage, CheckCardAgainstServer
<1>10. ASSUME NEW t \in Tag, NEW listed \in Status \cup {Unknown}, NEW online \in BOOLEAN,
              CardToStart(t, listed, online)
       PROVE  MessageInv'
  BY <1>4, <1>9, <1>10 DEF CardToStart
<1>11. ASSUME NEW t \in Tag, NEW online \in BOOLEAN, CardToStop(t, online)
       PROVE  MessageInv'
  BY <1>4, <1>9, <1>11 DEF CardToStop
<1>12. ASSUME NEW t \in Tag, t # NoTag,
              stray' = (stray \/ (window # "None" /\ asked.tag # t)),
              \/ window = "None" /\ NobodyWaits
              \/ window # "None" /\ (RequestAccepted \/ RequestRejected)
       PROVE  MessageInv'
  <2>1. CASE window = "None" /\ NobodyWaits
    BY <1>12, <2>1 DEF NobodyWaits, requestVars
  <2>2. CASE RequestAccepted
    <3>1. asked' = Nothing /\ reader' = "PresentCard" /\ closings' = 0
      BY <2>2 DEF RequestAccepted, StartCharge, StopCharge, Close
    <3> QED
      BY <3>1
  <2>3. CASE window # "None" /\ RequestRejected
    <3>1. reader' = "RetryMessage" /\ closings' = closings + 1 /\ asked' = Nothing
      BY <2>3 DEF RequestRejected, ShowMessage
    <3>2. stray' \/ (~stray /\ asked.tag = t)
      BY <1>12, <2>3
    <3>3. CASE stray'
      BY <3>1, <3>3
    <3>4. CASE ~stray /\ asked.tag = t
      <4>1. closings = 0
        BY <1>12, <3>4
      <4> QED
        BY <3>1, <4>1
    <3> QED
      BY <3>2, <3>3, <3>4
  <2> QED
    BY <1>12, <2>1, <2>2, <2>3
<1>13. ASSUME calls # <<>>
       PROVE  Head(calls) \in Tag /\ Head(calls) # NoTag
  BY <1>13, TailOfCalls
<1>14. ASSUME NEW status \in Status, NEW expiry \in {"none", "ahead"}, AuthorizeConf(status, expiry)
       PROVE  MessageInv'
  BY <1>12, <1>13, <1>14 DEF AuthorizeConf, OnAuthorizeResponse
<1>15. CASE AuthorizeConfMalformed
  BY <1>12, <1>13, <1>15 DEF AuthorizeConfMalformed, OnAuthorizeResponse
<1>16. CASE AuthCacheLookupSucc
  <2>1. lookup \in Tag
    BY <1>16 DEF AuthCacheLookupSucc, TypeOK
  <2> QED
    BY <1>12, <1>16, <2>1 DEF AuthCacheLookupSucc
<1>17. CASE AuthOfflineSignal
  <2>1. refusal \in Tag
    BY <1>17 DEF AuthOfflineSignal, TypeOK
  <2> QED
    BY <1>12, <1>17, <2>1 DEF AuthOfflineSignal, CannotSend
<1>18. ASSUME NEW signalled \in BOOLEAN, AuthorizeCallLost(signalled)
       PROVE  MessageInv'
  <2>1. CASE signalled
    BY <1>12, <1>13, <1>18, <2>1 DEF AuthorizeCallLost, CannotSend
  <2>2. CASE ~signalled
    <3>1. NobodyWaits /\ UNCHANGED stray
      BY <1>18, <2>2 DEF AuthorizeCallLost
    <3> QED
      BY <3>1 DEF NobodyWaits, requestVars
  <2> QED
    BY <2>1, <2>2
<1> QED
  BY <1>1, <1>2, <1>3, <1>5, <1>6, <1>7, <1>8, <1>10, <1>11, <1>14, <1>15, <1>16, <1>17, <1>18
     DEF Next, PowerFailure, Crash

(* What the cache says of a tag, the CS said of it.                        *)
VerdictInv == CacheMatchesVerdict /\ LookupApproved

LEMMA VerdictStep ==
    ASSUME TypeOK, QuestionHasTag, VerdictInv, [Next]_vars
    PROVE  VerdictInv'
<1> DEFINE Matches(c, v) == \A i \in DOMAIN c : c[i].status \in Valid => v[c[i].tag] \in Valid
<1>1. mixed \/ lost \/ Matches(cache, told)
  BY DEF VerdictInv, CacheMatchesVerdict
<1>2. mixed' \/ lost' \/ Matches(cache', told') => CacheMatchesVerdict'
  BY DEF CacheMatchesVerdict
<1>3. mixed \/ lost => mixed' \/ lost'
  BY DEF Next, FlushCache, ClearCache, TimePasses, OpenPaymentWindow, ClosePaymentWindow,
     CloseTemporaryMessage, CardToStart, CardToStop, RemoteStart, AuthorizeConf,
     AuthorizeConfMalformed, AuthCacheLookupSucc, AuthOfflineSignal, AuthorizeCallLost,
     SessionEnds, TransactionConf, PowerFailure, Crash, Restart, vars, historyVars
<1>4. mixed' \/ lost' => VerdictInv'
  BY DEF VerdictInv, CacheMatchesVerdict, LookupApproved
<1>5. SUFFICES ASSUME ~mixed, ~lost, ~mixed', ~lost', Matches(cache, told)
               PROVE  VerdictInv'
  BY <1>1, <1>3, <1>4
<1> HIDE DEF Matches
(* The answer of the cache is out, or it is on its way to who has asked.   *)
<1>6. ASSUME lookup' = NoTag \/ (UNCHANGED lookup /\ (UNCHANGED asked \/ asked' = Nothing))
      PROVE  LookupApproved'
  BY <1>5, <1>6, AuthorizationAssumption DEF VerdictInv, LookupApproved, Nothing
<1>7. ASSUME cache' = cache /\ told' = told
      PROVE  CacheMatchesVerdict'
  BY <1>2, <1>5, <1>7
(* A verdict v on tag t is cached and, as it was given, noted in told.     *)
<1>8. ASSUME NEW entry \in Entry, AddEntry(entry), told' = [told EXCEPT ![entry.tag] = entry.status]
      PROVE  CacheMatchesVerdict'
  <2>1. ASSUME NEW i \in DOMAIN cache', cache'[i].status \in Valid
        PROVE  told'[cache'[i].tag] \in Valid
    <3>1. told \in [Tag -> Status \cup {Unknown}] /\ entry.tag \in Tag
      BY DEF TypeOK, Entry
    <3>2. CASE cache'[i] = entry
      BY <1>8, <2>1, <3>1, <3>2
    <3>3. CASE cache'[i] # entry
      <4>1. PICK j \in DOMAIN cache : cache'[i] = cache[j] /\ cache[j].tag # entry.tag
        BY <1>8, <2>1, <3>3, AddEntryProperties
      <4>2. cache[j] \in Entry
        BY ElementOfSeq DEF TypeOK
      <4>3. cache[j].tag \in Tag /\ told[cache[j].tag] \in Valid
        BY <1>5, <2>1, <4>1, <4>2 DEF Matches, Entry
      <4> QED
        BY <1>8, <3>1, <4>1, <4>3
    <3> QED
      BY <3>2, <3>3
  <2> QED
    BY <1>2, <2>1 DEF Matches
<1>9. CASE FlushCache \/ UNCHANGED vars
  BY <1>6, <1>7, <1>9 DEF FlushCache, vars, cacheVars, callVars, historyVars, VerdictInv
<1>10. CASE ClearCache
  <2>1. Matches(cache', told')
    BY <1>10 DEF ClearCache, Matches
  <2>2. UNCHANGED <<lookup, asked>>
    BY <1>10 DEF ClearCache, callVars
  <2> QED
    BY <1>2, <1>6, <2>1, <2>2 DEF VerdictInv
<1>11. CASE TimePasses
  <2>1. Matches(Aged(cache), told)
    BY <1>5, AgedProperties DEF Matches, TypeOK
  <2>2. UNCHANGED <<lookup, asked, told>> /\ cache' = Aged(cache)
    BY <1>11 DEF TimePasses, callVars, historyVars
  <2> QED
    BY <1>2, <1>6, <2>1, <2>2 DEF VerdictInv
<1>12. CASE OpenPaymentWindow \/ ClosePaymentWindow \/ CloseTemporaryMessage
  <2>1. UNCHANGED <<cache, told, lookup>> /\ (UNCHANGED asked \/ asked' = Nothing)
    BY <1>12 DEF OpenPaymentWindow, ClosePaymentWindow, CloseTemporaryMessage, Close,
       cacheVars, callVars, historyVars
  <2> QED
    BY <1>6, <1>7, <2>1 DEF VerdictInv
<1>13. ASSUME UNCHANGED <<cache, told, lookup>>,
              StopCharge \/ (\E t \in Tag : StartCharge(t)) \/ RequestRejected
       PROVE  VerdictInv'
  <2>1. asked' = Nothing
    BY <1>13 DEF StopCharge, StartCharge, RequestRejected, Close
  <2> QED
    BY <1>6, <1>7, <1>13, <2>1 DEF VerdictInv
<1>14. ASSUME NEW t \in Tag, RemoteStart(t)
       PROVE  VerdictInv'
  BY <1>13, <1>14 DEF RemoteStart, cacheVars, callVars
<1>15. CASE SessionEnds
  BY <1>13, <1>15 DEF SessionEnds, cacheVars, callVars
<1>16. ASSUME NEW t \in Tag, NEW status \in Status, TransactionConf(t, status)
       PROVE  VerdictInv'
  <2> DEFINE entry == [tag |-> t, status |-> status, expiry |-> "none"]
  <2>1. entry \in Entry /\ entry.tag = t /\ entry.status = status
    BY DEF Entry
  <2>2. AddEntry(entry) /\ told' = [told EXCEPT ![t] = status] /\ UNCHANGED <<lookup, asked>>
    BY <1>16 DEF TransactionConf, callVars
  <2> HIDE DEF entry
  <2> QED
    BY <1>6, <1>8, <2>1, <2>2 DEF VerdictInv
<1>17. ASSUME Restart
       PROVE  VerdictInv'
  <2>1. cacheFile = cache /\ lookup' = NoTag /\ told' = told
        /\ cacheFile' \in {cacheFile, <<>>} /\ cache' = cacheFile'
    BY <1>5, <1>17 DEF Restart
  <2>2. Matches(<<>>, told)
    BY DEF Matches
  <2> QED
    BY <1>2, <1>5, <1>6, <2>1, <2>2 DEF VerdictInv
<1>18. ASSUME NEW t \in Tag, NEW useAuthCache \in BOOLEAN, NEW online \in BOOLEAN,
              NothingDue, CheckCardAgainstServer(t, useAuthCache, online), UNCHANGED told
       PROVE  VerdictInv'
  <2>1. Matches(Marked(t), told)
    <3>1. \A i \in DOMAIN Marked(t) :
            i \in DOMAIN cache /\ (Marked(t)[i].status \in Valid => Marked(t)[i] = cache[i])
      BY MarkedProperties
    <3> QED
      BY <1>5, <3>1 DEF Matches
  <2>2. CacheMatchesVerdict'
    BY <1>2, <1>5, <1>18, <2>1 DEF CheckCardAgainstServer
  <2>3. CASE CheckValid(t)
    <3>1. PICK i \in DOMAIN cache : cache[i].tag = t /\ cache[i].status \in Valid
      <4>1. Lookup(t) \in DOMAIN cache /\ cache[Lookup(t)].tag = t
        BY <2>3 DEF CheckValid, Holds, Indices, Lookup
      <4> QED
        BY <2>3, <4>1 DEF CheckValid, Holds
    <3>2. told[t] \in Valid
      BY <1>5, <3>1 DEF Matches
    <3>3. asked' = [tag |-> t, verdict |-> told[t]]
      BY <1>18 DEF CheckCardAgainstServer
    <3>4. LookupApproved'
      BY <3>2, <3>3 DEF LookupApproved
    <3> QED
      BY <2>2, <3>4 DEF VerdictInv
  <2>4. CASE ~CheckValid(t)
    <3>1. lookup' = NoTag
      BY <1>18, <2>4 DEF NothingDue, CheckCardAgainstServer
    <3> QED
      BY <1>6, <2>2, <3>1 DEF VerdictInv
  <2> QED
    BY <2>3, <2>4
<1>19. ASSUME NEW t \in Tag, NEW listed \in Status \cup {Unknown}, NEW online \in BOOLEAN,
              CardToStart(t, listed, online)
       PROVE  VerdictInv'
  BY <1>13, <1>18, <1>19 DEF CardToStart, CardCanBeRead, callVars
<1>20. ASSUME NEW t \in Tag, NEW online \in BOOLEAN, CardToStop(t, online)
       PROVE  VerdictInv'
  BY <1>13, <1>18, <1>20 DEF CardToStop, CardCanBeRead, callVars
<1>21. ASSUME RequestAccepted \/ RequestRejected \/ NobodyWaits
       PROVE  UNCHANGED asked \/ asked' = Nothing
  BY <1>21 DEF RequestAccepted, RequestRejected, NobodyWaits, StartCharge, StopCharge, Close
<1>22. ASSUME NEW status \in Status, NEW expiry \in {"none", "ahead"}, AuthorizeConf(status, expiry)
       PROVE  VerdictInv'
  <2> DEFINE entry == [tag |-> idTag, status |-> status, expiry |-> expiry]
  <2>1. entry \in Entry /\ entry.tag = idTag /\ entry.status = status
    BY <1>22 DEF Entry, AuthorizeConf, TypeOK, QuestionHasTag
  <2>2. /\ AddEntry(entry) /\ told' = [told EXCEPT ![Head(calls)] = status]
        /\ UNCHANGED lookup /\ mixed' = (mixed \/ idTag # Head(calls))
        /\ RequestAccepted \/ RequestRejected \/ NobodyWaits
    BY <1>22 DEF AuthorizeConf, OnAuthorizeResponse
  <2>3. idTag = Head(calls)
    BY <1>5, <2>2
  <2> HIDE DEF entry
  <2>4. told' = [told EXCEPT ![entry.tag] = entry.status]
    BY <2>1, <2>2, <2>3
  <2>5. CacheMatchesVerdict'
    BY <1>8, <2>1, <2>2, <2>4
  <2> QED
    BY <1>6, <1>21, <2>2, <2>5 DEF VerdictInv
<1>23. CASE \/ AuthorizeConfMalformed \/ AuthCacheLookupSucc \/ AuthOfflineSignal
            \/ \E signalled \in BOOLEAN : AuthorizeCallLost(signalled)
  <2>1. /\ UNCHANGED <<cache, told>>
        /\ UNCHANGED lookup \/ lookup' = NoTag
        /\ RequestAccepted \/ RequestRejected \/ NobodyWaits
    BY <1>23 DEF AuthorizeConfMalformed, AuthCacheLookupSucc, AuthOfflineSignal, AuthorizeCallLost,
       OnAuthorizeResponse, CannotSend, cacheVars
  <2> QED
    BY <1>6, <1>7, <1>21, <2>1 DEF VerdictInv
<1> QED
  BY <1>9, <1>10, <1>11, <1>12, <1>14, <1>15, <1>16, <1>17, <1>19, <1>20, <1>22, <1>23
     DEF Next, PowerFailure, Crash

-----------------------------------------------------------------------------
(* The theorems *)

THEOREM AuthorizationInvariant == Spec => []IInv
<1> USE AuthorizationAssumption
<1>1. Init => IInv
  <2> SUFFICES ASSUME Init PROVE IInv
    OBVIOUS
  <2>1. <<>> \in Seq(Entry) /\ <<>> \in Seq(Tag) /\ Len(<<>>) = 0 /\ DOMAIN <<>> = {}
    BY EmptySeq
  <2>2. TypeOK /\ CacheFileFits
    <3>1. 0 \in 0..(MaxUnderWay + 1) /\ 0 <= MaxCacheEntries
      OBVIOUS
    <3>2. [t \in Tag |-> Unknown] \in [Tag -> Status \cup {Unknown}]
      OBVIOUS
    <3>3. Len(cache) <= MaxCacheEntries /\ cache \in Seq(Entry)
          /\ cacheFile \in Seq(Entry) /\ calls \in Seq(Tag) /\ CacheFileFits
      BY <2>1, <3>1 DEF Init, CacheFileFits
    <3> QED
      BY <3>1, <3>2, <3>3 DEF Init, TypeOK, Nothing, Reader
  <2>3. QuestionHasTag /\ CallsUnderWay
    BY <2>1 DEF Init, QuestionHasTag, CallsUnderWay
  <2>4. AskedWhileCaptured /\ MessageClosedOnce /\ LookupApproved
    BY DEF Init, AskedWhileCaptured, MessageClosedOnce, LookupApproved, Nothing
  <2>5. CacheMatchesVerdict
    BY <2>1 DEF Init, CacheMatchesVerdict
  <2> QED
    BY <2>2, <2>3, <2>4, <2>5 DEF IInv
<1>2. IInv /\ [Next]_vars => IInv'
  <2> SUFFICES ASSUME IInv, [Next]_vars PROVE IInv'
    OBVIOUS
  <2>1. CacheTypeOK'
    BY CacheType DEF IInv
  <2>2. FlagsOK'
    BY FlagsType DEF IInv, TypeOK, FlagsOK
  <2>3. RequestInv'
    BY RequestType DEF IInv, TypeOK, RequestInv, RequestTypeOK
  <2>4. MessageInv'
    BY MessageStep DEF IInv, MessageInv
  <2>5. VerdictInv'
    BY VerdictStep DEF IInv, VerdictInv
  <2>6. TypeOK'
    BY <2>1, <2>2, <2>3 DEF TypeOK, CacheTypeOK, FlagsOK, RequestInv, RequestTypeOK
  <2> QED
    BY <2>1, <2>3, <2>4, <2>5, <2>6
       DEF IInv, CacheTypeOK, CacheFileFits, RequestInv, MessageInv, VerdictInv
<1> QED
  BY <1>1, <1>2, PTL DEF Spec

(* TypeOK. The cache and its file never outgrow MaxCacheEntries, and there *)
(* are never more timers for a message than calls and cards to show one.   *)
THEOREM AuthorizationTypeCorrect == Spec => []TypeOK
<1>1. IInv => TypeOK
  BY DEF IInv
<1> QED
  BY <1>1, AuthorizationInvariant, PTL

(* The cache says a tag is valid only if the CS last said so of that tag.  *)
THEOREM AuthorizationCacheMatchesVerdict == Spec => []CacheMatchesVerdict
<1>1. IInv => CacheMatchesVerdict
  BY DEF IInv
<1> QED
  BY <1>1, AuthorizationInvariant, PTL

(* closeTemporaryMessage finds the message it is to close, as long as      *)
(* every answer has come to the request it was for.                        *)
THEOREM AuthorizationMessageClosedOnce == Spec => []MessageClosedOnce
<1>1. IInv => MessageClosedOnce
  BY DEF IInv
<1> QED
  BY <1>1, AuthorizationInvariant, PTL

(* An answer starts a charge only under a tag the CS accepts: an answer of *)
(* the CS that has come to its request is about idTag, and an answer of    *)
(* the cache was the CS's verdict when the card was read.                  *)
THEOREM AuthorizationStartedByApproved == Spec => StartedByApproved
<1> DEFINE Approved ==
      session = NoTag /\ session' # NoTag /\ callVars' # callVars /\ ~(stray' \/ mixed' \/ lost')
      => {asked.verdict, told'[session']} \cap Valid # {}
<1>1. IInv /\ [Next]_vars => [Approved]_vars
  <2> SUFFICES ASSUME IInv, Next,
                      session = NoTag, session' # NoTag, callVars' # callVars,
                      ~stray', ~mixed', ~lost'
               PROVE  {asked.verdict, told'[session']} \cap Valid # {}
    OBVIOUS
  <2>1. CASE FlushCache \/ ClearCache \/ TimePasses
    BY <2>1 DEF FlushCache, ClearCache, TimePasses
  <2>2. CASE OpenPaymentWindow \/ ClosePaymentWindow \/ CloseTemporaryMessage
    BY <2>2 DEF OpenPaymentWindow, ClosePaymentWindow, CloseTemporaryMessage
  <2>3. ASSUME NEW t \in Tag, NEW listed \in Status \cup {Unknown}, NEW online \in BOOLEAN,
               CardToStart(t, listed, online)
        PROVE  FALSE
    BY <2>3 DEF CardToStart, RequestRejected, CheckCardAgainstServer
  <2>4. ASSUME NEW t \in Tag, NEW online \in BOOLEAN, CardToStop(t, online)
        PROVE  FALSE
    BY <2>4 DEF CardToStop, RequestRejected, CheckCardAgainstServer, StopCharge
  <2>5. ASSUME NEW t \in Tag, RemoteStart(t)
        PROVE  FALSE
    BY <2>5 DEF RemoteStart
  <2>6. ASSUME NEW t \in Tag, NEW status \in Status, TransactionConf(t, status)
        PROVE  FALSE
    BY <2>6 DEF TransactionConf
  <2>7. ASSUME Restart \/ SessionEnds
        PROVE  FALSE
    BY <2>7 DEF Restart, SessionEnds, StopCharge
  <2>8. ASSUME RequestRejected \/ NobodyWaits
        PROVE  FALSE
    BY <2>8 DEF RequestRejected, NobodyWaits
  <2>9. ASSUME NEW status \in Status, NEW expiry \in {"none", "ahead"}, AuthorizeConf(status, expiry)
        PROVE  told'[session'] \in Valid
    <3>1. RequestAccepted /\ Accepts(status) /\ told' = [told EXCEPT ![Head(calls)] = status]
          /\ idTag = Head(calls)
      BY <2>8, <2>9 DEF AuthorizeConf, OnAuthorizeResponse
    <3>2. session' = idTag /\ status \in Valid
      BY <3>1 DEF RequestAccepted, StartCharge, StopCharge, Accepts, Valid
    <3>3. Head(calls) \in Tag /\ told \in [Tag -> Status \cup {Unknown}]
      BY <2>9, TailOfCalls DEF AuthorizeConf, IInv, TypeOK
    <3> QED
      BY <3>1, <3>2, <3>3
  <2>10. CASE AuthorizeConfMalformed \/ AuthOfflineSignal
    BY <2>8, <2>10 DEF AuthorizeConfMalformed, OnAuthorizeResponse, AuthOfflineSignal, CannotSend
  <2>11. ASSUME NEW signalled \in BOOLEAN, AuthorizeCallLost(signalled)
         PROVE  FALSE
    BY <2>8, <2>11 DEF AuthorizeCallLost, CannotSend
  <2>12. CASE AuthCacheLookupSucc
    <3>1. RequestAccepted /\ window # "None" /\ asked.tag = lookup /\ lookup # NoTag /\ ~mixed /\ ~lost
      BY <2>8, <2>12 DEF AuthCacheLookupSucc
    <3>2. asked.verdict \in Valid
      BY <3>1 DEF IInv, LookupApproved
    <3> QED
      BY <3>2
  <2> QED
    BY <2>1, <2>2, <2>3, <2>4, <2>5, <2>6, <2>7, <2>9, <2>10, <2>11, <2>12
       DEF Next, PowerFailure, Crash
<1> QED
  BY <1>1, AuthorizationInvariant, PTL DEF Spec, StartedByApproved
=============================================================================
