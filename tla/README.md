# Verification of the AC charger controller

The program under `src/` is the Qt application that runs on the Raspberry Pi of an
AC charger for electric vehicles. It talks to the charger board over a serial line,
to a central system (CS) over OCPP 1.6 on a WebSocket, and to the user over a touch
screen and an RFID reader. This directory holds TLA+ models of its core, the
TLC configurations that check them, and machine-checked proofs.

## 1. Inventory

The core is single-threaded: the Qt event loop runs one handler at a time, signals
are synchronous calls, and `QTimer::singleShot(0, ...)` defers a step to a later turn
of the loop. The serial line, the RFID reader and the distance sensor have threads of
their own. So what is hard is not data races but *which handler comes next*: timers,
bytes written, answers, socket states, the user and the power switch come in any order.

| component | state | operations | hard part |
|---|---|---|---|
| `OCPP/ocppoutmessagequeue` | two lists to send, two lists sent, state, one timer with three meanings, retry counts | `add`, `addReplaceExisting`, timeouts, `bytesWritten`, answers, socket states | timeouts racing answers, lost connections in any state |
| `evchargingtransaction(registry)` | list of transactions not yet reported, static `currentTransc`, sampling timer, file of finished ones | start, resume, cancel, finish, sample, remove, save, load | restarts, a torn file, two sessions at once |
| `OCPP/ocpptransactionmessagerequester` | progress, cursor, last confirmed meter value, zero-delay timers | `process`, `nextTransaction`, answers, signals of the registry | a wake-up lost or made twice, session ending meanwhile |
| `mainwindow` | connection retry timer, pending unavailability, reboot pending | the `Blink` tick twice a second; connects the signals of all others | order of calls inside a handler |
| `ccharger` | last report of the board, command, status, suspension, booking, record of the session in progress | `StatusManage` on every tick; commands of CS, user and windows | the board obeys later, and reports later; restart, resuming |
| `OCPP/ocppclient` | connection state, registration, heartbeat, online flag | boot, heartbeat, CS calls, answers | late answers, heartbeat loss |
| `authorizationcache`, `localauthlist(db)` | cached and listed tags | add, look up, expire, free space, full/differential update | limits, expiry, a failing step of an update |
| `firmwareupdatescheduler`, `softwaredownloader`, the install script | download state on file, retry count, marker and result files | schedule, download, prepare, install, report | a power failure between any two steps, a second request meanwhile |
| `chargerrequestrfid`, `rfidreaderwindow` | the request under way | card read, Authorize answer, fallback | answer after timeout |
| windows (`*win*.cpp`) | which is shown | buttons, and timers that press them | each acts on the charger from what it knows of the last tick |
| `ccomportthreadv2`, `crfidthread` | device threads | exchange with board and reader | command handed over to a thread |
| messages, configuration, record files, platform | - | formatting, I/O | - |
| `libnfc`, `qrcodegen`, `webadmin`, `install` | vendored, generated or separate | - | - |

How they interact: the board's status makes `CCharger` emit
`chargeCommandAccepted`, `chargeCommandCanceled` and `chargeFinished`; `MainWindow`
turns them into registry operations; the registry signals the requester; the requester
makes one call at a time through `OcppClient`, which puts it in the out-message queue;
the answer comes back through `OcppClient` to the queue and, as a signal, to the
requester; `transactionCompleted` and `transactionError` go to `MainWindow`, which
removes the transaction and asks for the next. A card goes from the reader window to
`ChargerRequestRfid`, which asks the local list, the cache or the CS. The CS's own calls reach
`OcppClient`, which commands `CCharger`, the firmware scheduler and the local list.

What would make each part correct: the queue neither loses, doubles nor reorders
transactional calls and is never left waiting for nothing; the registry has every ended
and unreported session, on file too; the requester reports each in full and in order;
the CS is told of an
end only when there was one; a charge that goes on has a transaction, and an unavailable connector
does not charge; the client's state follows its socket, and it never stops trying to connect; charging starts
under a tag that was accepted, and the cache and the list say what the CS said; an update is pursued,
and reported as what happened.

## 2. Modules

| module | models |
|---|---|
| `OcppOutMessageQueue` | `OCPP/ocppoutmessagequeue.cpp` whole, with the socket as its environment; the mapping to `TransactionalOutbox` |
| `TransactionalOutbox` | abstract: what the queue promises about transactional calls |
| `MCOutMessageQueue` | instances for TLC |
| `OcppOutMessageQueueProofs` | theorems about the queue |
| `EvChargingTransactionRegistry` | `evchargingtransaction.cpp`, `evchargingtransactionregistry.cpp`: state and operations |
| `OcppTransactionMessageRequester` | `OCPP/ocpptransactionmessagerequester.cpp`: state and handlers |
| `TransactionReporting` | the two above composed by `MainWindow`'s handlers, with connector, progress record, calls and CS |
| `Selections` | the elements of a list that are in a set: what the erase-remove loops of registry and cache leave |
| `MCTransactionReporting` | instances for TLC |
| `SelectionsProofs`, `TransactionReportingProofs` | lemmas about such lists; theorems about reporting |
| `ChargeProgressRecord` | the two files of the session in progress: `ModifyRecord`, `ReadRecord`, `ClearRecord` of `ccharger.cpp`, their callers, power failures |
| `MCChargeProgressRecord` | instances for TLC |
| `ChargeProgressRecordProofs` | theorems about the record |
| `OcppConnection` | `OCPP/ocppclient.cpp` as a connection: states, timers, boot notification, heartbeat, online flag; the retry timer and the connecting of `mainwindow.cpp` |
| `MCOcppConnection`, `OcppConnectionProofs` | instances; theorems about the connection |
| `Authorization` | `chargerrequestrfid.cpp`, `authorizationcache.cpp`, the reader window and the client's part in `Authorize` |
| `MCAuthorization`, `AuthorizationProofs` | instances; theorems about authorization |
| `FirmwareUpdate` | scheduler, downloader, state file, reports, reboot, and the script that prepares and installs |
| `LocalAuthList` | items and version of the local list under full and differential updates |
| `CsUpdates` | the two above in one program that a power failure stops |
| `MCCsUpdates`, `CsUpdatesProofs` | instances; theorems about both |
| `ChargerControl` | board, `CCharger::StatusManage` and commands, `Blink`, the windows of a charge, remote start and stop, availability |
| `MCChargerControl`, `ChargerControlProofs` | instances; theorems about types, pauses, unavailability, and that a charge has a transaction |

### The out-message queue

One action per handler and branch. `st`, `csOnline`, `currentQ`, `outQ`, `sentQ`,
`retryCnt`, `waitReplyRecordMap` are the members of the same name; `sendMsgTimer` is the
timer with the purpose it was started for; `processPending` counts the zero-delay timers
that will call `processNextMessage`. The environment is the socket (`ws`, bytes not yet
written `txBuffer`) and the calls the CS has not yet answered (`atCS`). `fate`, `written`,
`givenUp` are history.

`Erased` is the pair of loops that erase at an iterator and still increment it, so that
of a run of consecutive matches every second one survives.

Timing assumption: a zero-delay timer fires before a reconnection, which starts from a
timer of at least a second (`WsConnecting`).

### Transaction reporting

The registry and the requester are modules of operators over the next state, because
the program runs them inside handlers: one `chargeFinished` signal marks the
transaction, appends to the file, signals the requester and schedules its next step, all
in one turn of the event loop. `TransactionReporting` makes such a turn one action.

* `trans` holds every transaction object since the start-up, and `transItems` (the
  registry's list), `currentTransc` and `curTrans` (the requester's cursor) are
  references to them. The code keeps such references apart from the list, and that is
  where some of its troubles come from.
* `Process` is one firing of a zero-delay timer; more than one may be under way.
* `calls` is the out-message queue as the outbox it was shown to be: first in, first
  out, and the first call leaves with an answer (`Reply`) or without the requester being
  told (`ReplyNotReported`: CallError, malformed answer, discarded call).
* `csTrans` is what the CS knows: last meter value and whether stopped, by transaction id.
* `connector` and `progressFile` are the part of `CCharger` that starts and ends sessions and
  the record from which a session can be resumed, here one atomic file: that the two
  alternating files make it so, and when they do not, is `ChargeProgressRecord`.
* `Restart` loses everything but the files; the power may fail while the end of
  a session is being appended (`TornAppend`). `RestartResuming` resumes the recorded session.

Abstractions: a session stands for its start time, a meter value for its index; the
connector type is not WallSocket (for which `nextTransaction` never does anything), the
record's remaining time is positive, and a CS confirms with the idTag of the request.
The JSON copy handed to a script, `updateTransactionId` and `remove` (never called) and
the change of the sampling interval are left out.

### The record of the session in progress

While a session goes on, the charging window saves a record every half a minute, in turn to
`ChargeRecord.$` and `ChargeRecordBackup.$`. At start-up the newer whole one decides whether
the session goes on, and both are removed. `file` holds the two files, `control` is the toggle
`chrgProgressCsvPathfilecontrol`, and `step` what the program is in the middle of: a save is the
opening, which empties the file, and the writing; a clearing is two removals; `PowerFailure` may come
before, between and after them. A save may fail unnoticed (`OpenFails`, `WriteFails`), and the CS may
set the clock back (`SetClockBack`). `disturbed` collects these and the leftovers of a
start-up, until the files are next cleared. A record keeps what reading depends on: its time, the
session, whether any time is left, whether it has a transaction id, and whether the session was resumed.

At start-up the record is read with the first answer of the charger board; a board that has not
answered for 17 ticks of `Blink` is given up, and the record then stays where it is (`StartWithoutBoard`).
`charger` is the session with its phase. `CloseWithoutClearing` is `StatusManage` closing the
finish window before its timer (200 ms) has cleared the record.

### The connection to the CS

`st`, `chargerRegStatus`, `ocppConnectionStatus`, `heartbeatTriggerCount`, `isSendHeaetbeatState` and the timers are the
members of the same names; `socket` is the state of the WebSocket, `outQ` the set of calls in the
queue, `awaited` the call the queue waits for and `late` the other calls in its sent lists: a call that was given up stays there, and its
answer, if it comes, is taken for the end of the waiting. One action is one timer, one socket signal,
or one message with everything its handler does, `Reboot` a program started anew. `idlessTransaction` says that the registry has a
session without a transaction id, which is what makes `onOcppConnRetryWaited` wait. `failed`,
`heartbeatLost` and `givenUp` are history. The queue is abstracted to sets: its order and retries are the queue's module.

### Authorization

A request (`ChargerRequestRfid`) lives as long as the window that shows it; answers carry no tag, and reach
whichever request is open. `cache` and `cacheFile` are the cache with its delayed flush, whose file is written by a
truncating open and a write, with power failures in between. A verdict is one of Accepted, ConcurrentTx and the
refusals; time is what makes a cached verdict expire, as a step of its own. Two tags, a cache of
one, and two `Authorize` calls under way are what the late and stray answers need. A charge without a tag, which any card may stop, and the card that suspends a charge are left out.

### Updates by the CS

`FirmwareUpdate`: `downldSt` is `FirmwareDownloadState` and `stateFile` what `loadStateFromFile` would make of its file, the defaults if
it is torn; `downldSchTimer`,
`downloadProc` (curl) and `fwupdateProc` (the script that prepares) are the scheduler's; `checkFile` and
`checkResult` its zero-delay timers; `marker`, `resultFile` and `files` what is on disk. `system` says what
runs: the program, the install script with its steps, or nothing until the reboot. `PowerFailure` may come in any of them, and
`PowerFailureInSave` within a handler that saves the state, before the truncating open or between it and the write. `wanted` (the package of the latest
request, until it is downloaded or given up), `forgotten` (the file was torn since) and `overlapped` are history. That a save fails on a disk that works on is left out.
curl and a package succeed or fail at will.
`LocalAuthList`: `list` is the database; `ListStatus[v]` is the CS's list at version `v`, from which the changes of a
differential update follow. `ListInterrupted` is a stop between the commit of the items and the insertion of the version.

### Charger control

`board` is what the charger board is and reports (plug, whether it is enabled, phase of the charge, whether it gets
current), `m_ChargerA` the `CCharger` object with the report it took over last, `sent` the command the board was sent. One `Blink` is
one action: a pending unavailability is applied, a window opens, the report is taken over, `StatusManage` runs to its end
with the signals it emits and what `MainWindow` and the registry do about them, and the command goes out. Its branches are
the disjuncts of `Blink`; `EndTick` is what they share. The windows are `pCurWin`, one action per button or
timer; a message that covers them is `pMsgWin`. The registry is reduced to the newest transaction and the oldest of the
active ones before it, because `finish` and `cancel` end the one and `getActiveTrans` returns the other.

The scope is OCPP mode with an EV connector without a lock, paid by the app, no reservation, no fault, no
power failure, a profile that allows current, and a board that obeys Idle before the program gives up on it (`CommandTimeout` of a
minute). The serial exchange resends the latest command every 200 ms, so the board sees only the latest one and acts at any
later moment. Earlier transactions are reported without disturbing `currentTransc`: when they do is in `TransactionReporting`.

## 3. Runs

| run | question | bounds | states | result |
|---|---|---|---|---|
| `queue_mixed` | do state, timer and lists agree under every interleaving? | a transactional call, an Authorize, a call result; 1 retry of each kind | 90,507 | holds |
| `queue_order` | does the queue implement `TransactionalOutbox`, order included; does every call leave it once connected for good? | 3 transactional calls, 2 of one action | 55,051 | holds |
| `report_safety` | do registry, requester, file, connector and CS agree? | 2 sessions (one without tag), 3 objects, 1 meter value, 2 timers under way, 2 restarts | 1,864,288 | holds |
| `report_meter` | are meter values reported without a gap and without a lost wake-up? | 2 sessions (one without tag), 3 values, 1 restart | 3,749,296 | holds |
| `report_live` | is the oldest ended transaction, if it has a tag or an id, reported in the end? | 3 sessions (one without tag), 2 of them used, 1 value, 1 restart | 251,394 | holds |
| `report_finish` | see findings | | | violated |
| `record_safety` | is the last record saved the one that is read after a power failure; is a session resumed once? | 2 sessions, 3 saves, 2 power failures | 6,359,857 | holds |
| `connection` | does the client's state follow the socket, is an answer only dropped after a failed heartbeat or a call given up, is an attempt to connect always coming? | trigger count 1, all calls, reboots, one kind of call left in the sent lists | 543,868 | holds |
| `authorization` | does charging start under an accepted tag only; does the cache say what the CS said? | 2 tags, a cache of 1, 2 `Authorize` calls under way or messages shown | 1,031,888 | holds |
| `updates` | is an update pursued, counted and reported truthfully; is the list that of its version? | 2 packages, 1 or 2 retries, 2 requests, 2 restarts; 2 tags, 3 versions | 1,068,092 | holds |
| `charger` | has a charge a transaction; does an unavailable connector not charge; can a pause be left? | one connector; pausing and stopping by the EV enabled | 1,658,492 | holds |
| `charger_cancel` | see findings | as `charger` | | violated |

Why the bounds are enough: a queue's behaviour depends on its head, on whether lists are
empty, and on a neighbour to be replaced, so three messages and one retry reach every
branch, both sides of each retry limit included. In reporting the interesting cases need a
session that starts while another is reported (2 sessions), one that is resumed (a third
object and a restart), one that starts without a tag and is resumed with the id of another (a second restart), an index that runs one, two or more behind the samples (3 values), and
a leftover timer (2 under way). The record needs three saves for each file to be overwritten once while the other holds the
newest, and two power failures for a clearing that is interrupted and resumed. The connection has two bounds: the trigger count,
whose limit is reached at once, and the kinds of call left in the sent lists (`MaxLate`), where one is enough for a late answer to meet another call
(with two, 1,403,812 states, all five properties hold as well).
In `report_live` a session behind an untagged one, and an untagged one behind another, need one session without a tag, and two with; as
sessions of one tag differ in nothing, only the first unused one starts (`StartsAllowed`), two in one behaviour. Authorization needs a second tag to push the first out of the cache and to be the one a stray
answer is for. The updates need a request that overtakes another, a restart with no attempt left, one after that, and a list version that
takes a tag away. `charger` has no bound at all: its state space is finite, and its depth is 65.

The runs with bounded messages, sessions or restarts have `CHECK_DEADLOCK FALSE`, because their behaviours end; `charger`,
`connection` and `authorization` have not. Symmetry is used in `record_safety` and `authorization` only, which have no liveness property.

Fairness. `queue_order` (`EventuallyDelivered`): the event loop fires zero-delay and retry timers, the
socket drains, each call that reached the CS is answered (weak fairness); `AnswersInTime`
leaves out giving up on a call, after which the code schedules nothing. The
property only speaks of behaviours whose connection finally stays up.
`report_live`: weak fairness of the event loop's timers and of the reconnection, strong fairness
of the CS's receiving and answering, because the connection may come and go for ever; no
heartbeat failure, and an answer to the boot notification within the second before
`onCheckTransactionTimeout` (`TimelySpec`; `TimelyBoundedSpec` of the run is that for two sessions at most). Without that last assumption (`FairSpec`) the property is false: the
registry then goes unreported until the next session or connection.
`connection` (`KeepsConnecting`): weak fairness of three timers of the program, `Blink`, the retry timer and the socket's timeout;
nothing is assumed of the network or the CS.

Properties are conditional where the code's guarantee is: with `resumed` (a session resumed after
a restart), `unreported` (an answer that did not reach the requester) and `givenUp`, all histories.

### Findings

Each is a violated run with a trace; `PROJECT.json` quotes the lines.

* `report_finish`: completing an older report clears `currentTransc` under the next session,
  whose end is then never marked. The requester waits for it and nothing behind it is reported.
* `charger_cancel`: a remote start shows the charging window before the board has taken the command; a driver
  who pauses there and resumes has the start taken over unreported, and its return to idle reported as
  a cancellation, for which the registry has no active transaction (assertion in `cancel`).

### Noticed on the way

Seen while modelling, and allowed for by the models and by the conditions of the properties; no run of their own.

*Queue.* A zero-delay timer pending at the loss of the connection makes the queue send while not connected. The erasing
loops of `addReplaceExisting` and `removeRealTimeMsgFromQ` skip the element after an erased one. An answer that arrives while the
other queue is current leaves its call in the sent list. A socket that is closing takes no bytes but signals those of its close frame, so a call counts as
sent that was not; if the queue then gives up on it before the connection is gone, and goes on to a message of the other list, the call stays in the sent list, and
later transactional calls reach the CS before it.

*Reporting.* An ended session with neither tag nor id (a remote command without a tag, no answer yet) is never removed: its StartTransaction is
refused with an exception, `onTransactionError` finds nothing to remove it by (`mainwindow.cpp:532-541`), and `nextTransaction` takes it again, for ever; nothing
behind it is reported. A CallError or a malformed answer to a call of the requester is not told to it, and it waits for ever. The end of a resumed session is not marked.
A record of the file of finished transactions that was torn hides those appended after it. The last confirmed meter value is sent again after a restart. An active transaction is serialized when one
before it is removed (assertion). `onChargingResumed` takes the newest transaction ahead of older ones. A session that ends between
two steps of the requester loses its last meter values. `getActiveTrans` returns the oldest active transaction although its
comment says newest; so a session without a tag that is resumed may come with the id of an older one, and is reported under it until
its StopTransaction is to be made: the exception thrown there is caught, and the transaction removed as an error.

*Progress record.* With the clock set back the older copy is taken for the newer; after a failed save the next
one overwrites the only good copy; a record without time left is neither used nor removed at start-up, and neither is any record when the
board answers late; a finish window closed early leaves the record of an ended session, which may then be resumed; and a session
that the user has suspended and resumed counts as resumed after a power failure, and is stopped.

*Connection.* The registration status is only ever Accepted, so a charger the CS rejects does not ask again (`bootNotifTimer` does
nothing). The online flag is not cleared at a disconnection, and the failure timer not stopped: it may declare the CS off line
on a later, live connection, and then leaves the client Idle on an open socket. `msgNoReplyError` is connected to nothing, and so a
call given up stays in the sent list: its late answer ends the waiting for the call sent next, whose own answer is then dropped as unexpected. "Disconnect and
retry" (`mainwindow.cpp:360`) does not disconnect. A `Reset` of unknown type leaves the status unknown.

*Authorization.* Verdicts not yet flushed are lost with the power. `Authorize.conf` is cached under the tag that `m_ChargerA.IdTag` is by then, and reaches every open request. A
CallError to `Authorize` leaves the reader window in "Authenticating". A cached ConcurrentTx starts a charge, the CS's own does not. The
expiry of the local list is not looked at; the list is asked before the cache, where the header says the opposite. A card that does
not match at the end of a charge overwrites `IdTag`. `setMaxCacheEntries` makes room once only.

*Updates.* A power failure between the truncation of the state file and its writing leaves a file that is refused, which the constructor ignores: the update
is forgotten, and the CS never hears of it again. The timeout of the script that prepares is never started. curl's exit code is ignored. A package downloaded while another is
prepared is never prepared, and the report is then about the wrong one. A restart without attempts left gives
one more. A power failure between download and preparation is neither repaired nor reported. An interrupted installation leaves
partial firmware, with the result NG. The reboot does not look at a download under way. The list's version is inserted after the commit of its items, by
a function whose exception nobody catches; deletion by a differential update is refused.

*Charger.* Pausing before the board has taken the start, and resuming, charges without any transaction. "only accept if there is no
ongoing transaction or booking" does not hold of a remote start or stop in some states (an active transaction can be left behind in Available). Two transactions
can be active at once. With `useSafeModeCurrentWhenOffline` and the CS off line an unavailable connector gets the safe-mode current
(the runs leave it FALSE, the default). The two flags of a pending unavailability may disagree, and the
connector is then made unavailable again. `stopChargeFlag` may linger into the next charge. A late refusal in `StartTransaction.conf`
stops another session. The command Stop is normally overwritten by Idle at the next tick, before the board sees it. A stop while paused leaves Finishing
until the cable is pulled. Leaving a suspension sends a StopTransaction and finishes the transaction, which sends another. `ChargeFinishWindow`
sleeps five seconds in the main thread. `meterValSubtract` counts one unit too few when the meter has rolled over.

*Reservation* (read, not modelled). The comparison of the card with the reservation's tag is commented out (`reservewindow.cpp:184`), so
any accepted card starts a charge on a reserved charger. The `StartTransaction` that uses a reservation clears it in memory only
(`ocppclient.cpp:1691`) and leaves its file, from which a restart brings it back.

*Board link* (read, not modelled). `ChargerControl`, which sets the command the serial thread sends, runs only once `Initialized` holds
(`mainwindow.cpp:696`), and the thread sends nothing without a command: a board that does not speak first is asked nothing for the
first 17 ticks. `Initialized` is then set without an answer, against the comment of `ccharger.h:119`, and nothing resets
`ConnectTimeout`. `CRfidThread::run` tests its pointer `context` before anything is assigned to it.

## 4. Proofs

`OcppOutMessageQueueProofs` proves, for any messages and any retry limits
(`QueueAssumption` types the constants): `QueueTypeCorrect`, `QueueHeadPresent`,
`QueueTimerArmed`, `QueueFullRetryBudget` and `QueueNoStall` (which covers `NothingStranded`), all from
`QueueInvariant`. None of these is inductive alone. That a list is not empty when its head
is taken rests on `st` naming the list (`currentQ`) and on only the current queue's sent list being in use;
that the timer is armed rests on `processPending` being 1 exactly for a scheduled queue or as a leftover of a lost
connection. `SchedulingInv` states that discipline and is part of the inductive invariant.
The proof has one step per action and, below it, one per conjunct the action can disturb.

`QueueHeldExactlyOnce` adds what the lists hold (`HeldInv`): in each queue the sent and the outgoing list are disjoint, repeat nothing, and
together are the messages of that queue whose fate is still "held". It rests on lemmas about what erasing, appending and putting back do to the contents
of a list (`KeptContent`, `WithoutContent`, `ConcatContent`).

`QueueImplementsOutbox` is the refinement of `TransactionalOutbox`, from `InTimeSpec`: the CS answers at the latest the last
transmission waited for, and no fairness is needed. Each action is an `Accept`, `Write`, `Answered` or `SendingFailed` of the
outbox, or a stutter. That a first `Write` comes in order needs `BufferInv`: a transactional call still held and in the socket's buffer is the
first of all held (replacements, a late answer, and a reconnection that puts calls back in front must not overtake it). Without `InTimeSpec` the refinement
is false: see section 3, *Queue*.

`ChargeProgressRecordProofs` proves, for any sessions and bounds: `RecordNewestIsRead`, `RecordResumedOnce` and
`RecordTypeCorrect`, from `RecordInvariantHolds`. That the newest record is read is not inductive: it needs that the last
record saved is in the file that will not be written next (`LastSavedKept`), that every other record is older (`StampsInOrder`),
and that the toggle has moved on while a file is being written (`FilesInTurn`). `RecordResumedOnce` rests on the mark in the record: an
unmarked one on file means that its session has a resumption left, even one saved before the clock was
set back (`ResumptionLeft`, `SessionsBegun`).

`OcppConnectionProofs` proves, for any trigger count and any number of calls left in the sent lists: `ConnectionTypeCorrect`, `ConnectionStateFollowsSocket`,
`ConnectionAnswerCounts` and `ConnectionFailureHasCause`, from `ConnectionInvariant`. What is missing for
induction is `SocketInv`: the retry timer runs only without a socket, a call is awaited and the heartbeat ticks
only on an open one. That answers count is claimed with its two exceptions: the heartbeat failed since the call was sent, or the queue gave up on a call
that is still in its sent lists (`late # {} => givenUp`), whose answer may come in the place of another's.

`CsUpdatesProofs` proves, for any packages, retries, tags and versions and any number of requests and restarts, all
properties of the run `updates`, from `UpdatesInvariant`. A boot leaves no timer, no process and no report (`BootedClean`). While the program runs,
the state file is the scheduler's state, and a boot takes the state for what the file would be loaded as, the defaults if it is torn, so that what the constructor schedules is
the update wanted unless it was forgotten (`DownloadInv`). An attempt that the power cut off before it was saved is not in the remaining attempts, but a start of
the program is still to come for it; with that, attempts and remaining attempts together exceed the retries at most by the number of starts (`AttemptInv`);
the script has the package downloaded last,
unless one came meanwhile (`ReportInv`); partial firmware under an old result OK exists only while the installation goes on or
its marker stands without a package, which the next start of the script finds out (`ResultInv`). For the list, the
items a differential update leaves alone are equal in both versions (`UpdatedToCsVersion`).

`ChargerControlProofs` proves, for all settings, `ChargerTypeCorrect`, `ChargerPauseCanBeLeft` and, without the safe-mode
current, `ChargerUnavailableDoesNotCharge`, from `ChargerInvariant`. A connector becomes unavailable only in Available, and then
neither the board charges nor the command on its way starts a charge (`AvailableIsQuiet`); from there the tick sends no current,
without which the board starts none (`UnavailableIsQuiet`).

It also proves `ChargerChargeIsRecorded`. The transaction is made in the tick in which the report of the board goes
from idle to not idle, so the argument follows the board between two ticks (`BoardFollows`: it gets back from a charge only by the
command Idle, and idle), the command (`CommandFollows`), and the windows (`WindowFollows`: while a charge goes on or is suspended, a
window of the charge shows or a stop is being carried out, so no home or exit button takes the command away from under it); then a
start commanded anew has its transaction as long as the board is enabled and not finished (`ChargeFollows`). Each is a lemma about the end of a tick
(`TickRecord`), about any handler (`HandlerRecord`) and about the board (`BoardRecord`).

`SelectionsProofs` holds what the two below need to know of lists. An erase-remove loop is a recursive function, and what it
returns is proved without the library's induction theorems: the positions at which the claim fails are a set of natural numbers, which
has a least element (`NatMin`, from the library's theorem on well-founded relations), and that one is refuted.

`TransactionReportingProofs` proves, for any sessions and tags (some without), any number of transactions, values, timers and restarts
(`ReportingAssumption`: `NoSession` is no session, the number of restarts is a number), all safety invariants of the runs `report_safety`
and `report_meter` from `TransactionReportingInvariant`: `ReportingCursorRegistered`, `ReportingStage`, `ReportingNoLostWakeup`,
`ReportingAwaitedCallInFlight`, `ReportingFinishedOnFile`, `ReportingStopMeansEnded` and the types. The registry, the requester and the queue need each
other: that an answer finds its transaction rests on the call being the last in the queue and made for the cursor, and that the
cursor does not dangle on removals taking place only when a report ends. `StopMeansEnded` is about ids, and what makes it hard is that an id
is not always that of its session. `Identifies` says what is left: an id in the registry, on file or in the progress record is known to the CS
and is that of the session, or of one that the CS may be told has stopped (`MayBeStopped`: it has left the connector, or was resumed).
It holds of every transaction with an id (`IdInv`) and every StopTransaction on its way (`StopInv`), because a session that has ended stays so
(`EndedInv`), the one StartTransaction is that of the cursor (`StartInv`), and a start-up leaves only sessions that may be stopped.

`ReportingMeterWithoutGap` proves the action property `MeterWithoutGap` of `report_meter` from `IInv` and a second invariant, `GapInv`. A value
reaches the CS with the call the requester waits for, so what must be shown is that this call carries the value after one the CS has.
`IndexInv` says that `meterValIdx` is not ahead of the CS's last value of the transaction reported, `SentInv` the same of the index kept with each
transaction, `MeterCallInv` that the one MeterValues on its way is the awaited call with the next index. A report begins, after a
restart too, from the index kept with the transaction or on file, which makes the proof one about ids again: the index of one transaction must not be compared with the
CS's values of another. `FileIdInv` says that a start-up reads one record for an id, which says no more than the finished transaction it was
written for. Two transactions can share the id of a session not resumed, if one was resumed with a
progress record that had been given the id of the other (`ForeignInv`: the other is not finished then and nothing can finish it any more). `SharedInv` shows that this does no
harm: the requester is reporting the older one, still active, which neither `Finish` nor `Cancel` can end any more, so that its report lasts until the
program stops, and of the younger no value is ever sent. Only that the values reach the CS without a gap is claimed: the last ones of a session may be missing, see
section 3.

`AuthorizationProofs` proves, for any tags, verdicts, size of the cache and number of calls under way, all properties of the run
`authorization`, from `AuthorizationInvariant`; `AuthorizationStartedByApproved` is a property of steps. What is missing for
induction is that a request waits only with its reader in CardCaptured (`AskedWhileCaptured`), that the cache's answer on its way was the CS's
verdict when the card was read (`LookupApproved`), that a question's tag is in `idTag` (`QuestionHasTag`), and how many timers close
messages (`CallsUnderWay`).

Model-checked only: liveness (`EventuallyDelivered`, `OldestReported`, `KeepsConnecting`): fairness and ENABLED are beyond the prover.

## 5. Plan

Done: the out-message queue, registry and requester, the progress record, the connection, authorization, firmware and list
updates, charger control; proofs for all of them.

Left, in this order:

1. Reservation in `ChargerControl`: `ReserveNow`, `CancelReservation`, the booking that any `ChargerIdle` deletes.
2. An abstract specification of reporting (each ended session is told to the CS, in order, at
   least once) and its refinement by `TransactionReporting`.
3. Liveness of the charger: an unplugged, stopped charger gets back to Available. The races listed above break the plain statement.

## 6. Not modelled

* The serial threads (`ccomportthread*.cpp`): frames with a CRC, a buffer that is cleared, the latest command resent every
  200 ms. What reaches the rest is in `ChargerControl`'s board.
* The reader thread, the distance sensor, lamps, shell commands, the video player: device I/O.
* Reservation, faults, the connector lock, the wall socket, delayed and queued charging, charging by amount, the stand-alone mode.
* Parsing and formatting of OCPP frames (a message is a model value), message ids from the clock, calls of the CS that only read or set a setting.
* Configuration, passwords and append-only record files: no interacting state.
* libnfc, qrcodegen and the web administration: vendored code and separate programs, more than half of the lines of the repository. For this reason
  the map, which covers most of the control of the charger's own program, covers a small share of all lines.
