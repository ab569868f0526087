------------------------ MODULE ChargeProgressRecord ------------------------
(***************************************************************************)
(* The record of the charging session in progress (ccharger.cpp:           *)
(* ModifyRecord, ReadRecord, ClearRecord), from which a session goes on    *)
(* after a power failure. It is kept in two files, written in turn; the    *)
(* newer whole one counts. The power may fail between any two steps,       *)
(* between the two removals and between opening a file, which empties it,  *)
(* and writing it included.                                                *)
(*                                                                         *)
(* Within the program each of these operations runs in one turn of the     *)
(* event loop: while one is under way only its own next step or a power    *)
(* failure can follow.                                                     *)
(***************************************************************************)
EXTENDS Naturals

CONSTANTS Session,      \* charging sessions
          NoSession,    \* no session
          NotWhole,     \* a file that is missing or too short to be a record
          MaxClock,     \* bound: largest time
          MaxOutages    \* bound: number of power failures

ASSUME RecordAssumption ==
    /\ NoSession \notin Session
    /\ MaxClock \in Nat
    /\ MaxOutages \in Nat

Path == {"chrgProgressCsvPath", "chrgProgressCsvPathBackup"}
Main == "chrgProgressCsvPath"
Backup == "chrgProgressCsvPathBackup"

(* The fields on which reading a record depends: its time, its session,    *)
(* time left to charge, a transaction id, and that it was resumed.         *)
Record == [StopDt: 0..MaxClock, session: Session,
           RemainTime: BOOLEAN, TransactionId: BOOLEAN, isResumedCharge: BOOLEAN]

ASSUME NotWholeAssumption == NotWhole \notin Record

VARIABLES
    file,               \* Path -> record or NotWhole
    control,            \* chrgProgressCsvPathfilecontrol: main file next
    clock,              \* the local time, in saves
    step,               \* what the program is in the middle of
    charger,            \* the session on the charger
    begun,              \* history: the sessions there have been
    lastSaved,          \* history: the last record saved whole, unless cleared
    disturbed,          \* history: what has upset the files since the last clearing
    resumptions,        \* history: how often each session was resumed
    tornClearings,      \* history: power failures before both files were removed
    outages             \* number of power failures

vars == <<file, control, clock, step, charger, begun, lastSaved, disturbed,
          resumptions, tornClearings, outages>>
history == <<begun, lastSaved, disturbed, resumptions, tornClearings>>

Idle == [session |-> NoSession, phase |-> "idle", isResumedCharging |-> FALSE]

Init ==
    /\ file = [p \in Path |-> NotWhole]
    /\ control = TRUE
    /\ clock = 0
    /\ step = "off"
    /\ charger = Idle
    /\ begun = {}
    /\ lastSaved = NotWhole
    /\ disturbed = {}
    /\ resumptions = [s \in Session |-> 0]
    /\ tornClearings = 0
    /\ outages = 0

-----------------------------------------------------------------------------
(* Reading *)

IsWhole(p) == file[p] # NotWhole

(* The newer of two whole records, the backup when their times are equal. *)
Chosen ==
    IF IsWhole(Main) /\ (IsWhole(Backup) => file[Main].StopDt > file[Backup].StopDt)
      THEN file[Main]
      ELSE file[Backup]

Usable(r) == r # NotWhole /\ r.RemainTime

(* Fault: a session is resumed after every power failure. *)
MayResumeAgain(r) == r.TransactionId

(* What ChargerPostModBus makes of a record: the session goes on if it has *)
(* a transaction, was not resumed before and the vehicle is still there.   *)
MayResume(r) == r.TransactionId /\ ~r.isResumedCharge

-----------------------------------------------------------------------------
(* Start-up *)

(* The program goes on without a session; what is on file stays there. *)
StartAfresh ==
    /\ step = "off"
    /\ step' = "none"
    /\ control' = TRUE
    /\ disturbed' = IF IsWhole(Main) \/ IsWhole(Backup)
                      THEN disturbed \cup {"residue"} ELSE disturbed
    /\ UNCHANGED <<file, clock, charger, begun, lastSaved, resumptions, tornClearings, outages>>

(* The charger board has not answered for 17 ticks of MainWindow::Blink:   *)
(* the record is not read, then or later, and stays on file.               *)
StartWithoutBoard == StartAfresh

(* The first answer of the charger board, with nothing to go on with ...   *)
StartWithoutRecord == ~Usable(Chosen) /\ StartAfresh

(* ... with a session that is resumed; ClearRecord follows. *)
StartResuming ==
    /\ step = "off"
    /\ Usable(Chosen) /\ MayResume(Chosen)
    /\ charger' = [session |-> Chosen.session, phase |-> "charging", isResumedCharging |-> TRUE]
    /\ resumptions' = [resumptions EXCEPT ![Chosen.session] = @ + 1]
    /\ control' = TRUE
    /\ step' = "clear"
    /\ UNCHANGED <<file, clock, begun, lastSaved, disturbed, tornClearings, outages>>

(* ... with a session that is stopped: the vehicle has gone, there is no   *)
(* transaction, or it was resumed before.                                  *)
StartStopping ==
    /\ step = "off"
    /\ Usable(Chosen)
    /\ control' = TRUE
    /\ step' = "clear"
    /\ UNCHANGED <<file, clock, charger, history, outages>>

-----------------------------------------------------------------------------
(* The session. The program is between two turns of the event loop. *)

StartCharge(s) ==
    /\ step = "none"
    /\ charger.phase = "idle" /\ s \notin begun
    /\ charger' = [session |-> s, phase |-> "charging", isResumedCharging |-> FALSE]
    /\ begun' = begun \cup {s}
    /\ UNCHANGED <<file, control, clock, step, lastSaved, disturbed, resumptions,
                   tornClearings, outages>>

(* The user suspends the charging (ChargerIdle) ... *)
Suspend ==
    /\ step = "none"
    /\ charger.phase = "charging"
    /\ charger' = [charger EXCEPT !.phase = "suspended", !.isResumedCharging = FALSE]
    /\ UNCHANGED <<file, control, clock, step, history, outages>>

(* ... and resumes it. *)
ResumeCharge ==
    /\ step = "none"
    /\ charger.phase = "suspended"
    /\ charger' = [charger EXCEPT !.phase = "charging", !.isResumedCharging = TRUE]
    /\ UNCHANGED <<file, control, clock, step, history, outages>>

FinishCharge ==
    /\ step = "none"
    /\ charger.phase \in {"charging", "suspended"}
    /\ charger' = [charger EXCEPT !.phase = "finishing"]
    /\ UNCHANGED <<file, control, clock, step, history, outages>>

(* The finish window's timer clears the record ... *)
FinishTimerEvent ==
    /\ step = "none"
    /\ charger.phase = "finishing"
    /\ charger' = Idle
    /\ step' = "clear"
    /\ UNCHANGED <<file, control, clock, history, outages>>

(* ... unless StatusManage closes the window first, the cable being out:   *)
(* then the record stays.                                                  *)
CloseWithoutClearing ==
    /\ step = "none"
    /\ charger.phase = "finishing"
    /\ charger' = Idle
    /\ UNCHANGED <<file, control, clock, step, history, outages>>

-----------------------------------------------------------------------------
(* ModifyRecord *)

NextPath == IF control THEN Main ELSE Backup

(* Fault: the record is always written to the same file. *)
OpenRecordSameFile ==
    /\ step = "none"
    /\ charger.phase = "charging"
    /\ file' = [file EXCEPT ![NextPath] = NotWhole]
    /\ step' = NextPath
    /\ UNCHANGED <<control, clock, charger, history, outages>>

(* Fault: a record is saved without a session. *)
OpenRecordAlways ==
    /\ step = "none"
    /\ control' = ~control
    /\ file' = [file EXCEPT ![NextPath] = NotWhole]
    /\ step' = NextPath
    /\ UNCHANGED <<clock, charger, history, outages>>

(* The file is opened, and thereby emptied. The next one is the other,     *)
(* whatever comes of this one.                                             *)
OpenRecord ==
    /\ step = "none"
    /\ charger.phase = "charging"
    /\ control' = ~control
    /\ file' = [file EXCEPT ![NextPath] = NotWhole]
    /\ step' = NextPath
    /\ UNCHANGED <<clock, charger, history, outages>>

OpenFails ==
    /\ step = "none"
    /\ charger.phase = "charging"
    /\ control' = ~control
    /\ disturbed' = disturbed \cup {"failedSave"}
    /\ UNCHANGED <<file, clock, step, charger, begun, lastSaved, resumptions, tornClearings, outages>>

NewRecord(remain, identified) ==
    [StopDt |-> clock, session |-> charger.session, RemainTime |-> remain,
     TransactionId |-> identified, isResumedCharge |-> charger.isResumedCharging]

WriteRecord(remain, identified) ==
    /\ step \in Path
    /\ clock < MaxClock
    /\ file' = [file EXCEPT ![step] = NewRecord(remain, identified)]
    /\ lastSaved' = NewRecord(remain, identified)
    /\ clock' = clock + 1
    /\ step' = "none"
    /\ UNCHANGED <<control, charger, begun, disturbed, resumptions, tornClearings, outages>>

(* A short write is not noticed. *)
WriteFails ==
    /\ step \in Path
    /\ step' = "none"
    /\ disturbed' = disturbed \cup {"failedSave"}
    /\ UNCHANGED <<file, control, clock, charger, begun, lastSaved, resumptions, tornClearings, outages>>

-----------------------------------------------------------------------------
(* ClearRecord *)

RemoveMain ==
    /\ step = "clear"
    /\ file' = [file EXCEPT ![Main] = NotWhole]
    /\ step' = "clearBackup"
    /\ UNCHANGED <<control, clock, charger, history, outages>>

RemoveBackup ==
    /\ step = "clearBackup"
    /\ file' = [file EXCEPT ![Backup] = NotWhole]
    /\ step' = "none"
    /\ lastSaved' = NotWhole
    /\ disturbed' = {}
    /\ UNCHANGED <<control, clock, charger, begun, resumptions, tornClearings, outages>>

-----------------------------------------------------------------------------
(* Environment *)

(* The power fails, at any moment. What was being done to the files stays  *)
(* as it is, and everything else is lost.                                  *)
PowerFailure ==
    /\ step # "off"
    /\ outages < MaxOutages
    /\ outages' = outages + 1
    /\ step' = "off"
    /\ charger' = Idle
    /\ disturbed' = IF step = "clearBackup" THEN disturbed \cup {"residue"} ELSE disturbed
    /\ tornClearings' = IF step \in {"clear", "clearBackup"} THEN tornClearings + 1 ELSE tornClearings
    /\ UNCHANGED <<file, control, clock, begun, lastSaved, resumptions>>

(* The CS sets the clock back (OcppClient::serverDateTimeReceived). *)
SetClockBack ==
    /\ step = "none"
    /\ \E t \in 0..MaxClock :
         /\ t < clock
         /\ clock' = t
    /\ disturbed' = disturbed \cup {"clock"}
    /\ UNCHANGED <<file, control, step, charger, begun, lastSaved, resumptions, tornClearings, outages>>

Next ==
    \/ StartWithoutBoard \/ StartWithoutRecord \/ StartResuming \/ StartStopping
    \/ \E s \in Session : StartCharge(s)
    \/ Suspend \/ ResumeCharge \/ FinishCharge
    \/ FinishTimerEvent \/ CloseWithoutClearing
    \/ OpenRecord \/ OpenFails
    \/ \E remain, identified \in BOOLEAN : WriteRecord(remain, identified)
    \/ WriteFails
    \/ RemoveMain \/ RemoveBackup
    \/ PowerFailure \/ SetClockBack

Spec == Init /\ [][Next]_vars

-----------------------------------------------------------------------------
(* Properties *)

TypeOK ==
    /\ file \in [Path -> Record \cup {NotWhole}]
    /\ control \in BOOLEAN
    /\ clock \in 0..MaxClock
    /\ step \in Path \cup {"off", "none", "clear", "clearBackup"}
    /\ charger \in [session: Session \cup {NoSession},
                    phase: {"idle", "charging", "suspended", "finishing"},
                    isResumedCharging: BOOLEAN]
    /\ charger.phase # "idle" => charger.session \in Session
    /\ begun \subseteq Session
    /\ lastSaved \in Record \cup {NotWhole}
    /\ disturbed \subseteq {"residue", "failedSave", "clock"}
    /\ resumptions \in [Session -> Nat]
    /\ tornClearings \in Nat
    /\ outages \in 0..MaxOutages

(* Whenever the power fails, ReadRecord finds the last record that         *)
(* ModifyRecord has saved, and none if ClearRecord has run since. It may   *)
(* not between the removals of the two files, after a failed save, after   *)
(* the clock was set back, or when start-up has left a record on file.     *)
NewestIsRead ==
    disturbed = {} /\ step # "clearBackup" => Chosen = lastSaved

(* ccharger.cpp:1103 resumes a session only once, however often the power  *)
(* fails, however the saves go and whatever the clock does: only a power   *)
(* failure before both files are removed can make it once more.            *)
ResumedOnce ==
    \A s \in Session : resumptions[s] <= 1 + tornClearings

-----------------------------------------------------------------------------
(* The inductive invariant *)

(* The file being written is not the one to be written next, and the first *)
(* removal has been made when the second one is due. Only a session that   *)
(* goes on is saved.                                                       *)
FilesInTurn ==
    /\ step \in Path => step # NextPath /\ charger.phase = "charging"
    /\ step = "clearBackup" => ~IsWhole(Main)

(* Records are older than now, and saved one after the other. *)
StampsInOrder ==
    disturbed = {} =>
      \A p \in Path : IsWhole(p) =>
        /\ file[p].StopDt < clock
        /\ lastSaved # NotWhole
        /\ file[p] # lastSaved => file[p].StopDt < lastSaved.StopDt

(* The last record saved is on file, and not in the file that is being or  *)
(* will be written.                                                        *)
LastSavedKept ==
    disturbed = {} /\ step # "clearBackup" /\ lastSaved # NotWhole =>
      \E p \in Path :
        /\ file[p] = lastSaved
        /\ step = "none" => p # NextPath
        /\ step \in Path => p # step

(* What the charger and the files know of is a session there has been. *)
SessionsBegun ==
    /\ \A s \in Session \ begun : resumptions[s] = 0
    /\ \A p \in Path : IsWhole(p) => file[p].session \in begun
    /\ charger.phase # "idle" => charger.session \in begun

(* A session not marked as resumed has a resumption left. *)
ResumptionLeft ==
    /\ \A p \in Path :
         IsWhole(p) /\ ~file[p].isResumedCharge /\ step \notin {"clear", "clearBackup"} =>
           resumptions[file[p].session] <= tornClearings
    /\ charger.phase = "charging" /\ ~charger.isResumedCharging =>
         resumptions[charger.session] <= tornClearings

RecordInvariant ==
    /\ TypeOK
    /\ FilesInTurn
    /\ StampsInOrder
    /\ LastSavedKept
    /\ SessionsBegun
    /\ ResumptionLeft
    /\ ResumedOnce
=============================================================================
