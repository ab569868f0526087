--------------------- MODULE ChargeProgressRecordProofs ---------------------
(***************************************************************************)
(* Proofs about ChargeProgressRecord: what ReadRecord finds after a power  *)
(* failure, and how often a session is resumed, for any sessions and       *)
(* bounds.                                                                 *)
(***************************************************************************)
EXTENDS ChargeProgressRecord, TLAPS

(* There are two files, and the next one to be written is one of them. *)
LEMMA PathFacts ==
    /\ Path = {Main, Backup}
    /\ Main # Backup
    /\ NextPath \in Path
BY DEF Path, Main, Backup, NextPath

(* RecordInvariant implies the property about reading: the last record     *)
(* saved is on file and every other one is older.                          *)
LEMMA InvariantNewestIsRead ==
    ASSUME RecordInvariant
    PROVE  NewestIsRead
<1> SUFFICES ASSUME disturbed = {}, step # "clearBackup"
             PROVE  Chosen = lastSaved
  BY DEF NewestIsRead
<1> USE RecordAssumption, NotWholeAssumption
<1>t. TypeOK /\ StampsInOrder /\ LastSavedKept
  BY DEF RecordInvariant
<1>1. CASE lastSaved = NotWhole
  BY <1>1, <1>t, PathFacts DEF StampsInOrder, Chosen, IsWhole
<1>2. CASE lastSaved # NotWhole
  <2>1. PICK p \in Path : file[p] = lastSaved
    BY <1>2, <1>t DEF LastSavedKept
  <2>2. \A q \in Path : file[q] # NotWhole /\ file[q] # lastSaved =>
            file[q].StopDt < lastSaved.StopDt
    BY <1>t DEF StampsInOrder, IsWhole
  <2>3. \A q \in Path : file[q] # NotWhole => file[q].StopDt \in Nat
    BY <1>t DEF TypeOK, Record
  <2>4. lastSaved.StopDt \in Nat
    BY <2>1, <2>3, <1>2
  <2>5. CASE p = Main
    <3>1. CASE ~IsWhole(Backup) \/ file[Backup] # lastSaved
      BY <2>1, <2>2, <2>3, <2>4, <2>5, <3>1, <1>2, PathFacts DEF Chosen, IsWhole
    <3>2. CASE file[Backup] = lastSaved
      BY <2>1, <2>4, <2>5, <3>2, <1>2, PathFacts DEF Chosen, IsWhole
    <3> QED BY <3>1, <3>2
  <2>6. CASE p = Backup
    <3>1. CASE file[Main] = lastSaved
      BY <2>1, <2>6, <3>1 DEF Chosen
    <3>2. CASE file[Main] # lastSaved
      BY <2>1, <2>2, <2>3, <2>4, <2>6, <3>2, <1>2, PathFacts DEF Chosen, IsWhole
    <3> QED BY <3>1, <3>2
  <2> QED BY <2>5, <2>6, PathFacts
<1> QED BY <1>1, <1>2

LEMMA InitInvariant == Init => RecordInvariant
<1> SUFFICES ASSUME Init PROVE RecordInvariant
  OBVIOUS
<1>1. TypeOK
  BY RecordAssumption DEF Init, TypeOK, Idle
<1>2. FilesInTurn
  BY DEF Init, FilesInTurn, Path
<1>3. StampsInOrder /\ LastSavedKept
  BY DEF Init, StampsInOrder, LastSavedKept, IsWhole
<1>4. SessionsBegun /\ ResumptionLeft
  BY DEF Init, SessionsBegun, ResumptionLeft, IsWhole, Idle
<1>5. ResumedOnce
  <2>1. \A s \in Session : resumptions[s] = 0 /\ tornClearings = 0
    BY DEF Init
  <2>2. 0 <= 1 + 0
    OBVIOUS
  <2> QED BY <2>1, <2>2 DEF ResumedOnce
<1> QED BY <1>1, <1>2, <1>3, <1>4, <1>5 DEF RecordInvariant

(* Types are preserved by every step. *)
LEMMA NextTypeOK ==
    ASSUME RecordInvariant, [Next]_vars
    PROVE  TypeOK'
<1> USE RecordAssumption
<1>t. TypeOK /\ FilesInTurn
  BY DEF RecordInvariant
<1>1. CASE StartAfresh
  BY <1>t, <1>1 DEF StartAfresh, history, TypeOK
<1>2. CASE StartResuming
  <2>1. Chosen \in Record
    BY <1>t, <1>2, PathFacts DEF TypeOK, StartResuming, Usable, Chosen
  <2>2. Chosen.session \in Session
    BY <2>1 DEF Record
  <2> QED BY <1>t, <1>2, <2>2 DEF TypeOK, StartResuming
<1>3. CASE StartStopping
  BY <1>t, <1>3 DEF StartStopping, history, TypeOK
<1>4. ASSUME NEW s \in Session, StartCharge(s) PROVE TypeOK'
  BY <1>t, <1>4 DEF StartCharge, history, TypeOK
<1>5. CASE Suspend
  BY <1>t, <1>5 DEF Suspend, history, TypeOK
<1>6. CASE ResumeCharge
  BY <1>t, <1>6 DEF ResumeCharge, history, TypeOK
<1>7. CASE FinishCharge
  BY <1>t, <1>7 DEF FinishCharge, history, TypeOK
<1>8. CASE FinishTimerEvent
  BY <1>t, <1>8 DEF FinishTimerEvent, TypeOK, Idle, history
<1>9. CASE CloseWithoutClearing
  BY <1>t, <1>9 DEF CloseWithoutClearing, TypeOK, Idle, history
<1>10. CASE OpenRecord
  BY <1>t, <1>10, PathFacts DEF OpenRecord, history, TypeOK
<1>11. CASE OpenFails
  BY <1>t, <1>11 DEF OpenFails, history, TypeOK
<1>12. ASSUME NEW r \in BOOLEAN, NEW i \in BOOLEAN, WriteRecord(r, i) PROVE TypeOK'
  <2>1. charger.session \in Session
    BY <1>t, <1>12 DEF TypeOK, FilesInTurn, WriteRecord
  <2>2. NewRecord(r, i) \in Record
    BY <1>t, <1>12, <2>1 DEF TypeOK, Record, NewRecord
  <2> QED BY <1>t, <1>12, <2>2 DEF TypeOK, WriteRecord
<1>13. CASE WriteFails
  BY <1>t, <1>13 DEF WriteFails, history, TypeOK
<1>14. CASE RemoveMain
  BY <1>t, <1>14 DEF RemoveMain, history, TypeOK
<1>15. CASE RemoveBackup
  BY <1>t, <1>15 DEF RemoveBackup, history, TypeOK
<1>16. CASE PowerFailure
  BY <1>t, <1>16 DEF PowerFailure, TypeOK, Idle
<1>17. CASE SetClockBack
  BY <1>t, <1>17 DEF SetClockBack, history, TypeOK
<1>18. CASE UNCHANGED vars
  BY <1>t, <1>18 DEF vars, TypeOK
<1> QED
  BY <1>1, <1>2, <1>3, <1>4, <1>5, <1>6, <1>7, <1>8, <1>9, <1>10, <1>11, <1>12, <1>13, <1>14, <1>15, <1>16, <1>17, <1>18
  DEF Next, StartWithoutRecord, StartWithoutBoard

(* The files and the last record saved agree after every step. *)
LEMMA NextFiles ==
    ASSUME RecordInvariant, [Next]_vars
    PROVE  FilesInTurn' /\ StampsInOrder' /\ LastSavedKept'
<1>t. TypeOK /\ FilesInTurn /\ StampsInOrder /\ LastSavedKept
  BY DEF RecordInvariant
<1> DEFINE Goal == FilesInTurn' /\ StampsInOrder' /\ LastSavedKept'
<1>1. CASE StartAfresh
  <2>1. disturbed' = {} => disturbed = {} /\ \A p \in Path : ~IsWhole(p)
    BY <1>1, PathFacts DEF StartAfresh
  <2>2. disturbed' = {} => lastSaved = NotWhole
    BY <1>t, <1>1, <2>1 DEF LastSavedKept, IsWhole, StartAfresh
  <2>3. FilesInTurn'
    BY <1>1 DEF StartAfresh, FilesInTurn, Path
  <2>4. StampsInOrder' /\ LastSavedKept'
    BY <1>t, <1>1, <2>1, <2>2 DEF StartAfresh, StampsInOrder, LastSavedKept, IsWhole
  <2> QED BY <2>3, <2>4
<1>2. CASE StartResuming
  BY <1>t, PathFacts, <1>2 DEF StartResuming, history, FilesInTurn, StampsInOrder, LastSavedKept, NextPath, Path, IsWhole
<1>3. CASE StartStopping
  BY <1>t, PathFacts, <1>3 DEF StartStopping, history, FilesInTurn, StampsInOrder, LastSavedKept, NextPath, Path, IsWhole
<1>4. ASSUME NEW s \in Session, StartCharge(s) PROVE Goal
  BY <1>t, PathFacts, <1>4 DEF StartCharge, history, FilesInTurn, StampsInOrder, LastSavedKept, NextPath, Path, IsWhole
<1>5. CASE Suspend
  BY <1>t, PathFacts, <1>5 DEF Suspend, history, FilesInTurn, StampsInOrder, LastSavedKept, NextPath, Path, IsWhole
<1>6. CASE ResumeCharge
  BY <1>t, PathFacts, <1>6 DEF ResumeCharge, history, FilesInTurn, StampsInOrder, LastSavedKept, NextPath, Path, IsWhole
<1>7. CASE FinishCharge
  BY <1>t, PathFacts, <1>7 DEF FinishCharge, history, FilesInTurn, StampsInOrder, LastSavedKept, NextPath, Path, IsWhole
<1>8. CASE FinishTimerEvent
  BY <1>t, PathFacts, <1>8 DEF FinishTimerEvent, history, FilesInTurn, StampsInOrder, LastSavedKept, NextPath, Path, IsWhole
<1>9. CASE CloseWithoutClearing
  BY <1>t, PathFacts, <1>9 DEF CloseWithoutClearing, history, FilesInTurn, StampsInOrder, LastSavedKept, NextPath, Path, IsWhole
<1>10. CASE OpenRecord
  <2>1. FilesInTurn'
    BY <1>10 DEF OpenRecord, FilesInTurn, NextPath, Path, Main, Backup
  <2>2. \A p \in Path : file'[p] = IF p = NextPath THEN NotWhole ELSE file[p]
    BY <1>t, <1>10 DEF OpenRecord, TypeOK
  <2>3. StampsInOrder'
    BY <1>t, <1>10, <2>2 DEF OpenRecord, history, StampsInOrder, IsWhole
  <2>4. LastSavedKept'
    BY <1>t, <1>10, <2>2, PathFacts DEF OpenRecord, history, LastSavedKept, Path
  <2> QED BY <2>1, <2>3, <2>4
<1>11. CASE OpenFails
  BY <1>t, PathFacts, <1>11 DEF OpenFails, history, FilesInTurn, StampsInOrder, LastSavedKept, NextPath, Path, IsWhole
<1>12. ASSUME NEW r \in BOOLEAN, NEW i \in BOOLEAN, WriteRecord(r, i)
      PROVE  Goal
  <2> DEFINE new == NewRecord(r, i)
  <2>1. /\ \A p \in Path : file'[p] = IF p = step THEN new ELSE file[p]
        /\ lastSaved' = new /\ new.StopDt = clock
        /\ step \in Path /\ clock \in Nat /\ clock' = clock + 1
    BY <1>t, <1>12, RecordAssumption DEF WriteRecord, TypeOK, NewRecord
  <2>2. new # NotWhole
    <3>1. new \in Record
      BY <1>t, <1>12 DEF WriteRecord, TypeOK, FilesInTurn, NewRecord, Record
    <3> QED BY <3>1, NotWholeAssumption
  <2>3. FilesInTurn'
    BY <1>12 DEF WriteRecord, FilesInTurn, Path
  <2>4. StampsInOrder'
    <3> SUFFICES ASSUME disturbed = {}, NEW p \in Path, file'[p] # NotWhole
                 PROVE  /\ file'[p].StopDt < clock'
                        /\ lastSaved' # NotWhole
                        /\ file'[p] # lastSaved' => file'[p].StopDt < lastSaved'.StopDt
      BY <1>12 DEF WriteRecord, StampsInOrder, IsWhole
    <3> HIDE DEF new
    <3>1. CASE p = step
      BY <3>1, <2>1, <2>2
    <3>2. CASE p # step
      <4>1. file[p].StopDt < clock /\ file'[p] = file[p]
        BY <1>t, <2>1, <3>2 DEF StampsInOrder, IsWhole
      <4>2. file[p].StopDt \in Nat
        BY <1>t, <4>1 DEF TypeOK, Record
      <4> QED BY <4>1, <4>2, <2>1, <2>2
    <3> QED BY <3>1, <3>2
  <2>5. LastSavedKept'
    <3>1. step # NextPath'
      BY <1>t, <1>12 DEF WriteRecord, FilesInTurn, NextPath
    <3>2. step' = "none" /\ "none" \notin Path
      BY <1>12 DEF WriteRecord, Path, Main, Backup
    <3> QED BY <2>1, <3>1, <3>2 DEF LastSavedKept
  <2> QED BY <2>3, <2>4, <2>5
<1>13. CASE WriteFails
  BY <1>t, PathFacts, <1>13 DEF WriteFails, history, FilesInTurn, StampsInOrder, LastSavedKept, NextPath, Path, IsWhole
<1>14. CASE RemoveMain
  <2>1. \A p \in Path : file'[p] = IF p = Main THEN NotWhole ELSE file[p]
    BY <1>t, <1>14 DEF RemoveMain, TypeOK
  <2>2. FilesInTurn'
    BY <1>14, <2>1, PathFacts DEF RemoveMain, FilesInTurn, IsWhole, Path, Main, Backup
  <2>3. StampsInOrder' /\ LastSavedKept'
    BY <1>t, <1>14, <2>1 DEF RemoveMain, history, StampsInOrder, LastSavedKept, IsWhole
  <2> QED BY <2>2, <2>3
<1>15. CASE RemoveBackup
  <2>1. \A p \in Path : file'[p] = NotWhole
    BY <1>t, <1>15, PathFacts DEF RemoveBackup, TypeOK, FilesInTurn, IsWhole
  <2>2. FilesInTurn'
    BY <1>15 DEF RemoveBackup, FilesInTurn, Path, Main, Backup
  <2>3. StampsInOrder' /\ LastSavedKept'
    BY <1>15, <2>1 DEF RemoveBackup, StampsInOrder, LastSavedKept, IsWhole
  <2> QED BY <2>2, <2>3
<1>16. CASE PowerFailure
  BY <1>t, PathFacts, <1>16 DEF PowerFailure, history, FilesInTurn, StampsInOrder, LastSavedKept, NextPath, Path, IsWhole
<1>17. CASE SetClockBack
  BY <1>t, PathFacts, <1>17 DEF SetClockBack, history, FilesInTurn, StampsInOrder, LastSavedKept, NextPath, Path, IsWhole
<1>18. CASE UNCHANGED vars
  BY <1>t, PathFacts, <1>18 DEF vars, FilesInTurn, StampsInOrder, LastSavedKept, NextPath, Path, IsWhole
<1> QED
  BY <1>1, <1>2, <1>3, <1>4, <1>5, <1>6, <1>7, <1>8, <1>9, <1>10, <1>11, <1>12, <1>13, <1>14, <1>15, <1>16, <1>17, <1>18
  DEF Next, StartWithoutRecord, StartWithoutBoard

(* A session that may be resumed has been resumed no more often than the  *)
(* power failed while a record was being cleared.                          *)
LEMMA NextResumptions ==
    ASSUME RecordInvariant, [Next]_vars
    PROVE  SessionsBegun' /\ ResumptionLeft' /\ ResumedOnce'
<1>t. TypeOK /\ FilesInTurn /\ SessionsBegun /\ ResumptionLeft /\ ResumedOnce
  BY DEF RecordInvariant
<1>n. tornClearings \in Nat /\ \A s \in Session : resumptions[s] \in Nat
  BY <1>t DEF TypeOK
<1> DEFINE Goal == SessionsBegun' /\ ResumptionLeft' /\ ResumedOnce'
<1>1. CASE StartAfresh
  BY <1>t, <1>n, <1>1 DEF StartAfresh, SessionsBegun, ResumptionLeft, ResumedOnce, IsWhole
<1>2. CASE StartResuming
  <2>1. PICK p \in Path : IsWhole(p) /\ Chosen = file[p]
    BY <1>2, PathFacts DEF StartResuming, Usable, Chosen, IsWhole
  <2>2. /\ file[p].session \in begun /\ file[p].session \in Session
        /\ resumptions[file[p].session] <= tornClearings
    BY <1>t, <1>2, <2>1 DEF StartResuming, MayResume, SessionsBegun, ResumptionLeft, IsWhole, TypeOK, Record
  <2>3. \A s \in Session : resumptions'[s] =
          IF s = file[p].session THEN resumptions[s] + 1 ELSE resumptions[s]
    BY <1>t, <1>2, <2>1 DEF StartResuming, TypeOK
  <2>4. ResumedOnce'
    BY <1>t, <1>n, <1>2, <2>2, <2>3 DEF StartResuming, ResumedOnce
  <2>5. charger' = [session |-> file[p].session, phase |-> "charging", isResumedCharging |-> TRUE]
    BY <1>2, <2>1 DEF StartResuming
  <2>6. SessionsBegun'
    BY <1>t, <1>2, <2>2, <2>3, <2>5 DEF StartResuming, SessionsBegun, IsWhole
  <2>7. ResumptionLeft'
    BY <1>2, <2>5 DEF StartResuming, ResumptionLeft
  <2> QED BY <2>4, <2>6, <2>7
<1>3. CASE StartStopping
  BY <1>t, <1>n, <1>3 DEF StartStopping, history, SessionsBegun, ResumptionLeft, ResumedOnce, IsWhole
<1>4. ASSUME NEW s \in Session, StartCharge(s) PROVE Goal
  <2>1. resumptions[s] <= tornClearings
    BY <1>t, <1>n, <1>4 DEF StartCharge, SessionsBegun
  <2> QED BY <1>t, <1>4, <2>1 DEF StartCharge, SessionsBegun, ResumptionLeft, ResumedOnce, IsWhole
<1>5. CASE Suspend
  BY <1>t, <1>n, <1>5 DEF Suspend, history, SessionsBegun, ResumptionLeft, ResumedOnce, IsWhole
<1>6. CASE ResumeCharge
  BY <1>t, <1>n, <1>6 DEF ResumeCharge, history, SessionsBegun, ResumptionLeft, ResumedOnce, IsWhole
<1>7. CASE FinishCharge
  BY <1>t, <1>n, <1>7 DEF FinishCharge, history, SessionsBegun, ResumptionLeft, ResumedOnce, IsWhole
<1>8. CASE FinishTimerEvent
  BY <1>t, <1>8 DEF FinishTimerEvent, history, Idle, SessionsBegun, ResumptionLeft, ResumedOnce, IsWhole
<1>9. CASE CloseWithoutClearing
  BY <1>t, <1>9 DEF CloseWithoutClearing, history, Idle, SessionsBegun, ResumptionLeft, ResumedOnce, IsWhole
<1>10. CASE OpenRecord
  <2>1. \A p \in Path : file'[p] = NotWhole \/ file'[p] = file[p]
    BY <1>t, <1>10 DEF OpenRecord, TypeOK
  <2>2. step \notin {"clear", "clearBackup"}
    BY <1>10 DEF OpenRecord
  <2> QED BY <1>t, <1>10, <2>1, <2>2 DEF OpenRecord, history, SessionsBegun, ResumptionLeft, ResumedOnce, IsWhole
<1>11. CASE OpenFails
  BY <1>t, <1>n, <1>11 DEF OpenFails, history, SessionsBegun, ResumptionLeft, ResumedOnce, IsWhole
<1>12. ASSUME NEW r \in BOOLEAN, NEW i \in BOOLEAN, WriteRecord(r, i)
      PROVE  Goal
  <2> DEFINE new == NewRecord(r, i)
  <2>1. \A p \in Path : file'[p] = IF p = step THEN new ELSE file[p]
    BY <1>t, <1>12 DEF WriteRecord, TypeOK
  <2>2. /\ new.session = charger.session
        /\ new.isResumedCharge = charger.isResumedCharging
    BY DEF NewRecord
  <2>3. charger.phase = "charging" /\ charger.session \in begun /\ step \notin {"clear", "clearBackup"}
    BY <1>t, <1>12 DEF WriteRecord, FilesInTurn, SessionsBegun, Path, Main, Backup
  <2>4. UNCHANGED <<begun, resumptions, charger, tornClearings>>
    BY <1>12 DEF WriteRecord
  <2> HIDE DEF new
  <2>5. SessionsBegun'
    BY <1>t, <2>1, <2>2, <2>3, <2>4 DEF SessionsBegun, IsWhole
  <2>6. ResumptionLeft' /\ ResumedOnce'
    BY <1>t, <2>1, <2>2, <2>3, <2>4 DEF ResumptionLeft, ResumedOnce, IsWhole
  <2> QED BY <2>5, <2>6
<1>13. CASE WriteFails
  BY <1>t, <1>13 DEF WriteFails, SessionsBegun, ResumptionLeft, ResumedOnce, IsWhole, Path, Main, Backup
<1>14. CASE RemoveMain
  <2>1. \A p \in Path : file'[p] = NotWhole \/ file'[p] = file[p]
    BY <1>t, <1>14 DEF RemoveMain, TypeOK
  <2> QED BY <1>t, <1>14, <2>1 DEF RemoveMain, history, SessionsBegun, ResumptionLeft, ResumedOnce, IsWhole
<1>15. CASE RemoveBackup
  <2>1. \A p \in Path : file'[p] = NotWhole
    BY <1>t, <1>15, PathFacts DEF RemoveBackup, TypeOK, FilesInTurn, IsWhole
  <2> QED BY <1>t, <1>15, <2>1 DEF RemoveBackup, SessionsBegun, ResumptionLeft, ResumedOnce, IsWhole
<1>16. CASE PowerFailure
  <2>1. charger' = Idle /\ UNCHANGED <<file, begun, resumptions>> /\ step' = "off"
    BY <1>16 DEF PowerFailure
  <2>2. tornClearings' = IF step \in {"clear", "clearBackup"} THEN tornClearings + 1 ELSE tornClearings
    BY <1>16 DEF PowerFailure
  <2>3. ResumedOnce'
    BY <1>t, <1>n, <2>1, <2>2 DEF ResumedOnce
  <2>4. SessionsBegun'
    BY <1>t, <2>1 DEF SessionsBegun, IsWhole, Idle
  <2>5. ASSUME NEW p \in Path, file[p] # NotWhole, ~file[p].isResumedCharge
        PROVE  resumptions[file[p].session] <= tornClearings'
    <3>1. file[p].session \in Session
      BY <1>t, <2>5 DEF TypeOK, Record
    <3>2. CASE step \in {"clear", "clearBackup"}
      BY <1>t, <1>n, <2>2, <3>1, <3>2 DEF ResumedOnce
    <3>3. CASE step \notin {"clear", "clearBackup"}
      BY <1>t, <2>2, <2>5, <3>3 DEF ResumptionLeft, IsWhole
    <3> QED BY <3>2, <3>3
  <2>6. ResumptionLeft'
    BY <2>1, <2>5 DEF ResumptionLeft, IsWhole, Idle
  <2> QED BY <2>3, <2>4, <2>6
<1>17. CASE SetClockBack
  BY <1>t, <1>n, <1>17 DEF SetClockBack, history, SessionsBegun, ResumptionLeft, ResumedOnce, IsWhole
<1>18. CASE UNCHANGED vars
  BY <1>t, <1>n, <1>18 DEF vars, SessionsBegun, ResumptionLeft, ResumedOnce, IsWhole
<1> QED
  BY <1>1, <1>2, <1>3, <1>4, <1>5, <1>6, <1>7, <1>8, <1>9, <1>10, <1>11, <1>12, <1>13, <1>14, <1>15, <1>16, <1>17, <1>18
  DEF Next, StartWithoutRecord, StartWithoutBoard

-----------------------------------------------------------------------------

(* The inductive invariant holds in every reachable state. *)
THEOREM RecordInvariantHolds == Spec => []RecordInvariant
<1>1. RecordInvariant /\ [Next]_vars => RecordInvariant'
  BY NextTypeOK, NextFiles, NextResumptions DEF RecordInvariant
<1> QED BY <1>1, InitInvariant, PTL DEF Spec

(* ReadRecord finds the last record saved, whenever the power fails, if    *)
(* nothing has upset the files.                                            *)
THEOREM RecordNewestIsRead == Spec => []NewestIsRead
BY RecordInvariantHolds, InvariantNewestIsRead, PTL

(* A session is resumed once, and once more for each power failure while a *)
(* record was being cleared.                                               *)
THEOREM RecordResumedOnce == Spec => []ResumedOnce
<1>1. RecordInvariant => ResumedOnce
  BY DEF RecordInvariant
<1> QED BY <1>1, RecordInvariantHolds, PTL

(* The types of the variables. *)
THEOREM RecordTypeCorrect == Spec => []TypeOK
<1>1. RecordInvariant => TypeOK
  BY DEF RecordInvariant
<1> QED BY <1>1, RecordInvariantHolds, PTL
=============================================================================
