--------------------------- MODULE CsUpdatesProofs ---------------------------
(***************************************************************************)
(* Proofs about CsUpdates, for any packages, numbers of retries, tags and  *)
(* versions of the list, and any number of requests and restarts. The      *)
(* invariant of the firmware update says, besides its properties, what a   *)
(* boot leaves of the program (BootedClean), that the state is always what *)
(* the state file would be loaded as, torn or not, how attempts and the    *)
(* attempts that remain add up with one uncounted for each power failure,  *)
(* which package the script has, and that an installation in progress has  *)
(* used its package up.                                                    *)
(***************************************************************************)
EXTENDS CsUpdates, TLAPS

Loaded == system \in {"Program", "Quit"}

(* A boot leaves no timer, no process and no report. *)
BootedClean ==
    ~Loaded =>
        /\ ~downldSchTimer /\ ~checkFile
        /\ downloadProc = NoPackage /\ fwupdateProc = NoPackage
        /\ told = "Nothing"

(* DownloadPursued, up to the reboot. The program goes on with the state   *)
(* it would load, and after a torn save a boot loads the state at once.    *)
DownloadInv ==
    /\ stateFile = downldSt
    /\ BootedClean
    /\ Loaded /\ ~downldSt.downloaded => downldSchTimer \/ downloadProc # NoPackage
    /\ ~downldSt.downloaded => downldSt.downloadUri # NoPackage
    /\ downldSchTimer => ~downldSt.downloaded /\ downloadProc = NoPackage
    /\ downloadProc # NoPackage =>
            ~downldSt.downloaded /\ downloadProc = downldSt.downloadUri
    /\ wanted # NoPackage /\ ~forgotten =>
            ~downldSt.downloaded /\ downldSt.downloadUri = wanted

(* Each attempt takes one of those that remain, except one whose save a    *)
(* power failure prevented: that one is made up for by the start of the    *)
(* program to come. One below the last needs a start of the program, too.  *)
AttemptInv ==
    /\ attempts <= downldSt.retries + restarts
    /\ downldSchTimer => attempts < downldSt.retries + restarts
    /\ attempts + downldSt.remainAttempts
            <= downldSt.retries + restarts + (IF Loaded THEN 0 ELSE 1)

(* The package to check is one; the script has the one downloaded last     *)
(* unless that one came meanwhile.                                         *)
ReportInv ==
    /\ checkFile => downldSt.downloadPath # NoPackage
    /\ told = "Downloaded" => checkFile \/ fwupdateProc # NoPackage
    /\ fwupdateProc # NoPackage /\ ~overlapped => fwupdateProc = downldSt.downloadPath
    /\ told = "Installing" /\ ~overlapped => marker = downldSt.downloadPath

(* Partial firmware under a result OK of an earlier installation is found  *)
(* out at the next start of the script: its package is gone.               *)
ResultInv ==
    /\ system = "Installing" => marker # NoPackage /\ marker \notin files
    /\ system = "Restoring" => resultFile # "OK"
    /\ resultFile = "OK" /\ firmware # "Whole" =>
            /\ system \in {"Installing", "Script"}
            /\ marker # NoPackage /\ marker \notin files

(* The types in two parts: the flags, and the rest. *)
FlagsOK ==
    /\ available \in BOOLEAN /\ downldSchTimer \in BOOLEAN
    /\ checkFile \in BOOLEAN /\ checkResult \in BOOLEAN /\ rebootPending \in BOOLEAN
    /\ busy \in BOOLEAN /\ overlapped \in BOOLEAN /\ forgotten \in BOOLEAN

ValuesOK ==
    /\ downldSt \in DownloadState /\ stateFile \in DownloadState
    /\ wanted \in Package \cup {NoPackage}
    /\ downloadProc \in Package \cup {NoPackage}
    /\ fwupdateProc \in Package \cup {NoPackage}
    /\ marker \in Package \cup {NoPackage}
    /\ files \subseteq Package
    /\ resultFile \in {"None", "OK", "NG"}
    /\ system \in {"Program", "Quit", "Script", "Installing", "Restoring", "Installed"}
    /\ firmware \in {"Whole", "Partial"}
    /\ told \in FirmwareStatus \cup {"Nothing"}
    /\ requests \in 0..MaxRequests
    /\ attempts \in Nat
    /\ restarts \in 0..MaxRestarts

FirmwareInv ==
    FirmwareTypeOK /\ DownloadInv /\ AttemptInv /\ ReportInv /\ ResultInv

ListInv == ListTypeOK /\ ListMatchesVersion

IInv == FirmwareInv /\ ListInv

USE FirmwareAssumption, ListAssumption

-----------------------------------------------------------------------------
(* Every step leaves flags that are flags. *)
LEMMA FlagsStep ==
    FirmwareInv /\ [FirmwareNext]_firmwareVars => FlagsOK'
<1> SUFFICES ASSUME FirmwareInv, [FirmwareNext]_firmwareVars PROVE FlagsOK'
    OBVIOUS
<1> USE DEF FirmwareInv, FirmwareTypeOK, FlagsOK, schedulerVars, programVars, fileVars,
       systemVars, countVars, Running
<1>1. ASSUME NEW p \in Package, NEW retries \in Retries, NEW availNow \in BOOLEAN,
             NewUpdateRequest(p, retries, availNow)
      PROVE  FlagsOK'
    BY <1>1, Zenon DEF NewUpdateRequest
<1>2. CASE AvailDateTimeComes
    BY <1>2, Zenon DEF AvailDateTimeComes
<1>3. ASSUME NEW linkOk \in BOOLEAN, OnDownldSchTimeout(linkOk)
      PROVE  FlagsOK'
    BY <1>3, Zenon DEF OnDownldSchTimeout
<1>4. CASE DownloadFails
    BY <1>4, Zenon DEF DownloadFails, GivenUp
<1>5. CASE DownloadCompletes
    BY <1>5, Zenon DEF DownloadCompletes
<1>6. CASE OnCheckDownloadedFile
    BY <1>6, Zenon DEF OnCheckDownloadedFile
<1>7. ASSUME NEW outcome \in {"prepared", "refused", "crashed"}, PrepareEnds(outcome)
      PROVE  FlagsOK'
    BY <1>7, Zenon DEF PrepareEnds
<1>8. CASE BusyChanges
    BY <1>8, Zenon DEF BusyChanges
<1>9. CASE BlinkReboots
    BY <1>9, Zenon DEF BlinkReboots
<1>10. CASE BootNotificationAccepted
    BY <1>10, Zenon DEF BootNotificationAccepted
<1>11. CASE OnCheckInstallResult
    BY <1>11, Zenon DEF OnCheckInstallResult
<1>12. CASE Reboot \/ PowerFailure
    BY <1>12, Zenon DEF Reboot, PowerFailure, Boot
<1>13. ASSUME NEW opens \in BOOLEAN, OpenPackage(opens)
      PROVE  FlagsOK'
    BY <1>13, Zenon DEF OpenPackage
<1>14. CASE BeginInstall
    BY <1>14, Zenon DEF BeginInstall
<1>15. ASSUME NEW succeeds \in BOOLEAN, EndInstall(succeeds)
      PROVE  FlagsOK'
    BY <1>15, Zenon DEF EndInstall
<1>16. ASSUME NEW succeeds \in BOOLEAN, Restore(succeeds)
      PROVE  FlagsOK'
    BY <1>16, Zenon DEF Restore
<1>17. CASE FinishInstall
    BY <1>17, Zenon DEF FinishInstall
<1>18. CASE StartProgram
    BY <1>18, Zenon DEF StartProgram
<1>19. CASE UNCHANGED firmwareVars
    BY <1>19, Zenon DEF firmwareVars
<1>20. ASSUME NEW torn \in BOOLEAN, PowerFailureInSave(torn)
      PROVE  FlagsOK'
    BY <1>20, Zenon DEF PowerFailureInSave, RequestSaves, AttemptSaves, FailureSaves,
       CompletionSaves, TornFile, NoUpdate, Boot
<1> QED
    BY <1>1, <1>2, <1>3, <1>4, <1>5, <1>6, <1>7, <1>8, <1>9, <1>10,
       <1>11, <1>12, <1>13, <1>14, <1>15, <1>16, <1>17, <1>18, <1>19,
       <1>20
    DEF FirmwareNext

(* What the constructor starts with is a download state. *)
LEMMA NoUpdateState == NoUpdate \in DownloadState
<1>1. DefaultNumDownloadRetries \in Int
    OBVIOUS
<1> QED
    BY <1>1 DEF NoUpdate, DownloadState

(* What a request makes of the download state is one. *)
LEMMA RequestedState ==
    ASSUME NEW s \in DownloadState, NEW p \in Package, NEW retries \in Retries
    PROVE  [s EXCEPT !.downloaded = FALSE, !.downloadUri = p,
                     !.retries = retries, !.remainAttempts = retries] \in DownloadState
<1>1. retries \in Int
    OBVIOUS
<1> QED
    BY <1>1 DEF DownloadState

(* So is what giving up makes of it. *)
LEMMA GivenUpState ==
    ASSUME NEW s \in DownloadState
    PROVE  [s EXCEPT !.downloaded = TRUE] \in DownloadState
    BY DEF DownloadState

(* So is what an attempt makes of it, the last one included. *)
LEMMA TriedState ==
    ASSUME NEW s \in DownloadState
    PROVE  LET tried == [s EXCEPT !.remainAttempts = @ - 1] IN
           tried \in DownloadState /\ [tried EXCEPT !.downloaded = TRUE] \in DownloadState
<1>1. [s EXCEPT !.remainAttempts = @ - 1] \in DownloadState
    BY DEF DownloadState
<1> QED
    BY <1>1, GivenUpState

(* Every step leaves states, packages and counts in their ranges. *)
LEMMA ValuesStep ==
    FirmwareInv /\ [FirmwareNext]_firmwareVars => ValuesOK'
<1> SUFFICES ASSUME FirmwareInv, [FirmwareNext]_firmwareVars PROVE ValuesOK'
    OBVIOUS
<1> USE DEF FirmwareInv, FirmwareTypeOK, ValuesOK, DownloadState, FirmwareStatus,
       schedulerVars, programVars, fileVars,
       systemVars, countVars, Running
<1>1. ASSUME NEW p \in Package, NEW retries \in Retries, NEW availNow \in BOOLEAN,
             NewUpdateRequest(p, retries, availNow)
      PROVE  ValuesOK'
    <2>1. downldSt' \in DownloadState /\ stateFile' \in DownloadState
        BY <1>1, RequestedState, Zenon DEF NewUpdateRequest
    <2> QED
        BY <1>1, <2>1, SMTT(20) DEF NewUpdateRequest
<1>2. CASE AvailDateTimeComes
    BY <1>2 DEF AvailDateTimeComes
<1>3. ASSUME NEW linkOk \in BOOLEAN, OnDownldSchTimeout(linkOk)
      PROVE  ValuesOK'
    <2>1. downldSt' \in DownloadState /\ stateFile' \in DownloadState
        BY <1>3, TriedState DEF OnDownldSchTimeout
    <2>2. told' \in FirmwareStatus \cup {"Nothing"}
        BY <1>3 DEF OnDownldSchTimeout, IsFirstAttempt
    <2> QED
        BY <1>3, <2>1, <2>2, SMTT(20) DEF OnDownldSchTimeout
<1>4. CASE DownloadFails
    <2>1. downldSt' \in DownloadState /\ stateFile' \in DownloadState
        BY <1>4, GivenUpState DEF DownloadFails, GivenUp
    <2> QED
        BY <1>4, <2>1 DEF DownloadFails
<1>5. CASE DownloadCompletes
    BY <1>5 DEF DownloadCompletes
<1>6. CASE OnCheckDownloadedFile
    BY <1>6 DEF OnCheckDownloadedFile
<1>7. ASSUME NEW outcome \in {"prepared", "refused", "crashed"}, PrepareEnds(outcome)
      PROVE  ValuesOK'
    BY <1>7 DEF PrepareEnds
<1>8. CASE BusyChanges
    BY <1>8 DEF BusyChanges
<1>9. CASE BlinkReboots
    BY <1>9 DEF BlinkReboots
<1>10. CASE BootNotificationAccepted
    BY <1>10 DEF BootNotificationAccepted
<1>11. CASE OnCheckInstallResult
    BY <1>11 DEF OnCheckInstallResult
<1>12. CASE Reboot \/ PowerFailure
    BY <1>12 DEF Reboot, PowerFailure, Boot
<1>13. ASSUME NEW opens \in BOOLEAN, OpenPackage(opens)
      PROVE  ValuesOK'
    BY <1>13 DEF OpenPackage
<1>14. CASE BeginInstall
    BY <1>14 DEF BeginInstall
<1>15. ASSUME NEW succeeds \in BOOLEAN, EndInstall(succeeds)
      PROVE  ValuesOK'
    BY <1>15 DEF EndInstall
<1>16. ASSUME NEW succeeds \in BOOLEAN, Restore(succeeds)
      PROVE  ValuesOK'
    BY <1>16 DEF Restore
<1>17. CASE FinishInstall
    BY <1>17 DEF FinishInstall
<1>18. CASE StartProgram
    BY <1>18 DEF StartProgram
<1>19. CASE UNCHANGED firmwareVars
    BY <1>19 DEF firmwareVars
<1>20. ASSUME NEW torn \in BOOLEAN, PowerFailureInSave(torn)
      PROVE  ValuesOK'
    BY <1>20, NoUpdateState DEF PowerFailureInSave, RequestSaves, AttemptSaves, FailureSaves,
       CompletionSaves, TornFile, NoUpdate, Boot
<1> QED
    BY <1>1, <1>2, <1>3, <1>4, <1>5, <1>6, <1>7, <1>8, <1>9, <1>10,
       <1>11, <1>12, <1>13, <1>14, <1>15, <1>16, <1>17, <1>18, <1>19,
       <1>20
    DEF FirmwareNext

(* A step leaves every update that is not downloaded with its timer or its *)
(* curl.                                                                   *)
LEMMA DownloadStep ==
    FirmwareInv /\ [FirmwareNext]_firmwareVars => DownloadInv'
<1> SUFFICES ASSUME FirmwareInv, [FirmwareNext]_firmwareVars PROVE DownloadInv'
    OBVIOUS
<1> USE DEF FirmwareInv, FirmwareTypeOK, DownloadState, DownloadInv, AttemptInv,
       BootedClean, Loaded, schedulerVars, programVars, fileVars,
       systemVars, countVars, Running
<1>1. ASSUME NEW p \in Package, NEW retries \in Retries, NEW availNow \in BOOLEAN,
             NewUpdateRequest(p, retries, availNow)
      PROVE  DownloadInv'
    BY <1>1 DEF NewUpdateRequest
<1>2. CASE AvailDateTimeComes
    BY <1>2 DEF AvailDateTimeComes
<1>3. ASSUME NEW linkOk \in BOOLEAN, OnDownldSchTimeout(linkOk)
      PROVE  DownloadInv'
    <2>1. ~downldSt.downloaded /\ downloadProc = NoPackage /\ Loaded'
        BY <1>3 DEF OnDownldSchTimeout
    <2>2. CASE linkOk
        BY <1>3, <2>1, <2>2 DEF OnDownldSchTimeout
    <2>3. CASE ~linkOk /\ downldSt.remainAttempts - 1 > 0
        BY <1>3, <2>1, <2>3 DEF OnDownldSchTimeout
    <2>4. CASE ~linkOk /\ ~(downldSt.remainAttempts - 1 > 0)
        BY <1>3, <2>1, <2>4 DEF OnDownldSchTimeout
    <2> QED
        BY <2>2, <2>3, <2>4
<1>4. CASE DownloadFails
    BY <1>4 DEF DownloadFails, GivenUp
<1>5. CASE DownloadCompletes
    BY <1>5 DEF DownloadCompletes
<1>6. CASE OnCheckDownloadedFile
    BY <1>6 DEF OnCheckDownloadedFile
<1>7. ASSUME NEW outcome \in {"prepared", "refused", "crashed"}, PrepareEnds(outcome)
      PROVE  DownloadInv'
    BY <1>7 DEF PrepareEnds
<1>8. CASE BusyChanges
    BY <1>8 DEF BusyChanges
<1>9. CASE BlinkReboots
    BY <1>9 DEF BlinkReboots
<1>10. CASE BootNotificationAccepted
    BY <1>10 DEF BootNotificationAccepted
<1>11. CASE OnCheckInstallResult
    BY <1>11 DEF OnCheckInstallResult
<1>12. CASE Reboot \/ PowerFailure
    BY <1>12 DEF Reboot, PowerFailure, Boot
<1>13. ASSUME NEW opens \in BOOLEAN, OpenPackage(opens)
      PROVE  DownloadInv'
    BY <1>13 DEF OpenPackage
<1>14. CASE BeginInstall
    BY <1>14 DEF BeginInstall
<1>15. ASSUME NEW succeeds \in BOOLEAN, EndInstall(succeeds)
      PROVE  DownloadInv'
    BY <1>15 DEF EndInstall
<1>16. ASSUME NEW succeeds \in BOOLEAN, Restore(succeeds)
      PROVE  DownloadInv'
    BY <1>16 DEF Restore
<1>17. CASE FinishInstall
    BY <1>17 DEF FinishInstall
<1>18. CASE StartProgram
    BY <1>18 DEF StartProgram
<1>19. CASE UNCHANGED firmwareVars
    BY <1>19 DEF firmwareVars
<1>20. ASSUME NEW torn \in BOOLEAN, PowerFailureInSave(torn)
      PROVE  DownloadInv'
    BY <1>20 DEF PowerFailureInSave, RequestSaves, AttemptSaves, FailureSaves,
       CompletionSaves, TornFile, NoUpdate, Boot
<1> QED
    BY <1>1, <1>2, <1>3, <1>4, <1>5, <1>6, <1>7, <1>8, <1>9, <1>10,
       <1>11, <1>12, <1>13, <1>14, <1>15, <1>16, <1>17, <1>18, <1>19,
       <1>20
    DEF FirmwareNext

(* An attempt takes one of those that remain; only a start of the program  *)
(* adds one.                                                               *)
LEMMA AttemptStep ==
    FirmwareInv /\ [FirmwareNext]_firmwareVars => AttemptInv'
<1> SUFFICES ASSUME FirmwareInv, [FirmwareNext]_firmwareVars PROVE AttemptInv'
    OBVIOUS
<1> USE DEF FirmwareInv, FirmwareTypeOK, DownloadState, DownloadInv, AttemptInv,
       BootedClean, Loaded, schedulerVars, programVars, fileVars,
       systemVars, countVars, Running
<1> DEFINE n == downldSt.retries
           m == downldSt.remainAttempts
<1>a. n \in Int /\ m \in Int /\ attempts \in Int /\ restarts \in Int
    <2>1. n \in Retries /\ m \in Int
        OBVIOUS
    <2>2. attempts \in Int /\ restarts \in Int
        OBVIOUS
    <2>3. Retries \subseteq Int
        OBVIOUS
    <2> QED
        BY <2>1, <2>2, <2>3, Zenon
<1>1. ASSUME NEW p \in Package, NEW retries \in Retries, NEW availNow \in BOOLEAN,
             NewUpdateRequest(p, retries, availNow)
      PROVE  AttemptInv'
    BY <1>1 DEF NewUpdateRequest
<1>2. CASE AvailDateTimeComes
    BY <1>2 DEF AvailDateTimeComes
<1>3. ASSUME NEW linkOk \in BOOLEAN, OnDownldSchTimeout(linkOk)
      PROVE  AttemptInv'
    BY <1>3, SMTT(20) DEF OnDownldSchTimeout, IsFirstAttempt
<1>4. CASE DownloadFails
    BY <1>4 DEF DownloadFails, GivenUp
<1>5. CASE DownloadCompletes
    BY <1>5 DEF DownloadCompletes
<1>6. CASE OnCheckDownloadedFile
    BY <1>6 DEF OnCheckDownloadedFile
<1>7. ASSUME NEW outcome \in {"prepared", "refused", "crashed"}, PrepareEnds(outcome)
      PROVE  AttemptInv'
    BY <1>7 DEF PrepareEnds
<1>8. CASE BusyChanges
    BY <1>8 DEF BusyChanges
<1>9. CASE BlinkReboots
    BY <1>9 DEF BlinkReboots
<1>10. CASE BootNotificationAccepted
    BY <1>10 DEF BootNotificationAccepted
<1>11. CASE OnCheckInstallResult
    BY <1>11 DEF OnCheckInstallResult
<1>12. CASE Reboot \/ PowerFailure
    <2>1. /\ downldSt' = downldSt /\ ~downldSchTimer' /\ ~Loaded'
          /\ UNCHANGED <<attempts, restarts>>
        BY <1>12 DEF Reboot, PowerFailure, Boot
    <2> QED
        BY <2>1, <1>a
<1>13. ASSUME NEW opens \in BOOLEAN, OpenPackage(opens)
      PROVE  AttemptInv'
    BY <1>13 DEF OpenPackage
<1>14. CASE BeginInstall
    BY <1>14 DEF BeginInstall
<1>15. ASSUME NEW succeeds \in BOOLEAN, EndInstall(succeeds)
      PROVE  AttemptInv'
    BY <1>15 DEF EndInstall
<1>16. ASSUME NEW succeeds \in BOOLEAN, Restore(succeeds)
      PROVE  AttemptInv'
    BY <1>16 DEF Restore
<1>17. CASE FinishInstall
    BY <1>17 DEF FinishInstall
<1>18. CASE StartProgram
    <2>1. /\ downldSt' = downldSt /\ Loaded' /\ ~Loaded
          /\ attempts' = attempts /\ restarts' = restarts + 1
        BY <1>18 DEF StartProgram
    <2> QED
        BY <2>1, <1>a
<1>19. CASE UNCHANGED firmwareVars
    BY <1>19 DEF firmwareVars
<1>20. ASSUME NEW torn \in BOOLEAN, PowerFailureInSave(torn)
      PROVE  AttemptInv'
    <2>1. /\ ~downldSchTimer' /\ ~Loaded' /\ Loaded
          /\ restarts' = restarts
        BY <1>20 DEF PowerFailureInSave, Boot
    <2>2. CASE torn
        <3>1. downldSt' = NoUpdate /\ attempts' = 0
            BY <1>20, <2>2 DEF PowerFailureInSave, Boot, TornFile
        <3>2. /\ NoUpdate.retries = NoUpdate.remainAttempts
              /\ NoUpdate.retries \in Nat
            BY DEF NoUpdate
        <3> QED
            BY <2>1, <3>1, <3>2, <1>a
    <2>3. CASE ~torn
        <3>1. downldSt' = downldSt
            BY <1>20, <2>3 DEF PowerFailureInSave, Boot
        <3>2. \/ attempts' = attempts
              \/ downldSchTimer /\ attempts' = attempts + 1
            BY <1>20, <2>3 DEF PowerFailureInSave, AttemptSaves
        <3> QED
            BY <2>1, <3>1, <3>2, <1>a
    <2> QED
        BY <2>2, <2>3
<1> QED
    BY <1>1, <1>2, <1>3, <1>4, <1>5, <1>6, <1>7, <1>8, <1>9, <1>10,
       <1>11, <1>12, <1>13, <1>14, <1>15, <1>16, <1>17, <1>18, <1>19,
       <1>20
    DEF FirmwareNext

(* A step reports the package it is about. *)
LEMMA ReportStep ==
    FirmwareInv /\ [FirmwareNext]_firmwareVars => ReportInv'
<1> SUFFICES ASSUME FirmwareInv, [FirmwareNext]_firmwareVars PROVE ReportInv'
    OBVIOUS
<1> USE DEF FirmwareInv, FirmwareTypeOK, DownloadState, DownloadInv, ReportInv,
       BootedClean, Loaded, schedulerVars, programVars, fileVars,
       systemVars, countVars, Running
<1>1. ASSUME NEW p \in Package, NEW retries \in Retries, NEW availNow \in BOOLEAN,
             NewUpdateRequest(p, retries, availNow)
      PROVE  ReportInv'
    BY <1>1 DEF NewUpdateRequest
<1>2. CASE AvailDateTimeComes
    BY <1>2 DEF AvailDateTimeComes
<1>3. ASSUME NEW linkOk \in BOOLEAN, OnDownldSchTimeout(linkOk)
      PROVE  ReportInv'
    BY <1>3 DEF OnDownldSchTimeout, IsFirstAttempt
<1>4. CASE DownloadFails
    BY <1>4 DEF DownloadFails, GivenUp
<1>5. CASE DownloadCompletes
    BY <1>5 DEF DownloadCompletes
<1>6. CASE OnCheckDownloadedFile
    BY <1>6 DEF OnCheckDownloadedFile
<1>7. ASSUME NEW outcome \in {"prepared", "refused", "crashed"}, PrepareEnds(outcome)
      PROVE  ReportInv'
    BY <1>7 DEF PrepareEnds
<1>8. CASE BusyChanges
    BY <1>8 DEF BusyChanges
<1>9. CASE BlinkReboots
    BY <1>9 DEF BlinkReboots
<1>10. CASE BootNotificationAccepted
    BY <1>10 DEF BootNotificationAccepted
<1>11. CASE OnCheckInstallResult
    BY <1>11 DEF OnCheckInstallResult
<1>12. CASE Reboot \/ PowerFailure
    BY <1>12 DEF Reboot, PowerFailure, Boot
<1>13. ASSUME NEW opens \in BOOLEAN, OpenPackage(opens)
      PROVE  ReportInv'
    BY <1>13 DEF OpenPackage
<1>14. CASE BeginInstall
    BY <1>14 DEF BeginInstall
<1>15. ASSUME NEW succeeds \in BOOLEAN, EndInstall(succeeds)
      PROVE  ReportInv'
    BY <1>15 DEF EndInstall
<1>16. ASSUME NEW succeeds \in BOOLEAN, Restore(succeeds)
      PROVE  ReportInv'
    BY <1>16 DEF Restore
<1>17. CASE FinishInstall
    BY <1>17 DEF FinishInstall
<1>18. CASE StartProgram
    BY <1>18 DEF StartProgram
<1>19. CASE UNCHANGED firmwareVars
    BY <1>19 DEF firmwareVars
<1>20. ASSUME NEW torn \in BOOLEAN, PowerFailureInSave(torn)
      PROVE  ReportInv'
    BY <1>20 DEF PowerFailureInSave, RequestSaves, AttemptSaves, FailureSaves,
       CompletionSaves, TornFile, NoUpdate, Boot
<1> QED
    BY <1>1, <1>2, <1>3, <1>4, <1>5, <1>6, <1>7, <1>8, <1>9, <1>10,
       <1>11, <1>12, <1>13, <1>14, <1>15, <1>16, <1>17, <1>18, <1>19,
       <1>20
    DEF FirmwareNext

(* A step leaves no result OK over firmware that will be taken for whole. *)
LEMMA ResultStep ==
    FirmwareInv /\ [FirmwareNext]_firmwareVars => ResultInv'
<1> SUFFICES ASSUME FirmwareInv, [FirmwareNext]_firmwareVars PROVE ResultInv'
    OBVIOUS
<1> USE DEF FirmwareInv, FirmwareTypeOK, DownloadState, DownloadInv, ResultInv,
       BootedClean, Loaded, schedulerVars, programVars, fileVars,
       systemVars, countVars, Running
<1>1. ASSUME NEW p \in Package, NEW retries \in Retries, NEW availNow \in BOOLEAN,
             NewUpdateRequest(p, retries, availNow)
      PROVE  ResultInv'
    BY <1>1 DEF NewUpdateRequest
<1>2. CASE AvailDateTimeComes
    BY <1>2 DEF AvailDateTimeComes
<1>3. ASSUME NEW linkOk \in BOOLEAN, OnDownldSchTimeout(linkOk)
      PROVE  ResultInv'
    BY <1>3 DEF OnDownldSchTimeout, IsFirstAttempt
<1>4. CASE DownloadFails
    BY <1>4 DEF DownloadFails, GivenUp
<1>5. CASE DownloadCompletes
    BY <1>5 DEF DownloadCompletes
<1>6. CASE OnCheckDownloadedFile
    BY <1>6 DEF OnCheckDownloadedFile
<1>7. ASSUME NEW outcome \in {"prepared", "refused", "crashed"}, PrepareEnds(outcome)
      PROVE  ResultInv'
    BY <1>7 DEF PrepareEnds
<1>8. CASE BusyChanges
    BY <1>8 DEF BusyChanges
<1>9. CASE BlinkReboots
    BY <1>9 DEF BlinkReboots
<1>10. CASE BootNotificationAccepted
    BY <1>10 DEF BootNotificationAccepted
<1>11. CASE OnCheckInstallResult
    BY <1>11 DEF OnCheckInstallResult
<1>12. CASE Reboot \/ PowerFailure
    BY <1>12 DEF Reboot, PowerFailure, Boot
<1>13. ASSUME NEW opens \in BOOLEAN, OpenPackage(opens)
      PROVE  ResultInv'
    BY <1>13 DEF OpenPackage
<1>14. CASE BeginInstall
    BY <1>14 DEF BeginInstall
<1>15. ASSUME NEW succeeds \in BOOLEAN, EndInstall(succeeds)
      PROVE  ResultInv'
    BY <1>15 DEF EndInstall
<1>16. ASSUME NEW succeeds \in BOOLEAN, Restore(succeeds)
      PROVE  ResultInv'
    BY <1>16 DEF Restore
<1>17. CASE FinishInstall
    BY <1>17 DEF FinishInstall
<1>18. CASE StartProgram
    BY <1>18 DEF StartProgram
<1>19. CASE UNCHANGED firmwareVars
    BY <1>19 DEF firmwareVars
<1>20. ASSUME NEW torn \in BOOLEAN, PowerFailureInSave(torn)
      PROVE  ResultInv'
    BY <1>20 DEF PowerFailureInSave, RequestSaves, AttemptSaves, FailureSaves,
       CompletionSaves, TornFile, NoUpdate, Boot
<1> QED
    BY <1>1, <1>2, <1>3, <1>4, <1>5, <1>6, <1>7, <1>8, <1>9, <1>10,
       <1>11, <1>12, <1>13, <1>14, <1>15, <1>16, <1>17, <1>18, <1>19,
       <1>20
    DEF FirmwareNext

-----------------------------------------------------------------------------
(* A charger without any update satisfies the invariant. *)
LEMMA FirmwareInvariantInit == FirmwareInit => FirmwareInv
<1> SUFFICES ASSUME FirmwareInit PROVE FirmwareInv
    OBVIOUS
<1> USE DEF FirmwareInit, FirmwareInv
<1>1. FirmwareTypeOK
    <2>1. downldSt \in DownloadState
        BY NoUpdateState
    <2>2. FlagsOK
        BY Zenon DEF FlagsOK
    <2>3. ValuesOK
        BY <2>1 DEF ValuesOK
    <2> QED
        BY <2>2, <2>3, Zenon DEF FirmwareTypeOK, FlagsOK, ValuesOK
<1>2. DownloadInv /\ AttemptInv
    BY DEF DownloadInv, BootedClean, Loaded, AttemptInv, NoUpdate
<1>3. ReportInv /\ ResultInv
    BY DEF ReportInv, ResultInv
<1> QED
    BY <1>1, <1>2, <1>3

(* Every step of the update keeps the invariant, crashes included. *)
LEMMA FirmwareInvariantStep ==
    FirmwareInv /\ [FirmwareNext]_firmwareVars => FirmwareInv'
<1> SUFFICES ASSUME FirmwareInv, [FirmwareNext]_firmwareVars PROVE FirmwareInv'
    OBVIOUS
<1>1. FirmwareTypeOK'
    BY FlagsStep, ValuesStep, Zenon DEF FirmwareTypeOK, FlagsOK, ValuesOK
<1> QED
    BY <1>1, DownloadStep, AttemptStep, ReportStep, ResultStep, Zenon DEF FirmwareInv

-----------------------------------------------------------------------------
(* What a differential update makes of the items of the charger's version  *)
(* are those of the CS's: elsewhere the two versions agree.                *)
LEMMA UpdatedToCsVersion ==
    ASSUME ListTypeOK, list = ListStatus[listVersion]
    PROVE  UpdatedItems = ListStatus[csVersion]
<1>1. /\ ListStatus[csVersion] \in [Tag -> Status \cup {NotListed}]
      /\ ListStatus[listVersion] \in [Tag -> Status \cup {NotListed}]
    BY DEF ListTypeOK
<1>2. \A t \in Tag : UpdatedItems[t] = ListStatus[csVersion][t]
    BY DEF UpdatedItems, Changed
<1> QED
    BY <1>1, <1>2 DEF UpdatedItems

(* A differential update leaves a list of items. *)
LEMMA UpdatedItemsType ==
    ASSUME ListTypeOK
    PROVE  UpdatedItems \in [Tag -> Status \cup {NotListed}]
BY DEF ListTypeOK, UpdatedItems

(* The empty list is that of version 0. *)
LEMMA ListInvariantInit == ListInit => ListInv
<1>1. 0 \in 0..MaxVersion
    OBVIOUS
<1>2. ListStatus[0] \in [Tag -> Status \cup {NotListed}]
    BY <1>1
<1> QED
    BY <1>1, <1>2 DEF ListInit, ListInv, ListTypeOK, ListMatchesVersion

(* A step of the list takes its items and its version over together, or    *)
(* marks it as interrupted.                                                *)
LEMMA ListInvariantStep ==
    ASSUME ListInv,
           \/ CsEditsList \/ SendDifferentialList \/ SendFullList \/ ListInterrupted
           \/ UNCHANGED listVars
    PROVE  ListInv'
<1> USE DEF ListInv, ListTypeOK
<1>1. CASE CsEditsList
    BY <1>1 DEF CsEditsList, ListMatchesVersion
<1>2. CASE SendDifferentialList
    <2>1. ListTypeOK'
        BY <1>2, UpdatedItemsType DEF SendDifferentialList
    <2>2. ListMatchesVersion'
        BY <1>2, UpdatedToCsVersion DEF SendDifferentialList, ListMatchesVersion
    <2> QED
        BY <2>1, <2>2
<1>3. CASE SendFullList
    BY <1>3 DEF SendFullList, ListMatchesVersion
<1>4. CASE ListInterrupted
    BY <1>4, UpdatedItemsType DEF ListInterrupted, ListMatchesVersion
<1>5. CASE UNCHANGED listVars
    BY <1>5 DEF listVars, ListMatchesVersion
<1> QED
    BY <1>1, <1>2, <1>3, <1>4, <1>5

-----------------------------------------------------------------------------
(* The strengthened invariant of both parts holds in every state, power    *)
(* failures, torn state files and interrupted updates of the list          *)
(* included.                                                               *)
THEOREM UpdatesInvariant == Spec => []IInv
<1>1. Init => IInv
    BY FirmwareInvariantInit, ListInvariantInit DEF Init, IInv
<1>2. IInv /\ [Next]_vars => IInv'
    <2> SUFFICES ASSUME IInv, [Next]_vars PROVE IInv'
        OBVIOUS
    <2>1. [FirmwareNext]_firmwareVars
        BY DEF Next, UpdateFirmware, UpdateList, StoppedInListUpdate, FirmwareNext, vars
    <2>2. \/ CsEditsList \/ SendDifferentialList \/ SendFullList \/ ListInterrupted
          \/ UNCHANGED listVars
        BY DEF Next, UpdateFirmware, UpdateList, StoppedInListUpdate, vars
    <2> QED
        BY <2>1, <2>2, FirmwareInvariantStep, ListInvariantStep, Zenon DEF IInv
<1> QED
    BY <1>1, <1>2, PTL DEF Spec

(* The variables of both parts keep their types.                           *)
THEOREM UpdatesTypeCorrect == Spec => []TypeOK
<1>1. IInv => TypeOK
    BY DEF TypeOK, IInv, FirmwareInv, ListInv
<1> QED
    BY <1>1, UpdatesInvariant, PTL

(* An update that is not downloaded has its timer or its curl, never both; *)
(* and the latest request is pursued for its package until it is           *)
(* downloaded or given up, over any number of starts, unless a power       *)
(* failure tore the state file since (newUpdateRequest,                    *)
(* onDownldSchTimeout, onFirmwareDownloadFailed, saveStateToFile, the      *)
(* constructor).                                                           *)
THEOREM UpdatesDownloadPursued == Spec => []DownloadPursued
<1>1. IInv => DownloadPursued
    BY DEF DownloadPursued, Running, IInv, FirmwareInv, DownloadInv, Loaded
<1> QED
    BY <1>1, UpdatesInvariant, PTL

(* A request gets its attempts and one more for each start of the program  *)
(* (onDownldSchTimeout, scheduleNewDownload).                              *)
THEOREM UpdatesAttemptsBounded == Spec => []AttemptsBounded
<1>1. IInv => AttemptsBounded
    BY DEF AttemptsBounded, IInv, FirmwareInv, AttemptInv, FirmwareTypeOK, DownloadState
<1> QED
    BY <1>1, UpdatesInvariant, PTL

(* The CS is not left with Downloaded when nothing goes on any more        *)
(* (onCheckDownloadedFile, onProcError, onProcFinished).                   *)
THEOREM UpdatesNotLeftDownloaded == Spec => []NotLeftDownloaded
<1>1. IInv => NotLeftDownloaded
    BY DEF NotLeftDownloaded, Running, IInv, FirmwareInv, ReportInv
<1> QED
    BY <1>1, UpdatesInvariant, PTL

(* Installing is about the package downloaded last, unless that one came   *)
(* while another was prepared (onProcFinished).                            *)
THEOREM UpdatesInstallingIsLatest == Spec => []InstallingIsLatest
<1>1. IInv => InstallingIsLatest
    BY DEF InstallingIsLatest, Running, IInv, FirmwareInv, ReportInv
<1> QED
    BY <1>1, UpdatesInvariant, PTL

(* A result OK that awaits its report is about whole firmware, wherever the *)
(* installations before it were interrupted (onCheckInstallResult,         *)
(* evmega_firmware_update.py).                                             *)
THEOREM UpdatesResultIsTrue == Spec => []ResultIsTrue
<1>1. IInv => ResultIsTrue
    BY DEF ResultIsTrue, Running, IInv, FirmwareInv, ResultInv, FirmwareTypeOK
<1> QED
    BY <1>1, UpdatesInvariant, PTL

(* The items are those of the version the charger reports, unless an update *)
(* was interrupted and no full one was done since (LocalAuthList::update,  *)
(* replaceAll).                                                            *)
THEOREM UpdatesListMatchesVersion == Spec => []ListMatchesVersion
<1>1. IInv => ListMatchesVersion
    BY DEF IInv, ListInv
<1> QED
    BY <1>1, UpdatesInvariant, PTL
=============================================================================
