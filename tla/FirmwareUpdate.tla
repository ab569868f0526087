--------------------------- MODULE FirmwareUpdate ---------------------------
(***************************************************************************)
(* The firmware update from UpdateFirmware.req to its result: the          *)
(* scheduler and its state file (firmwareupdatescheduler.cpp,              *)
(* firmwaredownloadstate.cpp), the download (softwaredownloader.cpp), the  *)
(* reports and the reboot of MainWindow (mainwindow.cpp), and the script   *)
(* that prepares and installs a package                                    *)
(* (install/python/evmega_firmware_update.py, startCharger.sh). curl, the  *)
(* content of packages, the charging and the power are the environment.    *)
(***************************************************************************)
EXTENDS Integers

CONSTANTS
    Package,        \* packages, each with its file in the download directory
    NoPackage,
    Retries,        \* numbers of attempts a request may ask for
    DefaultNumDownloadRetries,
    MaxRequests,    \* bound
    MaxRestarts     \* bound

ASSUME FirmwareAssumption ==
    /\ NoPackage \notin Package
    /\ Retries \subseteq Nat \ {0}
    /\ DefaultNumDownloadRetries \in Retries
    /\ MaxRequests \in Nat
    /\ MaxRestarts \in Nat

VARIABLES           \* FirmwareUpdateScheduler, MainWindow
    downldSt,       \* FirmwareDownloadState
    available,      \* availDateTime has come
    downldSchTimer,
    checkFile,      \* zero-delay timer for onCheckDownloadedFile
    checkResult,    \* zero-delay timer for onCheckInstallResult
    rebootPending,
    downloadProc,   \* package curl fetches, or NoPackage
    fwupdateProc    \* package the script prepares, or NoPackage

VARIABLES           \* files
    stateFile,      \* what loadStateFromFile makes of it
    files,          \* packages in the download directory
    marker,         \* package in the install-ready file, or NoPackage
    resultFile      \* content of the install-result file

VARIABLES
    system,         \* what runs: the program, the install script, or nothing until the reboot
    firmware,       \* what is installed
    busy,           \* a charging, a booking or an active transaction
    told,           \* last FirmwareStatus reported since the program started
    requests,       \* requests so far
    attempts,       \* history: attempts to download for the latest request
    overlapped,     \* history: the package downloaded last came while another was prepared
    wanted,         \* history: package of the latest request, until downloaded or given up
    forgotten,      \* history: the state file was torn since the latest request
    restarts        \* starts of the program so far, but the first

schedulerVars == <<downldSt, available, downldSchTimer>>
programVars == <<checkFile, checkResult, rebootPending, fwupdateProc, told>>
fileVars == <<stateFile, files, marker, resultFile>>
systemVars == <<system, firmware, busy>>
countVars == <<requests, attempts, overlapped, wanted, forgotten, restarts>>
firmwareVars == <<schedulerVars, programVars, downloadProc, fileVars, systemVars, countVars>>

DownloadState ==
    [downloaded: BOOLEAN, downloadUri: Package \cup {NoPackage},
     downloadPath: Package \cup {NoPackage}, retries: Retries, remainAttempts: Int]

(* What the constructor starts with, if no state file can be loaded. *)
NoUpdate ==
    [downloaded |-> TRUE, downloadUri |-> NoPackage, downloadPath |-> NoPackage,
     retries |-> DefaultNumDownloadRetries, remainAttempts |-> DefaultNumDownloadRetries]

(* A file without its header is refused, and the failure is ignored. *)
TornFile == NoUpdate

FirmwareStatus == {"Downloading", "Downloaded", "DownloadFailed", "Installing", "Installed",
                   "InstallationFailed"}

FirmwareTypeOK ==
    /\ downldSt \in DownloadState /\ stateFile \in DownloadState
    /\ available \in BOOLEAN /\ downldSchTimer \in BOOLEAN
    /\ checkFile \in BOOLEAN /\ checkResult \in BOOLEAN /\ rebootPending \in BOOLEAN
    /\ busy \in BOOLEAN /\ overlapped \in BOOLEAN /\ forgotten \in BOOLEAN
    /\ wanted \in Package \cup {NoPackage}
    /\ downloadProc \in Package \cup {NoPackage}
    /\ fwupdateProc \in Package \cup {NoPackage}
    /\ marker \in Package \cup {NoPackage}
    /\ files \subseteq Package
    /\ resultFile \in {"None", "OK", "NG"}
    /\ system \in {"Program", "Quit", "Script", "Installing", "Restoring", "Installed"}
    /\ firmware \in {"Whole", "Partial"}
    /\ told \in FirmwareStatus \cup {"Nothing"}
    /\ requests \in 0..MaxRequests
    /\ attempts \in Nat
    /\ restarts \in 0..MaxRestarts

FirmwareInit ==
    /\ downldSt = NoUpdate
    /\ stateFile = NoUpdate
    /\ available = TRUE /\ downldSchTimer = FALSE
    /\ checkFile = FALSE /\ checkResult = FALSE /\ rebootPending = FALSE /\ told = "Nothing"
    /\ downloadProc = NoPackage /\ fwupdateProc = NoPackage
    /\ files = {} /\ marker = NoPackage /\ resultFile = "None"
    /\ system = "Program" /\ firmware = "Whole" /\ busy = FALSE
    /\ requests = 0 /\ attempts = 0 /\ overlapped = FALSE /\ restarts = 0
    /\ wanted = NoPackage /\ forgotten = FALSE

Running == system = "Program"

-----------------------------------------------------------------------------
(* Fault: the download under way goes on. *)
NewUpdateRequestBeside(p, retries, availNow) ==
    /\ Running /\ requests < MaxRequests
    /\ downldSt' = [downldSt EXCEPT !.downloaded = FALSE, !.downloadUri = p,
                                    !.retries = retries, !.remainAttempts = retries]
    /\ stateFile' = downldSt'
    /\ available' = availNow
    /\ downldSchTimer' = TRUE
    /\ requests' = requests + 1
    /\ attempts' = 0
    /\ wanted' = p /\ forgotten' = FALSE
    /\ UNCHANGED <<checkFile, checkResult, rebootPending, fwupdateProc, files, marker,
                   resultFile, systemVars, overlapped, restarts, downloadProc, told>>

(* Fault: the first attempt is counted besides the retries. *)
NewUpdateRequestOneMore(p, retries, availNow) ==
    /\ Running /\ requests < MaxRequests
    /\ downldSt' = [downldSt EXCEPT !.downloaded = FALSE, !.downloadUri = p,
                                    !.retries = retries + 1, !.remainAttempts = retries + 1]
    /\ stateFile' = downldSt'
    /\ available' = availNow
    /\ downldSchTimer' = TRUE
    /\ downloadProc' = NoPackage
    /\ requests' = requests + 1
    /\ attempts' = 0
    /\ wanted' = p /\ forgotten' = FALSE
    /\ UNCHANGED <<checkFile, checkResult, rebootPending, fwupdateProc, files, marker,
                   resultFile, systemVars, overlapped, restarts, told>>

(* UpdateFirmware.req: newUpdateRequest. A download under way is stopped;  *)
(* its process ends at once with a signal that, after the last attempt,    *)
(* reports a failure (onProcFinished, onFirmwareDownloadFailed). The       *)
(* retry timer it may start is started anew.                               *)
NewUpdateRequest(p, retries, availNow) ==
    /\ Running /\ requests < MaxRequests
    /\ downldSt' = [downldSt EXCEPT !.downloaded = FALSE, !.downloadUri = p,
                                    !.retries = retries, !.remainAttempts = retries]
    /\ stateFile' = downldSt'
    /\ available' = availNow
    /\ downldSchTimer' = TRUE
    /\ downloadProc' = IF downldSt.downloaded THEN downloadProc ELSE NoPackage
    /\ told' = IF /\ ~downldSt.downloaded /\ downloadProc # NoPackage
                  /\ downldSt.remainAttempts <= 0
               THEN "DownloadFailed" ELSE told
    /\ requests' = requests + 1
    /\ attempts' = 0
    /\ wanted' = p /\ forgotten' = FALSE
    /\ UNCHANGED <<checkFile, checkResult, rebootPending, fwupdateProc, files, marker,
                   resultFile, systemVars, overlapped, restarts>>

AvailDateTimeComes ==
    /\ ~available
    /\ available' = TRUE
    /\ UNCHANGED <<downldSt, downldSchTimer, programVars, downloadProc, fileVars, systemVars,
                   countVars>>

GivenUp == [downldSt EXCEPT !.downloaded = TRUE]
IsFirstAttempt == downldSt.remainAttempts = downldSt.retries

(* Fault: an attempt that is refused is not counted. *)
OnDownldSchTimeoutUncounted(linkOk) ==
    LET accepted == linkOk /\ downloadProc = NoPackage IN
    /\ Running /\ downldSchTimer /\ available
    /\ attempts' = attempts + 1
    /\ downldSchTimer' = ~accepted
    /\ downldSt' = IF accepted THEN [downldSt EXCEPT !.remainAttempts = @ - 1] ELSE downldSt
    /\ stateFile' = downldSt'
    /\ downloadProc' = IF accepted THEN downldSt.downloadUri ELSE downloadProc
    /\ files' = IF accepted THEN files \ {downldSt.downloadUri} ELSE files
    /\ told' = IF accepted /\ IsFirstAttempt THEN "Downloading" ELSE told
    /\ UNCHANGED <<available, checkFile, checkResult, rebootPending, fwupdateProc, marker,
                   resultFile, systemVars, requests, overlapped, wanted, forgotten, restarts>>

(* onDownldSchTimeout. SoftwareDownloader::Download refuses a link it does *)
(* not understand, or if its process runs; it removes the file.            *)
OnDownldSchTimeout(linkOk) ==
    LET accepted == linkOk /\ downloadProc = NoPackage
        tried == [downldSt EXCEPT !.remainAttempts = @ - 1]
        again == ~accepted /\ tried.remainAttempts > 0
        failed == ~accepted /\ ~again
    IN
    /\ Running /\ downldSchTimer /\ available
    /\ attempts' = attempts + 1
    /\ downldSchTimer' = again
    /\ downldSt' = IF failed THEN [tried EXCEPT !.downloaded = TRUE] ELSE tried
    /\ stateFile' = downldSt'
    /\ downloadProc' = IF accepted THEN downldSt.downloadUri ELSE downloadProc
    /\ files' = IF accepted THEN files \ {downldSt.downloadUri} ELSE files
    /\ told' = CASE accepted /\ IsFirstAttempt -> "Downloading"
                 [] failed -> "DownloadFailed"
                 [] OTHER -> told
    /\ wanted' = IF failed THEN NoPackage ELSE wanted
    /\ UNCHANGED <<available, checkFile, checkResult, rebootPending, fwupdateProc, marker,
                   resultFile, systemVars, requests, overlapped, forgotten, restarts>>

(* curl fails, crashes or cannot be started: onFirmwareDownloadFailed      *)
DownloadFails ==
    /\ Running /\ downloadProc # NoPackage
    /\ downloadProc' = NoPackage
    /\ IF downldSt.remainAttempts > 0
       THEN downldSchTimer' = TRUE /\ UNCHANGED <<downldSt, stateFile, told, wanted>>
       ELSE /\ downldSt' = GivenUp
            /\ stateFile' = downldSt'
            /\ told' = "DownloadFailed"
            /\ wanted' = NoPackage
            /\ UNCHANGED downldSchTimer
    /\ UNCHANGED <<available, checkFile, checkResult, rebootPending, fwupdateProc, files,
                   marker, resultFile, systemVars, requests, attempts, overlapped, forgotten,
                   restarts>>

(* curl ends and the file is there: onFirmwareDownloadCompleted            *)
DownloadCompletes ==
    /\ Running /\ downloadProc # NoPackage
    /\ downloadProc' = NoPackage
    /\ files' = files \cup {downloadProc}
    /\ downldSt' = [downldSt EXCEPT !.downloaded = TRUE, !.downloadPath = downloadProc]
    /\ stateFile' = downldSt'
    /\ told' = "Downloaded"
    /\ checkFile' = TRUE
    /\ overlapped' = (fwupdateProc # NoPackage)
    /\ wanted' = NoPackage
    /\ UNCHANGED <<available, downldSchTimer, checkResult, rebootPending, fwupdateProc, marker,
                   resultFile, systemVars, requests, attempts, forgotten, restarts>>

-----------------------------------------------------------------------------
(* onCheckDownloadedFile: a package downloaded while another is prepared   *)
(* is not.                                                                 *)
OnCheckDownloadedFile ==
    /\ Running /\ checkFile
    /\ checkFile' = FALSE
    /\ fwupdateProc' = IF fwupdateProc = NoPackage THEN downldSt.downloadPath ELSE fwupdateProc
    /\ UNCHANGED <<schedulerVars, checkResult, rebootPending, told, downloadProc, fileVars,
                   systemVars, countVars>>

(* Fault: a script that crashes is not reported. *)
PrepareEndsUntold(outcome) ==
    /\ Running /\ fwupdateProc # NoPackage
    /\ outcome = "prepared" => fwupdateProc \in files
    /\ fwupdateProc' = NoPackage
    /\ marker' = CASE outcome = "prepared" -> fwupdateProc
                   [] outcome = "refused" -> NoPackage
                   [] outcome = "crashed" -> marker
    /\ told' = CASE outcome = "prepared" -> "Installing"
                 [] outcome = "refused" -> "InstallationFailed"
                 [] outcome = "crashed" -> told
    /\ rebootPending' = (rebootPending \/ outcome = "prepared")
    /\ UNCHANGED <<schedulerVars, checkFile, checkResult, downloadProc, stateFile, files,
                   resultFile, systemVars, countVars>>

(* Fault: any marker counts, however the script ended. *)
PrepareEndsByMarker(outcome) ==
    /\ Running /\ fwupdateProc # NoPackage
    /\ outcome = "prepared" => fwupdateProc \in files
    /\ fwupdateProc' = NoPackage
    /\ marker' = CASE outcome = "prepared" -> fwupdateProc
                   [] outcome = "refused" -> NoPackage
                   [] outcome = "crashed" -> marker
    /\ told' = IF marker' # NoPackage THEN "Installing" ELSE "InstallationFailed"
    /\ rebootPending' = (rebootPending \/ marker' # NoPackage)
    /\ UNCHANGED <<schedulerVars, checkFile, checkResult, downloadProc, stateFile, files,
                   resultFile, systemVars, countVars>>

(* The script has written or removed the marker, or crashed or could not   *)
(* be started and left it: onProcFinished, onProcError. A package that is  *)
(* no longer there cannot be prepared.                                     *)
PrepareEnds(outcome) ==
    /\ Running /\ fwupdateProc # NoPackage
    /\ outcome = "prepared" => fwupdateProc \in files
    /\ fwupdateProc' = NoPackage
    /\ marker' = CASE outcome = "prepared" -> fwupdateProc
                   [] outcome = "refused" -> NoPackage
                   [] outcome = "crashed" -> marker
    /\ IF outcome # "crashed" /\ marker' # NoPackage
       THEN told' = "Installing" /\ rebootPending' = TRUE
       ELSE told' = "InstallationFailed" /\ UNCHANGED rebootPending
    /\ UNCHANGED <<schedulerVars, checkFile, checkResult, downloadProc, stateFile, files,
                   resultFile, systemVars, countVars>>

BusyChanges ==
    /\ Running
    /\ busy' = ~busy
    /\ UNCHANGED <<schedulerVars, programVars, downloadProc, fileVars, system, firmware,
                   countVars>>

(* Blink: the program quits, and the system will reboot in a minute. *)
BlinkReboots ==
    /\ Running /\ rebootPending /\ ~busy
    /\ system' = "Quit"
    /\ UNCHANGED <<schedulerVars, programVars, downloadProc, fileVars, firmware, busy, countVars>>

(* onOcppBootNotificationAccepted, checkInstallStatus *)
BootNotificationAccepted ==
    /\ Running
    /\ checkResult' = TRUE
    /\ UNCHANGED <<schedulerVars, checkFile, rebootPending, fwupdateProc, told, downloadProc,
                   fileVars, systemVars, countVars>>

OnCheckInstallResult ==
    /\ Running /\ checkResult
    /\ checkResult' = FALSE
    /\ resultFile' = "None"
    /\ told' = CASE resultFile = "OK" -> "Installed"
                 [] resultFile = "NG" -> "InstallationFailed"
                 [] resultFile = "None" -> told
    /\ UNCHANGED <<schedulerVars, checkFile, rebootPending, fwupdateProc, downloadProc,
                   stateFile, files, marker, systemVars, countVars>>

-----------------------------------------------------------------------------
(* The system starts, by the reboot or after a power failure, with the     *)
(* install script. What the program will load is in the state file. A file *)
(* curl was writing is cut short and counts as none.                       *)
Boot ==
    /\ system' = "Script"
    /\ downldSt' = stateFile'
    /\ downldSchTimer' = FALSE
    /\ downloadProc' = NoPackage /\ fwupdateProc' = NoPackage
    /\ checkFile' = FALSE /\ checkResult' = FALSE /\ rebootPending' = FALSE
    /\ told' = "Nothing"
    /\ UNCHANGED <<available, marker, resultFile, firmware, busy, requests, overlapped, wanted,
                   restarts>>

Reboot ==
    /\ system = "Quit"
    /\ UNCHANGED <<stateFile, files, attempts, forgotten>>
    /\ Boot

PowerFailure ==
    /\ system # "Script" /\ restarts < MaxRestarts
    /\ UNCHANGED <<stateFile, files, attempts, forgotten>>
    /\ Boot

(* A handler has done what it does before saveStateToFile:                 *)
(* newUpdateRequest, onDownldSchTimeout (the downloader may have removed   *)
(* the file), onFirmwareDownloadFailed and onFirmwareDownloadCompleted.    *)
RequestSaves == requests < MaxRequests /\ UNCHANGED files
AttemptSaves ==
    /\ downldSchTimer /\ available
    /\ files' \in {files, files \ {downldSt.downloadUri}}
FailureSaves ==
    /\ downloadProc # NoPackage /\ downldSt.remainAttempts <= 0
    /\ UNCHANGED files
CompletionSaves ==
    /\ downloadProc # NoPackage
    /\ files' = files \cup {downloadProc}

(* The power fails in saveStateToFile: before the file is opened, which    *)
(* truncates it, or between that and the write. A torn file leaves no      *)
(* update to attempt.                                                      *)
PowerFailureInSave(torn) ==
    LET left(n) == IF torn THEN 0 ELSE n IN
    /\ Running /\ restarts < MaxRestarts
    /\ \/ RequestSaves /\ attempts' = left(attempts)
       \/ AttemptSaves /\ attempts' = left(attempts + 1)
       \/ FailureSaves /\ attempts' = left(attempts)
       \/ CompletionSaves /\ attempts' = left(attempts)
    /\ stateFile' = IF torn THEN TornFile ELSE stateFile
    /\ forgotten' = (forgotten \/ torn)
    /\ Boot

(* Fault: a package that does not open leaves no result. *)
OpenPackageSilently(opens) ==
    /\ system = "Script" /\ marker # NoPackage
    /\ opens => marker \in files
    /\ files' = files \ {marker}
    /\ system' = IF opens THEN "Installing" ELSE "Installed"
    /\ UNCHANGED <<schedulerVars, programVars, downloadProc, stateFile, marker, resultFile,
                   firmware, busy, countVars>>

(* open_package: the package is unpacked and its file removed. Without the *)
(* file, as an interrupted installation leaves it, this fails.             *)
OpenPackage(opens) ==
    /\ system = "Script" /\ marker # NoPackage
    /\ opens => marker \in files
    /\ files' = files \ {marker}
    /\ system' = IF opens THEN "Installing" ELSE "Installed"
    /\ resultFile' = IF opens THEN resultFile ELSE "NG"
    /\ UNCHANGED <<schedulerVars, programVars, downloadProc, stateFile, marker, firmware, busy,
                   countVars>>

(* PREINSTALL, INSTALL and VERIFY_INSTALL. From here on a power failure    *)
(* leaves the firmware as far as the installation came.                    *)
BeginInstall ==
    /\ system = "Installing" /\ firmware = "Whole"
    /\ firmware' = "Partial"
    /\ UNCHANGED <<schedulerVars, programVars, downloadProc, fileVars, system, busy, countVars>>

EndInstall(succeeds) ==
    /\ system = "Installing" /\ firmware = "Partial"
    /\ firmware' = IF succeeds THEN "Whole" ELSE "Partial"
    /\ resultFile' = IF succeeds THEN "OK" ELSE "NG"
    /\ system' = IF succeeds THEN "Installed" ELSE "Restoring"
    /\ UNCHANGED <<schedulerVars, programVars, downloadProc, stateFile, files, marker, busy,
                   countVars>>

Restore(succeeds) ==
    /\ system = "Restoring"
    /\ firmware' = IF succeeds THEN "Whole" ELSE firmware
    /\ system' = "Installed"
    /\ UNCHANGED <<schedulerVars, programVars, downloadProc, fileVars, busy, countVars>>

(* The script removes the marker, and reboots; after a failure to restore  *)
(* it lets the program start.                                              *)
FinishInstall ==
    /\ system = "Installed"
    /\ marker' = NoPackage
    /\ system' = "Script"
    /\ UNCHANGED <<schedulerVars, programVars, downloadProc, stateFile, files, resultFile,
                   firmware, busy, countVars>>

(* The program starts: the scheduler's constructor *)
StartProgram ==
    /\ system = "Script" /\ marker = NoPackage
    /\ restarts < MaxRestarts
    /\ restarts' = restarts + 1
    /\ system' = "Program"
    /\ downldSchTimer' = ~downldSt.downloaded
    /\ UNCHANGED <<downldSt, available, programVars, downloadProc, fileVars, firmware, busy,
                   requests, attempts, overlapped, wanted, forgotten>>

-----------------------------------------------------------------------------
FirmwareNext ==
    \/ \E p \in Package, retries \in Retries, availNow \in BOOLEAN :
            NewUpdateRequest(p, retries, availNow)
    \/ AvailDateTimeComes
    \/ \E linkOk \in BOOLEAN : OnDownldSchTimeout(linkOk)
    \/ DownloadFails \/ DownloadCompletes
    \/ OnCheckDownloadedFile
    \/ \E outcome \in {"prepared", "refused", "crashed"} : PrepareEnds(outcome)
    \/ BusyChanges \/ BlinkReboots
    \/ BootNotificationAccepted \/ OnCheckInstallResult
    \/ Reboot \/ PowerFailure
    \/ \E torn \in BOOLEAN : PowerFailureInSave(torn)
    \/ \E opens \in BOOLEAN : OpenPackage(opens)
    \/ BeginInstall
    \/ \E succeeds \in BOOLEAN : EndInstall(succeeds) \/ Restore(succeeds)
    \/ FinishInstall
    \/ StartProgram

FirmwareSpec == FirmwareInit /\ [][FirmwareNext]_firmwareVars

-----------------------------------------------------------------------------
(* An update that is not downloaded is always pursued, by the timer or by  *)
(* curl and never by both; after a new request for the new package         *)
(* (newUpdateRequest, onFirmwareDownloadFailed, the constructor). And the  *)
(* scheduler does not lose it: until it is downloaded or given up, the     *)
(* package of the latest request is the one pursued, over reboots and      *)
(* power failures at any step, unless one struck while the state file was  *)
(* written: the file is then empty, loadStateFromFile refuses it, and the  *)
(* update is forgotten.                                                    *)
DownloadPursued ==
    Running =>
        /\ ~downldSt.downloaded => downldSchTimer \/ downloadProc # NoPackage
        /\ downldSchTimer => ~downldSt.downloaded /\ downloadProc = NoPackage
        /\ downloadProc # NoPackage =>
                ~downldSt.downloaded /\ downloadProc = downldSt.downloadUri
        /\ wanted # NoPackage /\ ~forgotten =>
                ~downldSt.downloaded /\ downldSt.downloadUri = wanted

(* A request gets at most the attempts it asks for, and one more for each  *)
(* start of the program, which schedules a download even if none is left   *)
(* (scheduleNewDownload in the constructor).                               *)
AttemptsBounded == attempts <= downldSt.retries + restarts

(* A downloaded package gets its next status: the CS is not left with      *)
(* Downloaded when nothing goes on any more, whatever the script did and   *)
(* whether or not it was busy with another package (onCheckDownloadedFile, *)
(* onProcError, onProcFinished). A power failure in between is not told.   *)
NotLeftDownloaded ==
    Running /\ told = "Downloaded" => checkFile \/ fwupdateProc # NoPackage

(* What the CS hears of as Installing is the package downloaded last,      *)
(* unless that one came while another was being prepared: onProcFinished   *)
(* reports downloadPath, whichever package the script had.                 *)
InstallingIsLatest ==
    Running /\ told = "Installing" /\ ~overlapped => marker = downldSt.downloadPath

(* A result OK that awaits its report is about firmware that is whole: no  *)
(* result of an earlier installation outlives a later one that failed or   *)
(* was interrupted at any step (onCheckInstallResult, and the order of     *)
(* writing the result and removing the marker in the script).              *)
ResultIsTrue == Running /\ resultFile = "OK" => firmware = "Whole"
=============================================================================
