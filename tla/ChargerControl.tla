--------------------------- MODULE ChargerControl ---------------------------
(***************************************************************************)
(* The control of a charge: the charger board, the CCharger object that    *)
(* follows it and commands it (ccharger.cpp), the Blink tick of MainWindow *)
(* that exchanges status for command twice a second (mainwindow.cpp), the  *)
(* windows a driver works through, with their timers (cablewin.cpp,        *)
(* paymentmethodwindow.cpp, waittingwindow.cpp, chargingwindow.cpp,        *)
(* suspendchargingwin.cpp, chargefinishwindow.cpp), and the calls of the   *)
(* central system (CS) that start, stop or forbid a charge                 *)
(* (OCPP/ocppclient.cpp).                                                  *)
(*                                                                         *)
(* The charger is in OCPP mode with an EV connector without a lock, is     *)
(* paid by the app, and has no reservation, no fault and no power failure; *)
(* its charging profile allows current.                                    *)
(* Earlier transactions are reported without disturbing the newest: what   *)
(* happens when they do not is in TransactionReporting.                    *)
(***************************************************************************)
EXTENDS Naturals

CONSTANTS
    StopTransactionOnEVSideDisconnect,  \* settings: charger::Get...()
    EnablePauseCharging,
    useSafeModeCurrentWhenOffline

ASSUME ConfigAssumption ==
    /\ StopTransactionOnEVSideDisconnect \in BOOLEAN
    /\ EnablePauseCharging \in BOOLEAN
    /\ useSafeModeCurrentWhenOffline \in BOOLEAN

VARIABLES
    board,              \* ChargerNewRaw: what the charger board is and reports
    sent,               \* the command the board was sent last, with the current
    m_ChargerA,         \* the CCharger object
    isSuspended,        \* 0: no, 1: by the EVSE, 2: by the EV
    connUnAvailPending, \* MainWindow: to be made unavailable once it is possible
    connUnavailPending, \* OcppClient: the call that asked for it is not carried out
    pCurWin, pMsgWin,   \* the window shown; whether a message covers it
    goPending,          \* a remote start waits for the charger to be idle
    newest,             \* registry: the newest transaction
    older               \* registry: the oldest of the active transactions before it

availVars == <<connUnAvailPending, connUnavailPending, pMsgWin>>
registryVars == <<newest, older>>
vars == <<board, sent, m_ChargerA, isSuspended, availVars, pCurWin,
          goPending, registryVars>>

Plug == {"none", "cable", "B", "C"}     \* a cable, an EV connected, an EV that draws current
Phase == {"NoCharge", "Charging", "Finish"}
Snapshot == [plug : Plug, enabled : BOOLEAN, phase : Phase]
Command == {"None", "Charge", "Stop", "Idle"}
Status == {"Available", "Preparing", "Charging", "SuspendedEV", "SuspendedEVSE",
           "Finishing", "Unavailable"}
Window == {"None", "Cable", "Payment", "Waitting", "Quitting", "Charging", "Suspend", "Finish"}

TypeOK ==
    /\ board \in [at : Snapshot, applied : BOOLEAN]
    /\ sent \in [command : Command, current : BOOLEAN]
    /\ m_ChargerA \in [State : Snapshot, Command : Command, Status : Status,
                       wasFinishing : BOOLEAN, stopChargeFlag : BOOLEAN,
                       isResumedCharging : BOOLEAN, connAvailable : BOOLEAN]
    /\ isSuspended \in 0..2
    /\ connUnAvailPending \in BOOLEAN /\ connUnavailPending \in BOOLEAN
    /\ pCurWin \in Window /\ pMsgWin \in BOOLEAN
    /\ goPending \in BOOLEAN
    /\ newest \in [st : {"None", "Active", "Ended"}, hasId : BOOLEAN]
    /\ older \in {"None", "NoId", "HasId"}

-----------------------------------------------------------------------------
(* CCharger: predicates on a report of the board and on the object.        *)

EVConnected(s) == s.plug \in {"B", "C"}
IsIdleState(s) == ~s.enabled
IsChargeState(s) == s.phase \in {"Charging", "Finish"}
IsChargingOrSuspended(c) == c.Status \in {"Charging", "SuspendedEV", "SuspendedEVSE"}
GetCurrentLimit(c) == c.connAvailable

(* The safe-mode current overrides whatever the limit is.                  *)
CurrentSent(c, offline) ==
    GetCurrentLimit(c) \/ (useSafeModeCurrentWhenOffline /\ offline)

DeduceChargeSuspendStatus ==
    IF ~board.applied THEN "SuspendedEVSE"
    ELSE CASE board.at.plug = "B" -> "SuspendedEV"
           [] board.at.plug = "C" -> "Charging"
           [] OTHER -> "SuspendedEVSE"

DeduceBeforeChargeSuspendStatus ==
    IF board.at.enabled /\ board.at.plug = "B" /\ board.applied
    THEN "SuspendedEV" ELSE "SuspendedEVSE"

(* CCharger: commands.                                                     *)
StartCharge(c) == [c EXCEPT !.Command = "Charge"]
ResumeCharge(c) == [StartCharge(c) EXCEPT !.isResumedCharging = TRUE]
StopCharge(c) == [c EXCEPT !.Command = "Stop", !.stopChargeFlag = TRUE]
ChargerIdle(c) == [c EXCEPT !.Command = "Idle", !.isResumedCharging = FALSE]

(* EvChargingTransactionRegistry: the answer to getActiveTrans is the      *)
(* oldest active transaction, whereas finish and cancel end the newest.    *)
HasActive == older # "None" \/ newest.st = "Active"
ActiveHasId == older = "HasId" \/ (older = "None" /\ newest.st = "Active" /\ newest.hasId)
StartNew ==
    /\ newest' = [st |-> "Active", hasId |-> FALSE]
    /\ older' = CASE older # "None" \/ newest.st # "Active" -> older
                  [] older = "None" /\ newest.st = "Active" ->
                        IF newest.hasId THEN "HasId" ELSE "NoId"

EndNewest ==
    /\ newest' = [newest EXCEPT !.st = IF @ = "Active" THEN "Ended" ELSE @]
    /\ UNCHANGED older

-----------------------------------------------------------------------------
(* The tick of MainWindow::Blink up to the branches of StatusManage: a     *)
(* pending unavailability is applied, a first window opens, the report of  *)
(* the board is taken over.                                                *)
(* Fault: applied without waiting for the end of the charge.               *)
BecomesUnavailableAtOnce == connUnAvailPending /\ m_ChargerA.connAvailable

BecomesUnavailable ==
    connUnAvailPending /\ m_ChargerA.connAvailable /\ m_ChargerA.Status = "Available"

MsgShown == pMsgWin \/ BecomesUnavailable

Refreshed ==
    [m_ChargerA EXCEPT !.State = board.at, !.connAvailable = @ /\ ~BecomesUnavailable]

OpenWindow ==
    CASE pCurWin # "None" \/ MsgShown -> pCurWin
      [] pCurWin = "None" /\ ~MsgShown ->
            IF m_ChargerA.isResumedCharging THEN "Waitting" ELSE "Cable"

Prev == m_ChargerA.State
Suspension == IF m_ChargerA.stopChargeFlag THEN 0 ELSE isSuspended

(* A stop is carried out once the board does not wait for the EV.          *)
StopsNow ==
    m_ChargerA.stopChargeFlag /\ DeduceBeforeChargeSuspendStatus = "SuspendedEVSE"

Followed ==
    IF StopsNow THEN [ChargerIdle(Refreshed) EXCEPT !.stopChargeFlag = FALSE] ELSE Refreshed

(* A charge that ended without a Finish is taken through Finish.           *)
FollowedPhase ==
    IF StopsNow \/ (Prev.phase = "Charging" /\ board.at.phase = "NoCharge" /\ ActiveHasId)
    THEN "Finish" ELSE board.at.phase

EndedByEVSide ==
    /\ ~m_ChargerA.stopChargeFlag
    /\ FollowedPhase = "Finish" /\ Prev.phase = "Charging"
    /\ StopTransactionOnEVSideDisconnect

Follows(phase) == Suspension = 0 /\ ~EndedByEVSide /\ FollowedPhase = phase
FollowsAny == Suspension = 0 /\ ~EndedByEVSide

(* Fault: a start that the board goes on to charge from at once is missed. *)
ChargeCommandAcceptedBeforeCharge ==
    FollowsAny /\ IsIdleState(Prev) /\ ~IsIdleState(board.at) /\ ~IsChargeState(board.at)

ChargeCommandAccepted == FollowsAny /\ IsIdleState(Prev) /\ ~IsIdleState(board.at)

ChargeCommandCanceled ==
    FollowsAny /\ ~IsIdleState(Prev) /\ IsIdleState(board.at) /\ ~IsChargeState(Prev)

(* Fault: a status that changes to suspended shows the charging window     *)
(* even when it is the pause that changed it.                              *)
OpensChargingWindowPaused(st, suspended) ==
    st # m_ChargerA.Status /\ st \in {"Charging", "SuspendedEVSE"}

OpensChargingWindow(st, suspended) ==
    st # m_ChargerA.Status /\ st \in {"Charging", "SuspendedEVSE"} /\ suspended = 0

(* The end of a tick: the signals of StatusManage and what MainWindow does *)
(* about them, then the change of the status and the command to the board. *)
(* A resumed charge has its transaction already.                           *)
EndTick(c, st, susp, win, finishing) ==
    LET changed == st # m_ChargerA.Status
        finished == finishing \/ (st = "Available" /\ m_ChargerA.Status = "Finishing")
        suspended == IF finished THEN 0 ELSE susp
        opens == OpensChargingWindow(st, suspended)
    IN /\ m_ChargerA' = [c EXCEPT !.Status = st,
                                  !.wasFinishing = IF changed THEN m_ChargerA.Status = "Finishing"
                                                   ELSE @]
       /\ isSuspended' = suspended
       /\ pCurWin' = CASE opens -> "Charging"
                       [] ~opens /\ ChargeCommandAccepted /\ win = "Payment" -> "Waitting"
                       [] OTHER -> win
       /\ pMsgWin' = (MsgShown /\ ~opens)
       /\ connUnAvailPending' = (connUnAvailPending /\ c.connAvailable)
       /\ connUnavailPending' = (connUnavailPending /\ ~BecomesUnavailable)
       /\ sent' \in {[command |-> c.Command, current |-> CurrentSent(c, offline)] :
                       offline \in BOOLEAN}
       /\ CASE ChargeCommandAccepted /\ ~c.isResumedCharging -> StartNew
            [] ChargeCommandCanceled \/ finished -> EndNewest
            [] OTHER -> UNCHANGED registryVars
       /\ UNCHANGED <<board, goPending>>

BlinkSuspended ==
    /\ Suspension # 0
    /\ EndTick(Refreshed, IF Suspension = 1 THEN "SuspendedEVSE" ELSE "SuspendedEV",
               Suspension, OpenWindow, FALSE)

BlinkEndedByEVSide ==
    /\ Suspension = 0 /\ EndedByEVSide
    /\ EndTick(Refreshed, "SuspendedEV", 2, OpenWindow, FALSE)

BlinkCommanded ==
    /\ Follows("NoCharge")
    /\ Followed.Command = "Charge"
    /\ EndTick(Followed, DeduceBeforeChargeSuspendStatus, 0, OpenWindow, FALSE)

BlinkCanceling ==
    /\ Follows("NoCharge")
    /\ Followed.Command = "Idle"
    /\ EndTick(IF IsIdleState(board.at) THEN [Followed EXCEPT !.Command = "None"] ELSE Followed,
               Followed.Status, 0, OpenWindow, FALSE)

BlinkUncommanded ==
    /\ Follows("NoCharge")
    /\ Followed.Command \in {"None", "Stop"}
    /\ LET unplugged == board.at.plug = "none"
           leaves == unplugged /\ OpenWindow \in {"Charging", "Finish"}
           st == CASE EVConnected(board.at) /\ Followed.Status # "Finishing" ->
                        IF Followed.connAvailable THEN "Preparing" ELSE "Unavailable"
                   [] unplugged -> IF Followed.connAvailable THEN "Available" ELSE "Unavailable"
                   [] board.at.plug = "cable" /\ IsIdleState(Prev) /\ IsIdleState(board.at) ->
                        "Available"
                   [] OTHER -> Followed.Status
       IN EndTick(Followed, st, 0, IF leaves THEN "None" ELSE OpenWindow, FALSE)

(* A board that charges without a command is stopped.                      *)
BlinkCharging ==
    /\ Follows("Charging")
    /\ \/ /\ IsChargingOrSuspended(Followed) \/ Followed.Command = "Charge"
          /\ EndTick(Followed, DeduceChargeSuspendStatus, 0, OpenWindow, FALSE)
       \/ /\ ~IsChargingOrSuspended(Followed) /\ Followed.Command # "Charge"
          /\ EndTick(ChargerIdle(Followed), Followed.Status, 0, OpenWindow, FALSE)

(* Without a window of the charge, nothing else would clear the board.     *)
BlinkFinish ==
    /\ Follows("Finish")
    /\ LET clears == /\ Followed.Status = "Finishing"
                     /\ OpenWindow \notin {"Charging", "Finish"}
                     /\ ~HasActive
       IN EndTick(IF clears THEN ChargerIdle(Followed) ELSE Followed, "Finishing", 0,
                  OpenWindow, Prev.phase = "Charging")

Blink ==
    \/ BlinkSuspended
    \/ BlinkEndedByEVSide
    \/ BlinkCommanded
    \/ BlinkCanceling
    \/ BlinkUncommanded
    \/ BlinkCharging
    \/ BlinkFinish

-----------------------------------------------------------------------------
(* The windows. Each handler acts on the object and on the window shown.   *)
Windows(win, c) ==
    /\ pCurWin' = win
    /\ m_ChargerA' = c
    /\ UNCHANGED <<board, sent, availVars, goPending>>

CableWinTimer ==
    /\ pCurWin = "Cable"
    /\ EVConnected(m_ChargerA.State) /\ ~pMsgWin
    /\ Windows("Payment", m_ChargerA)
    /\ UNCHANGED <<isSuspended, registryVars>>

(* The home button, which the timer presses when the EV is gone.           *)
PaymentHome ==
    /\ pCurWin = "Payment"
    /\ Windows("None", ChargerIdle(m_ChargerA))
    /\ UNCHANGED <<isSuspended, registryVars>>

(* The exit button, which the timer presses when the EV is gone.           *)
WaittingExit ==
    /\ pCurWin \in {"Waitting", "Quitting"}
    /\ Windows(IF HasActive THEN "Quitting" ELSE "None", ChargerIdle(m_ChargerA))
    /\ UNCHANGED <<isSuspended, registryVars>>

WaittingTimer ==
    /\ pCurWin = "Quitting" /\ ~HasActive
    /\ Windows("None", m_ChargerA)
    /\ UNCHANGED <<isSuspended, registryVars>>

(* The quit button is shown while the CS is off line.                      *)
ChargingQuit ==
    /\ pCurWin = "Charging"
    /\ Windows("Charging", StopCharge(m_ChargerA))
    /\ isSuspended' = 0
    /\ UNCHANGED registryVars

ChargingMonitor ==
    /\ pCurWin = "Charging"
    /\ m_ChargerA.Status = "Finishing" \/ m_ChargerA.wasFinishing
    /\ Windows("Finish", StopCharge(m_ChargerA))
    /\ isSuspended' = 0
    /\ UNCHANGED registryVars

(* Fault: the pauses are counted.                                          *)
PauseCounted ==
    /\ EnablePauseCharging
    /\ pCurWin = "Charging"
    /\ Windows("Suspend", ChargerIdle(m_ChargerA))
    /\ isSuspended' = isSuspended + 1
    /\ UNCHANGED registryVars

Pause ==
    /\ EnablePauseCharging
    /\ pCurWin = "Charging"
    /\ Windows("Suspend", ChargerIdle(m_ChargerA))
    /\ isSuspended' = 1
    /\ UNCHANGED registryVars

(* The resume button, or its timer once the cable is back.                 *)
Resume ==
    /\ pCurWin = "Suspend"
    /\ EVConnected(m_ChargerA.State)
    /\ Windows("Charging", ResumeCharge(m_ChargerA))
    /\ isSuspended' = 0
    /\ UNCHANGED registryVars

(* The exit button, or its timer after half an hour: the transaction is    *)
(* finished by chargeFinished, then the charge is stopped.                 *)
ExitSuspension ==
    /\ pCurWin = "Suspend"
    /\ Windows("Finish", StopCharge(ChargerIdle(m_ChargerA)))
    /\ isSuspended' = 0
    /\ EndNewest

FinishTimer ==
    /\ pCurWin = "Finish" /\ ~HasActive
    /\ \/ /\ m_ChargerA.Status = "Finishing" /\ ~IsIdleState(m_ChargerA.State)
          /\ Windows("Finish", ChargerIdle(m_ChargerA))
       \/ /\ m_ChargerA.Status # "Finishing" /\ m_ChargerA.State.plug = "none"
          /\ Windows("None", m_ChargerA)
    /\ UNCHANGED <<isSuspended, registryVars>>

FinishHome ==
    /\ pCurWin = "Finish"
    /\ Windows("None", m_ChargerA)
    /\ UNCHANGED <<isSuspended, registryVars>>

-----------------------------------------------------------------------------
(* The calls of the CS.                                                    *)
Called == UNCHANGED <<board, sent, pCurWin>>
CommandCalled == Called /\ UNCHANGED availVars

(* RemoteStartTransaction: at once when preparing, and after a second when *)
(* finishing; RmtStartTxExec::go tries again until the charger is idle.    *)
RemoteStart ==
    /\ \/ /\ m_ChargerA.Status = "Preparing" /\ IsIdleState(m_ChargerA.State)
          /\ m_ChargerA' = StartCharge(m_ChargerA)
          /\ UNCHANGED goPending
       \/ /\ \/ m_ChargerA.Status = "Finishing"
             \/ m_ChargerA.Status = "Preparing" /\ ~IsIdleState(m_ChargerA.State)
          /\ goPending' = TRUE
          /\ UNCHANGED m_ChargerA
    /\ CommandCalled /\ UNCHANGED <<isSuspended, registryVars>>

RemoteStartGo ==
    /\ goPending /\ IsIdleState(m_ChargerA.State)
    /\ goPending' = FALSE
    /\ m_ChargerA' = StartCharge(m_ChargerA)
    /\ CommandCalled /\ UNCHANGED <<isSuspended, registryVars>>

RemoteStop ==
    /\ ActiveHasId /\ IsChargingOrSuspended(m_ChargerA)
    /\ m_ChargerA' = StopCharge(m_ChargerA)
    /\ isSuspended' = 0
    /\ CommandCalled /\ UNCHANGED <<goPending, registryVars>>

(* StartTransaction.conf, also for a transaction that is over: it may      *)
(* refuse the card, which stops the charge that goes on.                   *)
StartTransactionConf ==
    /\ \/ /\ newest.st # "None" /\ ~newest.hasId
          /\ newest' = [newest EXCEPT !.hasId = TRUE]
          /\ UNCHANGED older
       \/ /\ older = "NoId"
          /\ older' = "HasId"
          /\ UNCHANGED newest
    /\ \/ UNCHANGED <<m_ChargerA, isSuspended>>
       \/ m_ChargerA' = StopCharge(m_ChargerA) /\ isSuspended' = 0
    /\ CommandCalled /\ UNCHANGED goPending

(* ChangeAvailability: an unavailability still to come is withdrawn, and   *)
(* only else the connector becomes available.                              *)
MakeOperative ==
    /\ \/ /\ connUnavailPending
          /\ connUnavailPending' = FALSE /\ connUnAvailPending' = FALSE
          /\ UNCHANGED <<m_ChargerA, pMsgWin>>
       \/ /\ ~connUnavailPending /\ ~m_ChargerA.connAvailable
          /\ m_ChargerA' = [m_ChargerA EXCEPT !.connAvailable = TRUE]
          /\ pMsgWin' = FALSE
          /\ UNCHANGED <<connUnavailPending, connUnAvailPending>>
    /\ Called /\ UNCHANGED <<isSuspended, goPending, registryVars>>

MakeInoperative ==
    /\ m_ChargerA.connAvailable
    /\ \/ /\ m_ChargerA.Status = "Available"
          /\ m_ChargerA' = [m_ChargerA EXCEPT !.connAvailable = FALSE]
          /\ pMsgWin' = TRUE
          /\ connUnavailPending' = FALSE
          /\ UNCHANGED connUnAvailPending
       \/ /\ m_ChargerA.Status # "Available"
          /\ connUnavailPending' = TRUE /\ connUnAvailPending' = TRUE
          /\ UNCHANGED <<m_ChargerA, pMsgWin>>
    /\ Called /\ UNCHANGED <<isSuspended, goPending, registryVars>>

-----------------------------------------------------------------------------
(* The charger board and the EV (external): how the code takes them to     *)
(* behave, with SoftPCB, the board simulated in ccharger.cpp.              *)
BoardStep(at, applied) ==
    /\ board' = [at |-> at, applied |-> applied]
    /\ UNCHANGED <<sent, m_ChargerA, isSuspended, availVars, pCurWin,
                   goPending, registryVars>>

BoardObeys ==
    LET b == board.at IN
    CASE sent.command = "Charge" /\ b.phase = "NoCharge" ->
            BoardStep([b EXCEPT !.enabled = EVConnected(b),
                                !.phase = IF b.plug = "C" /\ sent.current THEN "Charging" ELSE @],
                      sent.current)
      [] sent.command = "Stop" ->
            BoardStep(IF b.phase = "Charging" THEN [b EXCEPT !.phase = "Finish"]
                      ELSE [b EXCEPT !.enabled = b.phase = "Finish"], sent.current)
      [] sent.command = "Idle" ->
            BoardStep([b EXCEPT !.enabled = FALSE, !.phase = "NoCharge"], sent.current)
      [] OTHER -> BoardStep(b, sent.current)

EVMoves ==
    \E p \in Plug \ {board.at.plug} :
        /\ p = "C" => board.at.plug = "B"
        /\ BoardStep([board.at EXCEPT !.plug = p,
                                      !.phase = IF @ = "Charging" /\ p \notin {"B", "C"}
                                                THEN "Finish" ELSE @],
                     board.applied)

ChargeEnds ==
    /\ board.at.phase = "Charging"
    /\ BoardStep([board.at EXCEPT !.phase = "Finish"], board.applied)

-----------------------------------------------------------------------------
Init ==
    /\ board = [at |-> [plug |-> "none", enabled |-> FALSE, phase |-> "NoCharge"],
                applied |-> TRUE]
    /\ sent = [command |-> "None", current |-> TRUE]
    /\ m_ChargerA = [State |-> board.at, Command |-> "None", Status |-> "Available",
                     wasFinishing |-> FALSE, stopChargeFlag |-> FALSE,
                     isResumedCharging |-> FALSE, connAvailable |-> TRUE]
    /\ isSuspended = 0
    /\ connUnAvailPending = FALSE /\ connUnavailPending = FALSE
    /\ pCurWin = "None" /\ pMsgWin = FALSE
    /\ goPending = FALSE
    /\ newest = [st |-> "None", hasId |-> FALSE]
    /\ older = "None"

Next ==
    \/ Blink
    \/ CableWinTimer \/ PaymentHome \/ WaittingExit \/ WaittingTimer
    \/ ChargingQuit \/ ChargingMonitor \/ Pause \/ Resume \/ ExitSuspension
    \/ FinishTimer \/ FinishHome
    \/ RemoteStart \/ RemoteStartGo \/ RemoteStop
    \/ MakeOperative \/ MakeInoperative \/ StartTransactionConf
    \/ BoardObeys \/ EVMoves \/ ChargeEnds

Spec == Init /\ [][Next]_vars

-----------------------------------------------------------------------------
(* A charge that goes on, and is not the resumption of one that was        *)
(* paused, has a transaction: StatusManage reports the start of the board  *)
(* to the registry whatever happened between the command and the start.    *)
ChargeIsRecorded ==
    /\ m_ChargerA.Status = "Charging"
    /\ m_ChargerA.Command \in {"Charge", "None"} /\ ~m_ChargerA.isResumedCharging
    => HasActive

(* A connector the CS made unavailable does not charge: ChangeConnAvail    *)
(* and the retries of Blink wait for the end of a charge, and no start     *)
(* that was accepted before, or is called later, gets any current. (It     *)
(* does get the safe-mode current, where that is set and the CS off line.) *)
UnavailableDoesNotCharge ==
    ~m_ChargerA.connAvailable => m_ChargerA.Status # "Charging"

(* A pause can be left: as long as the tick reports the charge suspended   *)
(* by the EVSE and looks at nothing else, the window with the resume and   *)
(* exit buttons and their timer is the one shown.                          *)
PauseCanBeLeft == isSuspended = 1 => pCurWin = "Suspend"

(* Not so: "Q_ASSERT(activeTrans->isActive())" in                          *)
(* EvChargingTransactionRegistry::cancel, at evchargingtransactionregistry *)
(* .cpp:81: a command canceled before the charge began cancels the newest  *)
(* transaction, which is active.                                           *)
CancelsActive == ChargeCommandCanceled => newest.st = "Active"
=============================================================================
