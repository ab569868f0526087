------------------------ MODULE ChargerControlProofs ------------------------
(***************************************************************************)
(* Proofs about ChargerControl, for every value of its settings: the type  *)
(* invariant, that a pause can always be left, that a connector the CS     *)
(* made unavailable does not charge (without the safe-mode current), and   *)
(* that a charge has a transaction.                                        *)
(*                                                                         *)
(* The second needs that the tick alone closes no window of a pause. The   *)
(* third is not inductive: a connector becomes unavailable only while the  *)
(* status is Available, and then neither the board charges nor the command *)
(* on its way to it starts a charge; from there the tick sends a current   *)
(* of zero, without which the board starts none. The fourth has an         *)
(* invariant of its own, stated ahead of its lemmas.                       *)
(***************************************************************************)
EXTENDS ChargerControl, TLAPS

Charger == [State : Snapshot, Command : Command, Status : Status,
            wasFinishing : BOOLEAN, stopChargeFlag : BOOLEAN,
            isResumedCharging : BOOLEAN, connAvailable : BOOLEAN]

(* In Available the board does not charge and is not told to.              *)
AvailableIsQuiet ==
    m_ChargerA.Status = "Available" =>
        board.at.phase # "Charging" /\ sent.command # "Charge"

(* An unavailable connector is not charging, and is given no current for   *)
(* a charge to start.                                                      *)
UnavailableIsQuiet ==
    ~useSafeModeCurrentWhenOffline /\ ~m_ChargerA.connAvailable =>
        /\ board.at.phase # "Charging"
        /\ ~(sent.command = "Charge" /\ sent.current)
        /\ m_ChargerA.Status # "Charging"

IInv ==
    /\ TypeOK
    /\ PauseCanBeLeft
    /\ AvailableIsQuiet
    /\ UnavailableIsQuiet

-----------------------------------------------------------------------------
(* The initial states satisfy the invariant.                               *)
LEMMA InitInv == Init => IInv
<1> SUFFICES ASSUME Init PROVE IInv
  OBVIOUS
<1> DEFINE idle == [plug |-> "none", enabled |-> FALSE, phase |-> "NoCharge"]
<1>1. idle \in Snapshot
  BY DEF Snapshot, Plug, Phase
<1>2. /\ board = [at |-> idle, applied |-> TRUE]
      /\ m_ChargerA = [State |-> idle, Command |-> "None", Status |-> "Available",
                       wasFinishing |-> FALSE, stopChargeFlag |-> FALSE,
                       isResumedCharging |-> FALSE, connAvailable |-> TRUE]
  BY DEF Init
<1>3. idle.phase # "Charging"
  OBVIOUS
<1> HIDE DEF idle
<1>4. m_ChargerA \in Charger
  BY <1>1, <1>2 DEF Charger, Command, Status
<1>5. TypeOK
  <2>1. board \in [at : Snapshot, applied : BOOLEAN]
    BY <1>1, <1>2
  <2>2. /\ sent \in [command : Command, current : BOOLEAN]
        /\ newest \in [st : {"None", "Active", "Ended"}, hasId : BOOLEAN]
        /\ older \in {"None", "NoId", "HasId"}
    BY DEF Init, Command
  <2>3. isSuspended \in 0..2
    BY DEF Init
  <2>4. /\ connUnAvailPending \in BOOLEAN /\ connUnavailPending \in BOOLEAN
        /\ pMsgWin \in BOOLEAN /\ goPending \in BOOLEAN
        /\ pCurWin \in Window
    BY Zenon DEF Init, Window
  <2>5. QED
    BY <1>4, <2>1, <2>2, <2>3, <2>4 DEF TypeOK, Charger
<1>6. PauseCanBeLeft
  BY DEF Init, PauseCanBeLeft
<1>7. AvailableIsQuiet /\ UnavailableIsQuiet
  BY <1>2, <1>3 DEF Init, AvailableIsQuiet, UnavailableIsQuiet
<1>8. QED
  BY <1>5, <1>6, <1>7 DEF IInv

(* What the commands of CCharger make of the object is an object.          *)
LEMMA CommandsTyped ==
    ASSUME NEW c \in Charger
    PROVE /\ StartCharge(c) \in Charger /\ ResumeCharge(c) \in Charger
          /\ StopCharge(c) \in Charger /\ ChargerIdle(c) \in Charger
          /\ \A d \in {StartCharge(c), ResumeCharge(c), StopCharge(c), ChargerIdle(c)} :
                /\ d.Status = c.Status
                /\ d.connAvailable = c.connAvailable
BY DEF Charger, StartCharge, ResumeCharge, StopCharge, ChargerIdle, Command

(* The registry keeps its type when a transaction starts or ends.          *)
LEMMA RegistryTyped ==
    ASSUME TypeOK, StartNew \/ EndNewest \/ UNCHANGED registryVars
    PROVE /\ newest' \in [st : {"None", "Active", "Ended"}, hasId : BOOLEAN]
          /\ older' \in {"None", "NoId", "HasId"}
<1>1. CASE StartNew
  <2>1. newest' \in [st : {"None", "Active", "Ended"}, hasId : BOOLEAN]
    BY <1>1 DEF StartNew
  <2>2. \/ older' = older
        \/ older' \in {"NoId", "HasId"}
    <3>1. CASE older # "None" \/ newest.st # "Active"
      BY <1>1, <3>1 DEF StartNew
    <3>2. CASE older = "None" /\ newest.st = "Active"
      BY <1>1, <3>2 DEF StartNew
    <3>3. QED
      BY <3>1, <3>2
  <2>3. QED
    BY <2>1, <2>2 DEF TypeOK
<1>2. CASE EndNewest
  BY <1>2 DEF EndNewest, TypeOK
<1>3. CASE UNCHANGED registryVars
  BY <1>3 DEF registryVars, TypeOK
<1>4. QED
  BY <1>1, <1>2, <1>3

-----------------------------------------------------------------------------
(* What a tick takes over: the report, and the availability.               *)
LEMMA RefreshedTyped ==
    ASSUME IInv
    PROVE /\ Refreshed \in Charger /\ Followed \in Charger
          /\ Refreshed.Status = m_ChargerA.Status /\ Followed.Status = m_ChargerA.Status
          /\ Refreshed.connAvailable = (m_ChargerA.connAvailable /\ ~BecomesUnavailable)
          /\ Followed.connAvailable = Refreshed.connAvailable
          /\ OpenWindow \in Window
          /\ Suspension \in 0..2
          /\ pCurWin # "None" => OpenWindow = pCurWin
<1> USE DEF IInv, TypeOK
<1>1. BecomesUnavailable \in BOOLEAN
  BY DEF BecomesUnavailable
<1>2. /\ Refreshed \in Charger
      /\ Refreshed.Status = m_ChargerA.Status
      /\ Refreshed.connAvailable = (m_ChargerA.connAvailable /\ ~BecomesUnavailable)
  BY <1>1 DEF Refreshed, Charger
<1>3. /\ Followed \in Charger
      /\ Followed.Status = m_ChargerA.Status
      /\ Followed.connAvailable = Refreshed.connAvailable
  <2>1. CASE StopsNow
    BY <1>2, <2>1 DEF Followed, ChargerIdle, Charger, Command
  <2>2. CASE ~StopsNow
    BY <1>2, <2>2 DEF Followed
  <2>3. QED
    BY <2>1, <2>2
<1>4. pCurWin # "None" => OpenWindow = pCurWin
  BY DEF OpenWindow
<1>5. OpenWindow \in Window
  <2>1. CASE pCurWin # "None" \/ MsgShown
    BY <2>1 DEF OpenWindow
  <2>2. CASE pCurWin = "None" /\ ~MsgShown
    BY <2>2 DEF OpenWindow, Window
  <2>3. QED
    BY <2>1, <2>2
<1>6. Suspension \in 0..2
  BY DEF Suspension
<1>7. QED
  BY <1>2, <1>3, <1>4, <1>5, <1>6

(* The end of a tick keeps the invariant when it reports the charge paused *)
(* only in the window of the pause, the status Available only while no     *)
(* charge goes on or is commanded, and Charging only while the board does  *)
(* or when that was the status before.                                     *)
LEMMA EndTickInv ==
    ASSUME IInv,
           NEW c \in Charger, NEW st \in Status, NEW susp \in 0..2, NEW win \in Window,
           NEW finishing \in BOOLEAN,
           EndTick(c, st, susp, win, finishing),
           c.connAvailable = (m_ChargerA.connAvailable /\ ~BecomesUnavailable),
           susp = 1 => win = "Suspend",
           st = "Available" => board.at.phase # "Charging" /\ c.Command # "Charge",
           st = "Charging" => board.at.phase = "Charging" \/ m_ChargerA.Status = "Charging"
    PROVE IInv'
<1> DEFINE changed == st # m_ChargerA.Status
           finished == finishing \/ (st = "Available" /\ m_ChargerA.Status = "Finishing")
           suspended == IF finished THEN 0 ELSE susp
           opens == OpensChargingWindow(st, suspended)
<1>1. /\ m_ChargerA' = [c EXCEPT !.Status = st,
                                 !.wasFinishing = IF changed THEN m_ChargerA.Status = "Finishing"
                                                  ELSE @]
      /\ isSuspended' = suspended
      /\ pCurWin' = CASE opens -> "Charging"
                      [] ~opens /\ ChargeCommandAccepted /\ win = "Payment" -> "Waitting"
                      [] OTHER -> win
      /\ pMsgWin' = (MsgShown /\ ~opens)
      /\ connUnAvailPending' = (connUnAvailPending /\ c.connAvailable)
      /\ connUnavailPending' = (connUnavailPending /\ ~BecomesUnavailable)
      /\ sent' \in {[command |-> c.Command, current |-> CurrentSent(c, offline)] :
                      offline \in BOOLEAN}
      /\ StartNew \/ EndNewest \/ UNCHANGED registryVars
      /\ UNCHANGED <<board, goPending>>
  BY DEF EndTick
<1>2. /\ m_ChargerA' \in Charger
      /\ m_ChargerA'.Status = st
      /\ m_ChargerA'.connAvailable = c.connAvailable
  BY <1>1 DEF Charger
<1>3. suspended \in 0..2 /\ (suspended = 1 => susp = 1)
  OBVIOUS
<1>4. /\ pCurWin' \in Window
      /\ suspended = 1 => pCurWin' = "Suspend"
  <2>1. opens => suspended = 0
    BY DEF OpensChargingWindow
  <2>2. CASE opens
    BY <1>1, <2>1, <2>2 DEF Window
  <2>3. CASE ~opens /\ ChargeCommandAccepted /\ win = "Payment"
    BY <1>1, <1>3, <2>3 DEF Window
  <2>4. CASE ~opens /\ ~(ChargeCommandAccepted /\ win = "Payment")
    BY <1>1, <1>3, <2>4
  <2>5. QED
    BY <2>2, <2>3, <2>4
<1>5. PICK offline \in BOOLEAN :
        sent' = [command |-> c.Command, current |-> CurrentSent(c, offline)]
  BY <1>1
<1>6. CurrentSent(c, offline) \in BOOLEAN
  BY DEF CurrentSent, GetCurrentLimit, Charger
<1>7. /\ sent' \in [command : Command, current : BOOLEAN]
      /\ sent'.command = c.Command
      /\ sent'.current = CurrentSent(c, offline)
  BY <1>5, <1>6 DEF Charger
<1>8. /\ pMsgWin' \in BOOLEAN /\ connUnAvailPending' \in BOOLEAN
      /\ connUnavailPending' \in BOOLEAN
  BY <1>1
<1>9. TypeOK'
  <2>1. TypeOK
    BY DEF IInv
  <2>2. /\ newest' \in [st : {"None", "Active", "Ended"}, hasId : BOOLEAN]
        /\ older' \in {"None", "NoId", "HasId"}
    BY <1>1, <2>1, RegistryTyped
  <2>3. /\ board' \in [at : Snapshot, applied : BOOLEAN]
        /\ goPending' \in BOOLEAN
        /\ isSuspended' \in 0..2
    BY <1>1, <1>3, <2>1 DEF TypeOK
  <2>4. QED
    BY <1>2, <1>4, <1>7, <1>8, <2>2, <2>3 DEF TypeOK, Charger
<1>10. PauseCanBeLeft'
  BY <1>1, <1>4 DEF PauseCanBeLeft
<1>11. AvailableIsQuiet'
  BY <1>1, <1>2, <1>7 DEF AvailableIsQuiet
<1>12. UnavailableIsQuiet'
  <2> SUFFICES ASSUME ~useSafeModeCurrentWhenOffline, ~c.connAvailable
               PROVE /\ board.at.phase # "Charging"
                     /\ ~sent'.current
                     /\ st # "Charging"
    BY <1>1, <1>2 DEF UnavailableIsQuiet
  <2>1. board.at.phase # "Charging" /\ m_ChargerA.Status # "Charging"
    BY DEF IInv, UnavailableIsQuiet, AvailableIsQuiet, BecomesUnavailable
  <2>2. ~sent'.current
    BY <1>7 DEF CurrentSent, GetCurrentLimit
  <2>3. QED
    BY <2>1, <2>2
<1>13. QED
  BY <1>9, <1>10, <1>11, <1>12 DEF IInv

-----------------------------------------------------------------------------
(* The tick, one branch of StatusManage at a time.                         *)
LEMMA BlinkInv ==
    ASSUME IInv, Blink
    PROVE IInv'
<1>1. /\ Refreshed \in Charger /\ Followed \in Charger
      /\ Refreshed.Status = m_ChargerA.Status /\ Followed.Status = m_ChargerA.Status
      /\ Refreshed.connAvailable = (m_ChargerA.connAvailable /\ ~BecomesUnavailable)
      /\ Followed.connAvailable = (m_ChargerA.connAvailable /\ ~BecomesUnavailable)
      /\ OpenWindow \in Window
      /\ Suspension \in 0..2
      /\ pCurWin # "None" => OpenWindow = pCurWin
  BY RefreshedTyped
<1>2. /\ m_ChargerA.Status \in Status
      /\ m_ChargerA.Status = "Available" => board.at.phase # "Charging"
  BY DEF IInv, AvailableIsQuiet, TypeOK
<1>3. ASSUME NEW phase \in {"NoCharge", "Charging"}, Follows(phase)
      PROVE board.at.phase = phase
  BY <1>3 DEF Follows, FollowedPhase
<1> DEFINE unfinished == FALSE
<1>0. 0 \in 0..2 /\ 2 \in 0..2 /\ 0 # 1 /\ 2 # 1 /\ unfinished \in BOOLEAN
  OBVIOUS
<1>4. CASE BlinkSuspended
  <2> DEFINE st == IF Suspension = 1 THEN "SuspendedEVSE" ELSE "SuspendedEV"
  <2>1. /\ st \in Status
        /\ st # "Available" /\ st # "Charging"
    BY DEF Status
  <2>2. Suspension = 1 => OpenWindow = "Suspend"
    BY <1>1 DEF Suspension, IInv, PauseCanBeLeft
  <2>3. EndTick(Refreshed, st, Suspension, OpenWindow, unfinished)
    BY <1>4 DEF BlinkSuspended
  <2> HIDE DEF st, unfinished
  <2>4. QED
    BY <1>0, <1>1, <2>1, <2>2, <2>3, EndTickInv
<1>5. CASE BlinkEndedByEVSide
  <2>1. EndTick(Refreshed, "SuspendedEV", 2, OpenWindow, unfinished)
    BY <1>5 DEF BlinkEndedByEVSide
  <2>2. "SuspendedEV" \in Status
    BY DEF Status
  <2> HIDE DEF unfinished
  <2>3. QED
    BY <1>0, <1>1, <2>1, <2>2, EndTickInv
<1>6. CASE BlinkCommanded
  <2> DEFINE st == DeduceBeforeChargeSuspendStatus
  <2>1. /\ st \in Status
        /\ st # "Available" /\ st # "Charging"
    BY DEF DeduceBeforeChargeSuspendStatus, Status
  <2>2. EndTick(Followed, st, 0, OpenWindow, unfinished)
    BY <1>6 DEF BlinkCommanded
  <2> HIDE DEF st, unfinished
  <2>3. QED
    BY <1>0, <1>1, <2>1, <2>2, EndTickInv
<1>7. CASE BlinkCanceling
  <2> DEFINE c == IF IsIdleState(board.at) THEN [Followed EXCEPT !.Command = "None"]
                  ELSE Followed
  <2>1. /\ c \in Charger
        /\ c.connAvailable = Followed.connAvailable
        /\ c.Command # "Charge"
    BY <1>1, <1>7 DEF BlinkCanceling, Charger, Command
  <2>2. EndTick(c, m_ChargerA.Status, 0, OpenWindow, unfinished)
    BY <1>1, <1>7 DEF BlinkCanceling
  <2> HIDE DEF c, unfinished
  <2>3. QED
    BY <1>0, <1>1, <1>2, <2>1, <2>2, EndTickInv
<1>8. CASE BlinkUncommanded
  <2> DEFINE unplugged == board.at.plug = "none"
             win == IF unplugged /\ OpenWindow \in {"Charging", "Finish"} THEN "None"
                    ELSE OpenWindow
             st == CASE EVConnected(board.at) /\ Followed.Status # "Finishing" ->
                          IF Followed.connAvailable THEN "Preparing" ELSE "Unavailable"
                     [] unplugged -> IF Followed.connAvailable THEN "Available"
                                     ELSE "Unavailable"
                     [] board.at.plug = "cable" /\ IsIdleState(Prev) /\ IsIdleState(board.at) ->
                          "Available"
                     [] OTHER -> Followed.Status
  <2>1. EndTick(Followed, st, 0, win, unfinished)
    BY <1>8 DEF BlinkUncommanded
  <2>2. win \in Window
    BY <1>1 DEF Window
  <2>3. board.at.phase = "NoCharge" /\ Followed.Command # "Charge"
    BY <1>3, <1>8 DEF BlinkUncommanded
  <2>4. \/ st \in {"Preparing", "Unavailable", "Available"}
        \/ st = m_ChargerA.Status
    <3>1. CASE EVConnected(board.at) /\ Followed.Status # "Finishing"
      BY <3>1
    <3>2. CASE ~(EVConnected(board.at) /\ Followed.Status # "Finishing") /\ unplugged
      BY <3>2 DEF EVConnected
    <3>3. CASE ~(EVConnected(board.at) /\ Followed.Status # "Finishing") /\ ~unplugged
      BY <1>1, <3>3
    <3>4. QED
      BY <3>1, <3>2, <3>3
  <2>5. st \in Status /\ (st = "Charging" => m_ChargerA.Status = "Charging")
    BY <1>2, <2>4 DEF Status
  <2> HIDE DEF win, st, unfinished
  <2>6. QED
    BY <1>0, <1>1, <2>1, <2>2, <2>3, <2>5, EndTickInv
<1>9. CASE BlinkCharging
  <2>1. board.at.phase = "Charging"
    BY <1>3, <1>9 DEF BlinkCharging
  <2>2. CASE EndTick(Followed, DeduceChargeSuspendStatus, 0, OpenWindow, unfinished)
    <3> DEFINE st == DeduceChargeSuspendStatus
    <3>1. st \in Status /\ st # "Available"
      BY DEF DeduceChargeSuspendStatus, Status
    <3>2. EndTick(Followed, st, 0, OpenWindow, unfinished)
      BY <2>2
    <3> HIDE DEF st, unfinished
    <3>3. QED
      BY <1>0, <1>1, <2>1, <3>1, <3>2, EndTickInv
  <2>3. CASE EndTick(ChargerIdle(Followed), Followed.Status, 0, OpenWindow, unfinished)
    <3>1. /\ ChargerIdle(Followed) \in Charger
          /\ ChargerIdle(Followed).connAvailable = Followed.connAvailable
      BY <1>1, CommandsTyped
    <3>2. m_ChargerA.Status # "Available"
      BY <1>2, <2>1
    <3>3. EndTick(ChargerIdle(Followed), m_ChargerA.Status, 0, OpenWindow, unfinished)
      BY <1>1, <2>3
    <3> HIDE DEF unfinished
    <3>4. QED
      BY <1>0, <1>1, <1>2, <2>1, <3>1, <3>2, <3>3, EndTickInv
  <2>4. QED
    BY <1>9, <2>2, <2>3 DEF BlinkCharging
<1>10. CASE BlinkFinish
  <2> DEFINE clears == /\ Followed.Status = "Finishing"
                       /\ OpenWindow \notin {"Charging", "Finish"}
                       /\ ~HasActive
             c == IF clears THEN ChargerIdle(Followed) ELSE Followed
             finishing == Prev.phase = "Charging"
  <2>1. EndTick(c, "Finishing", 0, OpenWindow, finishing)
    BY <1>10 DEF BlinkFinish
  <2>2. c \in Charger /\ c.connAvailable = Followed.connAvailable
    BY <1>1, CommandsTyped
  <2>3. "Finishing" \in Status /\ finishing \in BOOLEAN
    BY DEF Status
  <2> HIDE DEF c, finishing
  <2>4. QED
    BY <1>0, <1>1, <2>1, <2>2, <2>3, EndTickInv
<1>11. QED
  BY <1>4, <1>5, <1>6, <1>7, <1>8, <1>9, <1>10 DEF Blink

-----------------------------------------------------------------------------
(* The windows and the calls of the CS change neither the board nor the    *)
(* command on its way, and leave the status as it is.                      *)
LEMMA HandlerInv ==
    ASSUME IInv,
           UNCHANGED <<board, sent>>,
           m_ChargerA' \in Charger,
           m_ChargerA'.Status = m_ChargerA.Status,
           \/ m_ChargerA'.connAvailable = m_ChargerA.connAvailable
           \/ m_ChargerA'.connAvailable
           \/ m_ChargerA.Status = "Available",
           isSuspended' \in 0..2, pCurWin' \in Window,
           isSuspended' = 1 => pCurWin' = "Suspend",
           /\ connUnAvailPending' \in BOOLEAN /\ connUnavailPending' \in BOOLEAN
           /\ pMsgWin' \in BOOLEAN /\ goPending' \in BOOLEAN,
           /\ newest' \in [st : {"None", "Active", "Ended"}, hasId : BOOLEAN]
           /\ older' \in {"None", "NoId", "HasId"}
    PROVE IInv'
<1>1. TypeOK'
  BY DEF IInv, TypeOK, Charger
<1>2. PauseCanBeLeft'
  BY DEF PauseCanBeLeft
<1>3. AvailableIsQuiet'
  BY DEF IInv, AvailableIsQuiet
<1>4. UnavailableIsQuiet'
  BY DEF IInv, AvailableIsQuiet, UnavailableIsQuiet
<1>5. QED
  BY <1>1, <1>2, <1>3, <1>4 DEF IInv

(* A handler of a window: it acts on the object by a command of CCharger,  *)
(* and on the suspension and the registry.                                 *)
LEMMA WindowsInv ==
    ASSUME IInv, NEW win \in Window, NEW c \in Charger, Windows(win, c),
           c.Status = m_ChargerA.Status, c.connAvailable = m_ChargerA.connAvailable,
           isSuspended' \in {0, 1} \/ UNCHANGED isSuspended,
           isSuspended' = 1 => win = "Suspend",
           EndNewest \/ UNCHANGED registryVars
    PROVE IInv'
<1>1. /\ m_ChargerA' = c /\ pCurWin' = win
      /\ UNCHANGED <<board, sent, connUnAvailPending, connUnavailPending, pMsgWin, goPending>>
  BY DEF Windows, availVars
<1>2. TypeOK
  BY DEF IInv
<1>3. /\ newest' \in [st : {"None", "Active", "Ended"}, hasId : BOOLEAN]
      /\ older' \in {"None", "NoId", "HasId"}
  BY <1>2, RegistryTyped
<1>4. isSuspended' \in 0..2
  BY <1>2 DEF TypeOK
<1>5. /\ connUnAvailPending' \in BOOLEAN /\ connUnavailPending' \in BOOLEAN
      /\ pMsgWin' \in BOOLEAN /\ goPending' \in BOOLEAN
  BY <1>1, <1>2 DEF TypeOK
<1>6. QED
  BY <1>1, <1>3, <1>4, <1>5, HandlerInv

(* Every handler of a window keeps the invariant: a pause is entered with  *)
(* its window, and left with it or by no other window's handler.           *)
LEMMA WindowHandlersInv ==
    ASSUME IInv,
           \/ CableWinTimer \/ PaymentHome \/ WaittingExit \/ WaittingTimer
           \/ ChargingQuit \/ ChargingMonitor \/ Pause \/ Resume \/ ExitSuspension
           \/ FinishTimer \/ FinishHome
    PROVE IInv'
<1> DEFINE m == m_ChargerA
<1>1. m \in Charger
  BY DEF IInv, TypeOK, Charger
<1>2. /\ StopCharge(m) \in Charger /\ ChargerIdle(m) \in Charger
      /\ ResumeCharge(m) \in Charger /\ StopCharge(ChargerIdle(m)) \in Charger
      /\ \A d \in {StopCharge(m), ChargerIdle(m), ResumeCharge(m), StopCharge(ChargerIdle(m))} :
            d.Status = m.Status /\ d.connAvailable = m.connAvailable
  BY <1>1, CommandsTyped
<1>3. isSuspended = 1 => pCurWin = "Suspend"
  BY DEF IInv, PauseCanBeLeft
<1>4. \A w \in {"None", "Cable", "Payment", "Waitting", "Quitting", "Charging", "Suspend",
                "Finish"} : w \in Window
  BY DEF Window
<1>5. ASSUME NEW win \in Window, NEW c \in {m, StopCharge(m), ChargerIdle(m), ResumeCharge(m),
                                           StopCharge(ChargerIdle(m))},
             Windows(win, c),
             \/ isSuspended' = 0
             \/ isSuspended' = 1 /\ win = "Suspend"
             \/ UNCHANGED isSuspended /\ pCurWin # "Suspend",
             EndNewest \/ UNCHANGED registryVars
      PROVE IInv'
  <2>1. c \in Charger /\ c.Status = m.Status /\ c.connAvailable = m.connAvailable
    BY <1>1, <1>2, <1>5
  <2>2. isSuspended' = 1 => win = "Suspend"
    BY <1>3, <1>5
  <2>3. isSuspended' \in {0, 1} \/ UNCHANGED isSuspended
    BY <1>5
  <2>4. QED
    BY <1>5, <2>1, <2>2, <2>3, WindowsInv
<1> HIDE DEF m
<1>6. CASE CableWinTimer
  BY <1>4, <1>5, <1>6 DEF CableWinTimer, m
<1>7. CASE PaymentHome
  BY <1>4, <1>5, <1>7 DEF PaymentHome, m
<1>8. CASE WaittingExit
  BY <1>4, <1>5, <1>8 DEF WaittingExit, m
<1>9. CASE WaittingTimer
  BY <1>4, <1>5, <1>9 DEF WaittingTimer, m
<1>10. CASE ChargingQuit
  BY <1>4, <1>5, <1>10 DEF ChargingQuit, m
<1>11. CASE ChargingMonitor
  BY <1>4, <1>5, <1>11 DEF ChargingMonitor, m
<1>12. CASE Pause
  BY <1>4, <1>5, <1>12 DEF Pause, m
<1>13. CASE Resume
  BY <1>4, <1>5, <1>13 DEF Resume, m
<1>14. CASE ExitSuspension
  BY <1>4, <1>5, <1>14 DEF ExitSuspension, m
<1>15. CASE FinishTimer
  BY <1>4, <1>5, <1>15 DEF FinishTimer, m
<1>16. CASE FinishHome
  BY <1>4, <1>5, <1>16 DEF FinishHome, m
<1>17. QED
  BY <1>6, <1>7, <1>8, <1>9, <1>10, <1>11, <1>12, <1>13, <1>14, <1>15, <1>16

(* The calls of the CS keep the invariant: an unavailability is carried    *)
(* out at once only in Available.                                          *)
LEMMA CallsInv ==
    ASSUME IInv,
           \/ RemoteStart \/ RemoteStartGo \/ RemoteStop
           \/ MakeOperative \/ MakeInoperative \/ StartTransactionConf
    PROVE IInv'
<1> DEFINE m == m_ChargerA
<1>1. TypeOK /\ m \in Charger
  BY DEF IInv, TypeOK, Charger
<1>2. /\ StopCharge(m) \in Charger /\ StartCharge(m) \in Charger
      /\ \A d \in {StopCharge(m), StartCharge(m)} :
            d.Status = m.Status /\ d.connAvailable = m.connAvailable
  BY <1>1, CommandsTyped
<1>3. /\ UNCHANGED registryVars => UNCHANGED <<newest, older>>
      /\ newest \in [st : {"None", "Active", "Ended"}, hasId : BOOLEAN]
      /\ older \in {"None", "NoId", "HasId"}
  BY <1>1 DEF registryVars, TypeOK
<1>4. isSuspended = 1 => pCurWin = "Suspend"
  BY DEF IInv, PauseCanBeLeft
<1>5. 0 \in 0..2 /\ 0 # 1
  OBVIOUS
<1>6. ASSUME Called,
             m' \in Charger, m'.Status = m.Status,
             m'.connAvailable = m.connAvailable \/ m'.connAvailable \/ m.Status = "Available",
             isSuspended' = 0 \/ UNCHANGED isSuspended,
             /\ connUnAvailPending' \in BOOLEAN /\ connUnavailPending' \in BOOLEAN
             /\ pMsgWin' \in BOOLEAN /\ goPending' \in BOOLEAN,
             newest' \in [st : {"None", "Active", "Ended"}, hasId : BOOLEAN],
             older' \in {"None", "NoId", "HasId"}
      PROVE IInv'
  <2>1. isSuspended' \in 0..2 /\ (isSuspended' = 1 => pCurWin' = "Suspend")
    BY <1>1, <1>4, <1>5, <1>6 DEF Called, TypeOK
  <2>2. pCurWin' \in Window /\ UNCHANGED <<board, sent>>
    BY <1>1, <1>6 DEF Called, TypeOK
  <2>3. QED
    BY <1>6, <2>1, <2>2, HandlerInv
<1>7. ASSUME CommandCalled,
             m' \in {m, StopCharge(m), StartCharge(m)},
             isSuspended' = 0 \/ UNCHANGED isSuspended,
             goPending' \in BOOLEAN,
             newest' \in [st : {"None", "Active", "Ended"}, hasId : BOOLEAN],
             older' \in {"None", "NoId", "HasId"}
      PROVE IInv'
  <2>1. m' \in Charger /\ m'.Status = m.Status /\ m'.connAvailable = m.connAvailable
    BY <1>1, <1>2, <1>7
  <2>2. /\ Called
        /\ connUnAvailPending' \in BOOLEAN /\ connUnavailPending' \in BOOLEAN
        /\ pMsgWin' \in BOOLEAN
    BY <1>1, <1>7 DEF CommandCalled, availVars, TypeOK
  <2>3. QED
    BY <1>6, <1>7, <2>1, <2>2
<1>8. CASE RemoteStart
  <2>1. m' \in {m, StartCharge(m)} /\ CommandCalled /\ UNCHANGED <<isSuspended, registryVars>>
    BY <1>8 DEF RemoteStart
  <2>2. goPending' \in BOOLEAN
    BY <1>1, <1>8 DEF RemoteStart, TypeOK
  <2>3. QED
    BY <1>3, <1>7, <2>1, <2>2
<1>9. CASE RemoteStartGo
  <2>1. /\ m' \in {m, StartCharge(m)} /\ CommandCalled /\ UNCHANGED <<isSuspended, registryVars>>
        /\ goPending' \in BOOLEAN
    BY <1>9 DEF RemoteStartGo
  <2>2. QED
    BY <1>3, <1>7, <2>1
<1>10. CASE RemoteStop
  <2>1. /\ m' \in {m, StopCharge(m)} /\ CommandCalled /\ isSuspended' = 0
        /\ UNCHANGED <<goPending, registryVars>>
    BY <1>10 DEF RemoteStop
  <2>2. goPending' \in BOOLEAN
    BY <1>1, <2>1 DEF TypeOK
  <2>3. QED
    BY <1>3, <1>7, <2>1, <2>2
<1>11. CASE MakeOperative
  <2>1. Called /\ UNCHANGED <<isSuspended, goPending, registryVars>>
    BY <1>11 DEF MakeOperative
  <2>2. CASE connUnavailPending /\ UNCHANGED <<m_ChargerA, pMsgWin>>
    <3>1. /\ connUnAvailPending' \in BOOLEAN /\ connUnavailPending' \in BOOLEAN
          /\ pMsgWin' \in BOOLEAN /\ goPending' \in BOOLEAN
      BY <1>1, <1>11, <2>1, <2>2 DEF MakeOperative, TypeOK
    <3>2. QED
      BY <1>1, <1>3, <1>6, <2>1, <2>2, <3>1
  <2>3. CASE /\ m_ChargerA' = [m_ChargerA EXCEPT !.connAvailable = TRUE]
             /\ pMsgWin' = FALSE
             /\ UNCHANGED <<connUnavailPending, connUnAvailPending>>
    <3>1. /\ connUnAvailPending' \in BOOLEAN /\ connUnavailPending' \in BOOLEAN
          /\ pMsgWin' \in BOOLEAN /\ goPending' \in BOOLEAN
      BY <1>1, <2>1, <2>3 DEF TypeOK
    <3>2. m' \in Charger /\ m'.Status = m.Status /\ m'.connAvailable
      BY <1>1, <2>3 DEF Charger
    <3>3. QED
      BY <1>3, <1>6, <2>1, <3>1, <3>2
  <2>4. QED
    BY <1>11, <2>2, <2>3 DEF MakeOperative
<1>12. CASE MakeInoperative
  <2>1. Called /\ UNCHANGED <<isSuspended, goPending, registryVars>>
    BY <1>12 DEF MakeInoperative
  <2>2. CASE /\ m_ChargerA.Status = "Available"
             /\ m_ChargerA' = [m_ChargerA EXCEPT !.connAvailable = FALSE]
             /\ pMsgWin' = TRUE /\ connUnavailPending' = FALSE
             /\ UNCHANGED connUnAvailPending
    <3>1. /\ connUnAvailPending' \in BOOLEAN /\ connUnavailPending' \in BOOLEAN
          /\ pMsgWin' \in BOOLEAN /\ goPending' \in BOOLEAN
      BY <1>1, <2>1, <2>2 DEF TypeOK
    <3>2. m' \in Charger /\ m'.Status = m.Status /\ m.Status = "Available"
      BY <1>1, <2>2 DEF Charger
    <3>3. QED
      BY <1>3, <1>6, <2>1, <3>1, <3>2
  <2>3. CASE /\ connUnavailPending' = TRUE /\ connUnAvailPending' = TRUE
             /\ UNCHANGED <<m_ChargerA, pMsgWin>>
    <3>1. /\ connUnAvailPending' \in BOOLEAN /\ connUnavailPending' \in BOOLEAN
          /\ pMsgWin' \in BOOLEAN /\ goPending' \in BOOLEAN
      BY <1>1, <2>1, <2>3 DEF TypeOK
    <3>2. QED
      BY <1>1, <1>3, <1>6, <2>1, <2>3, <3>1
  <2>4. QED
    BY <1>12, <2>2, <2>3 DEF MakeInoperative
<1>13. CASE StartTransactionConf
  <2>1. /\ m' \in {m, StopCharge(m)} /\ CommandCalled
        /\ isSuspended' = 0 \/ UNCHANGED isSuspended
        /\ UNCHANGED goPending
    BY <1>13 DEF StartTransactionConf
  <2>2. goPending' \in BOOLEAN
    BY <1>1, <2>1 DEF TypeOK
  <2>3. /\ newest' \in [st : {"None", "Active", "Ended"}, hasId : BOOLEAN]
        /\ older' \in {"None", "NoId", "HasId"}
    BY <1>3, <1>13 DEF StartTransactionConf
  <2>4. QED
    BY <1>7, <2>1, <2>2, <2>3
<1>14. QED
  BY <1>8, <1>9, <1>10, <1>11, <1>12, <1>13

-----------------------------------------------------------------------------
(* The board and the EV: without a command to charge, and a current, no    *)
(* charge begins.                                                          *)
LEMMA BoardInv ==
    ASSUME IInv, BoardObeys \/ EVMoves \/ ChargeEnds
    PROVE IInv'
<1>1. TypeOK
  BY DEF IInv
<1>2. ASSUME NEW at \in Snapshot, NEW applied \in BOOLEAN, BoardStep(at, applied),
             at.phase = "Charging" =>
                board.at.phase = "Charging" \/ (sent.command = "Charge" /\ sent.current)
      PROVE IInv'
  <2>1. /\ board' = [at |-> at, applied |-> applied]
        /\ UNCHANGED <<sent, m_ChargerA, isSuspended, connUnAvailPending, connUnavailPending,
                       pMsgWin, pCurWin, goPending, newest, older>>
    BY <1>2 DEF BoardStep, availVars, registryVars
  <2>2. TypeOK'
    BY <1>1, <1>2, <2>1 DEF TypeOK
  <2>3. PauseCanBeLeft'
    BY <2>1 DEF IInv, PauseCanBeLeft
  <2>4. AvailableIsQuiet'
    BY <1>2, <2>1 DEF IInv, AvailableIsQuiet
  <2>5. UnavailableIsQuiet'
    BY <1>2, <2>1 DEF IInv, UnavailableIsQuiet
  <2>6. QED
    BY <2>2, <2>3, <2>4, <2>5 DEF IInv
<1> DEFINE b == board.at
<1>3. /\ b \in Snapshot /\ sent.current \in BOOLEAN /\ board.applied \in BOOLEAN
      /\ b.enabled \in BOOLEAN /\ b.plug \in Plug
  BY <1>1 DEF TypeOK, Snapshot
<1>4. CASE BoardObeys
  <2>1. CASE sent.command = "Charge" /\ b.phase = "NoCharge"
    <3> DEFINE at == [b EXCEPT !.enabled = EVConnected(b),
                               !.phase = IF b.plug = "C" /\ sent.current THEN "Charging" ELSE @]
    <3>1. BoardStep(at, sent.current)
      BY <1>4, <2>1 DEF BoardObeys
    <3>2. at \in Snapshot
      <4>1. EVConnected(b) \in BOOLEAN
        BY DEF EVConnected
      <4>2. (IF b.plug = "C" /\ sent.current THEN "Charging" ELSE b.phase) \in Phase
        BY <1>3 DEF Snapshot, Phase
      <4>3. QED
        BY <1>3, <4>1, <4>2 DEF Snapshot
    <3>3. at.phase = "Charging" => sent.command = "Charge" /\ sent.current
      BY <1>3, <2>1 DEF Snapshot
    <3> HIDE DEF at
    <3>4. QED
      BY <1>2, <1>3, <3>1, <3>2, <3>3
  <2>2. CASE sent.command = "Stop"
    <3> DEFINE at == IF b.phase = "Charging" THEN [b EXCEPT !.phase = "Finish"]
                     ELSE [b EXCEPT !.enabled = b.phase = "Finish"]
    <3>1. BoardStep(at, sent.current)
      BY <1>4, <2>2 DEF BoardObeys
    <3>2. at \in Snapshot /\ at.phase # "Charging"
      BY <1>3 DEF Snapshot, Phase
    <3> HIDE DEF at
    <3>3. QED
      BY <1>2, <1>3, <3>1, <3>2
  <2>3. CASE sent.command = "Idle"
    <3> DEFINE at == [b EXCEPT !.enabled = FALSE, !.phase = "NoCharge"]
    <3>1. BoardStep(at, sent.current)
      BY <1>4, <2>3 DEF BoardObeys
    <3>2. at \in Snapshot /\ at.phase # "Charging"
      BY <1>3 DEF Snapshot, Phase
    <3> HIDE DEF at
    <3>3. QED
      BY <1>2, <1>3, <3>1, <3>2
  <2>4. CASE /\ ~(sent.command = "Charge" /\ b.phase = "NoCharge")
             /\ sent.command # "Stop" /\ sent.command # "Idle"
    <3>1. BoardStep(b, sent.current)
      BY <1>4, <2>4 DEF BoardObeys
    <3>2. QED
      BY <1>2, <1>3, <3>1
  <2>5. QED
    BY <2>1, <2>2, <2>3, <2>4
<1>5. CASE EVMoves
  <2>1. PICK p \in Plug :
          BoardStep([b EXCEPT !.plug = p,
                              !.phase = IF @ = "Charging" /\ p \notin {"B", "C"}
                                        THEN "Finish" ELSE @],
                    board.applied)
    BY <1>5 DEF EVMoves
  <2> DEFINE at == [b EXCEPT !.plug = p,
                             !.phase = IF @ = "Charging" /\ p \notin {"B", "C"}
                                       THEN "Finish" ELSE @]
  <2>2. at \in Snapshot
    BY <1>3 DEF Snapshot, Phase
  <2>3. at.phase = "Charging" => b.phase = "Charging"
    BY <1>3 DEF Snapshot
  <2>4. BoardStep(at, board.applied)
    BY <2>1
  <2> HIDE DEF at
  <2>5. QED
    BY <1>2, <1>3, <2>2, <2>3, <2>4
<1>6. CASE ChargeEnds
  <2> DEFINE at == [b EXCEPT !.phase = "Finish"]
  <2>1. BoardStep(at, board.applied)
    BY <1>6 DEF ChargeEnds
  <2>2. at \in Snapshot /\ at.phase # "Charging"
    BY <1>3 DEF Snapshot, Phase
  <2> HIDE DEF at
  <2>3. QED
    BY <1>2, <1>3, <2>1, <2>2
<1>7. QED
  BY <1>4, <1>5, <1>6

-----------------------------------------------------------------------------
(* Every step keeps the invariant.                                         *)
LEMMA NextKeepsInv == IInv /\ [Next]_vars => IInv'
<1> SUFFICES ASSUME IInv, [Next]_vars PROVE IInv'
  OBVIOUS
<1>1. CASE Next
  BY <1>1, BlinkInv, WindowHandlersInv, CallsInv, BoardInv DEF Next
<1>2. CASE UNCHANGED vars
  BY <1>2 DEF vars, availVars, registryVars, IInv, TypeOK, PauseCanBeLeft, AvailableIsQuiet,
              UnavailableIsQuiet
<1>3. QED
  BY <1>1, <1>2

(* The invariant holds in every reachable state.                           *)
THEOREM ChargerInvariant == Spec => []IInv
BY InitInv, NextKeepsInv, PTL DEF Spec

(* Every variable of the charger's control keeps its type.                 *)
THEOREM ChargerTypeCorrect == Spec => []TypeOK
<1>1. IInv => TypeOK
  BY DEF IInv
<1>2. QED
  BY <1>1, ChargerInvariant, PTL

(* A pause can be left, whatever the settings: while the tick reports the  *)
(* charge suspended by the EVSE, the window that resumes or ends it shows. *)
THEOREM ChargerPauseCanBeLeft == Spec => []PauseCanBeLeft
<1>1. IInv => PauseCanBeLeft
  BY DEF IInv
<1>2. QED
  BY <1>1, ChargerInvariant, PTL

(* A connector that the CS made unavailable does not charge, where the     *)
(* safe-mode current of useSafeModeCurrentWhenOffline is not set.          *)
THEOREM ChargerUnavailableDoesNotCharge ==
    ~useSafeModeCurrentWhenOffline => (Spec => []UnavailableDoesNotCharge)
<1> SUFFICES ASSUME ~useSafeModeCurrentWhenOffline
             PROVE Spec => []UnavailableDoesNotCharge
  OBVIOUS
<1>1. IInv => UnavailableDoesNotCharge
  BY DEF IInv, UnavailableIsQuiet, UnavailableDoesNotCharge
<1>2. QED
  BY <1>1, ChargerInvariant, PTL
-----------------------------------------------------------------------------
(***************************************************************************)
(* A charge that goes on, and is not the resumption of a paused one, has a *)
(* transaction (ChargeIsRecorded).                                         *)
(*                                                                         *)
(* The transaction is made in the tick in which the report of the board    *)
(* goes from idle to not idle, and it is ended by other ticks and by a     *)
(* window. So the argument has to follow                                   *)
(*  - the board between two ticks: from a charge or a Finish it gets back  *)
(*    to NoCharge only by the command Idle, and idle (BoardFollows);       *)
(*  - the command: None is left behind by an idle board only, and Stop has *)
(*    its flag (CommandFollows);                                           *)
(*  - the windows: while a charge goes on or is suspended, a window of the *)
(*    charge shows, or a stop is being carried out, so that no home or     *)
(*    exit button of an earlier window takes the command away from under   *)
(*    the charge (WindowFollows);                                          *)
(*  - and the charge itself (ChargeFollows).                               *)
(***************************************************************************)

UnderWay == {"Charging", "SuspendedEV", "SuspendedEVSE"}

BoardFollows ==
    /\ board.at.phase = "Charging" => board.at.enabled
    /\ m_ChargerA.State.phase = "Charging" => m_ChargerA.State.enabled
    /\ ~m_ChargerA.State.enabled /\ sent.command # "Charge" /\ board.at.enabled =>
          board.at.phase = "Finish"
    /\ m_ChargerA.State.phase # "NoCharge" /\ board.at.phase = "NoCharge" =>
          sent.command = "Idle" /\ ~board.at.enabled
    /\ m_ChargerA.State.phase = "Finish" => board.at.phase # "Charging"

CommandFollows ==
    /\ m_ChargerA.Command = "None" =>
          sent.command = "None" /\ ~board.at.enabled /\ ~m_ChargerA.State.enabled
    /\ m_ChargerA.Command = "Stop" => m_ChargerA.stopChargeFlag

(* Once it holds, the windows and the calls of the CS keep it: leaving the *)
(* windows of a charge sets the flag.                                      *)
ChargeWindowOrStop == pCurWin \in {"Charging", "Suspend"} \/ m_ChargerA.stopChargeFlag

WindowFollows ==
    /\ sent.command # "Charge" /\ m_ChargerA.Command = "Charge" /\ m_ChargerA.State.enabled =>
          ChargeWindowOrStop
    /\ m_ChargerA.Status \notin UnderWay /\ sent.command = "Charge" /\ board.at.phase # "Finish" =>
          ChargeWindowOrStop
    /\ m_ChargerA.Status \in UnderWay => ChargeWindowOrStop \/ isSuspended = 2
    /\ m_ChargerA.Status \in UnderWay /\ m_ChargerA.Command = "Idle" /\ isSuspended = 0 =>
          m_ChargerA.stopChargeFlag

ChargeFollows ==
    /\ m_ChargerA.Status = "Charging" => m_ChargerA.State.phase = "Charging"
    /\ m_ChargerA.Status = "Charging" /\ m_ChargerA.Command = "Charge" =>
          m_ChargerA.stopChargeFlag \/ isSuspended = 0
    /\ /\ m_ChargerA.Command = "Charge" /\ ~m_ChargerA.isResumedCharging
       /\ m_ChargerA.State.enabled /\ m_ChargerA.State.phase # "Finish"
       /\ m_ChargerA.stopChargeFlag \/ isSuspended = 0
       => HasActive

RInv ==
    /\ IInv
    /\ BoardFollows
    /\ CommandFollows
    /\ WindowFollows
    /\ ChargeFollows

-----------------------------------------------------------------------------
LEMMA RecordInit == Init => BoardFollows /\ CommandFollows /\ WindowFollows /\ ChargeFollows
<1> SUFFICES ASSUME Init
             PROVE BoardFollows /\ CommandFollows /\ WindowFollows /\ ChargeFollows
  OBVIOUS
<1> DEFINE idle == [plug |-> "none", enabled |-> FALSE, phase |-> "NoCharge"]
<1>1. idle.enabled = FALSE /\ idle.phase = "NoCharge"
  OBVIOUS
<1> HIDE DEF idle
<1>2. /\ board.at = idle /\ sent.command = "None"
      /\ m_ChargerA.State = idle /\ m_ChargerA.Command = "None"
      /\ m_ChargerA.Status = "Available"
  BY DEF Init, idle
<1>3. QED
  BY <1>1, <1>2 DEF BoardFollows, CommandFollows, WindowFollows, ChargeFollows, UnderWay

(* What holds whatever branch the tick takes.                              *)
LEMMA TickEffect ==
    ASSUME NEW c \in Charger, NEW st \in Status, NEW susp \in 0..2, NEW win \in Window,
           NEW finishing \in BOOLEAN,
           EndTick(c, st, susp, win, finishing)
    PROVE LET finished == finishing \/ (st = "Available" /\ m_ChargerA.Status = "Finishing") IN
          /\ UNCHANGED board
          /\ sent'.command = c.Command
          /\ m_ChargerA'.State = c.State /\ m_ChargerA'.Command = c.Command
          /\ m_ChargerA'.Status = st
          /\ m_ChargerA'.stopChargeFlag = c.stopChargeFlag
          /\ m_ChargerA'.isResumedCharging = c.isResumedCharging
          /\ isSuspended' = IF finished THEN 0 ELSE susp
          /\ win \in {"Charging", "Suspend"} => pCurWin' \in {"Charging", "Suspend"}
          /\ st \in {"Charging", "SuspendedEVSE"} /\ st # m_ChargerA.Status /\ susp = 0 =>
                pCurWin' = "Charging"
          /\ ChargeCommandAccepted /\ ~c.isResumedCharging /\ ~finished => StartNew
          /\ ~ChargeCommandAccepted /\ ~ChargeCommandCanceled /\ ~finished =>
                UNCHANGED <<newest, older>>
<1> DEFINE changed == st # m_ChargerA.Status
           finished == finishing \/ (st = "Available" /\ m_ChargerA.Status = "Finishing")
           suspended == IF finished THEN 0 ELSE susp
           opens == OpensChargingWindow(st, suspended)
<1>1. /\ m_ChargerA' = [c EXCEPT !.Status = st,
                                 !.wasFinishing = IF changed THEN m_ChargerA.Status = "Finishing"
                                                  ELSE @]
      /\ isSuspended' = suspended
      /\ pCurWin' = CASE opens -> "Charging"
                      [] ~opens /\ ChargeCommandAccepted /\ win = "Payment" -> "Waitting"
                      [] OTHER -> win
      /\ sent' \in {[command |-> c.Command, current |-> CurrentSent(c, offline)] :
                      offline \in BOOLEAN}
      /\ CASE ChargeCommandAccepted /\ ~c.isResumedCharging -> StartNew
           [] ChargeCommandCanceled \/ finished -> EndNewest
           [] OTHER -> UNCHANGED registryVars
      /\ UNCHANGED board
  BY DEF EndTick
<1>2. /\ m_ChargerA'.State = c.State /\ m_ChargerA'.Command = c.Command
      /\ m_ChargerA'.Status = st
      /\ m_ChargerA'.stopChargeFlag = c.stopChargeFlag
      /\ m_ChargerA'.isResumedCharging = c.isResumedCharging
  BY <1>1 DEF Charger
<1>3. sent'.command = c.Command
  BY <1>1
<1>4. win \in {"Charging", "Suspend"} => pCurWin' \in {"Charging", "Suspend"}
  <2>1. CASE opens
    BY <1>1, <2>1
  <2>2. CASE ~opens
    <3>1. win \in {"Charging", "Suspend"} => pCurWin' = win
      BY <1>1, <2>2
    <3>2. QED
      BY <3>1
  <2>3. QED
    BY <2>1, <2>2
<1>5. st \in {"Charging", "SuspendedEVSE"} /\ st # m_ChargerA.Status /\ susp = 0 =>
          pCurWin' = "Charging"
  BY <1>1 DEF OpensChargingWindow
<1>6. ChargeCommandAccepted => ~ChargeCommandCanceled
  BY DEF ChargeCommandAccepted, ChargeCommandCanceled
<1>7. /\ ChargeCommandAccepted /\ ~c.isResumedCharging /\ ~finished => StartNew
      /\ ~ChargeCommandAccepted /\ ~ChargeCommandCanceled /\ ~finished =>
            UNCHANGED <<newest, older>>
  <2>1. CASE ~finished
    BY <1>1, <1>6, <2>1 DEF registryVars
  <2>2. CASE finished
    BY <2>2
  <2>3. QED
    BY <2>1, <2>2
<1>8. QED
  BY <1>1, <1>2, <1>3, <1>4, <1>5, <1>7

(* A tick keeps the invariant when what it makes of the object, of the     *)
(* status and of the window does.                                          *)
LEMMA TickRecord ==
    ASSUME RInv,
           NEW c \in Charger, NEW st \in Status, NEW susp \in 0..2, NEW win \in Window,
           NEW finishing \in BOOLEAN,
           EndTick(c, st, susp, win, finishing),
           c.State = board.at,
           c.Command = "None" => ~board.at.enabled,
           c.Command = "Stop" => c.stopChargeFlag,
           st \notin UnderWay /\ c.Command = "Charge" /\ board.at.phase # "Finish" =>
                pCurWin' \in {"Charging", "Suspend"} \/ c.stopChargeFlag,
           st \in UnderWay =>
                pCurWin' \in {"Charging", "Suspend"} \/ c.stopChargeFlag \/ isSuspended' = 2,
           st \in UnderWay /\ c.Command = "Idle" /\ isSuspended' = 0 => c.stopChargeFlag,
           st = "Charging" => board.at.phase = "Charging",
           st = "Charging" /\ c.Command = "Charge" => c.stopChargeFlag \/ isSuspended' = 0,
           /\ c.Command = "Charge" /\ ~c.isResumedCharging
           /\ board.at.enabled /\ board.at.phase # "Finish"
           /\ c.stopChargeFlag \/ isSuspended' = 0
           => HasActive'
    PROVE BoardFollows' /\ CommandFollows' /\ WindowFollows' /\ ChargeFollows'
<1>1. /\ UNCHANGED board
      /\ sent'.command = c.Command
      /\ m_ChargerA'.State = board.at /\ m_ChargerA'.Command = c.Command
      /\ m_ChargerA'.Status = st
      /\ m_ChargerA'.stopChargeFlag = c.stopChargeFlag
      /\ m_ChargerA'.isResumedCharging = c.isResumedCharging
  BY TickEffect
<1>2. BoardFollows'
  BY <1>1 DEF BoardFollows, RInv
<1>3. CommandFollows'
  BY <1>1 DEF CommandFollows
<1>4. WindowFollows'
  BY <1>1 DEF WindowFollows, ChargeWindowOrStop
<1>5. ChargeFollows'
  BY <1>1 DEF ChargeFollows
<1>6. QED
  BY <1>2, <1>3, <1>4, <1>5

(* What a tick takes over of the object, with and without a stop.          *)
LEMMA TakenOver ==
    ASSUME RInv
    PROVE /\ Refreshed.State = board.at /\ Followed.State = board.at
          /\ Refreshed.Command = m_ChargerA.Command
          /\ Refreshed.stopChargeFlag = m_ChargerA.stopChargeFlag
          /\ Refreshed.isResumedCharging = m_ChargerA.isResumedCharging
          /\ StopsNow => Followed.Command = "Idle" /\ FollowedPhase = "Finish"
          /\ ~StopsNow => Followed = Refreshed
          /\ ~StopsNow /\ m_ChargerA.stopChargeFlag =>
                board.at.enabled /\ board.at.plug = "B" /\ board.applied
          /\ StopsNow => m_ChargerA.stopChargeFlag
          /\ Suspension = IF m_ChargerA.stopChargeFlag THEN 0 ELSE isSuspended
<1>1. m_ChargerA \in Charger
  BY DEF RInv, IInv, TypeOK, Charger
<1>2. /\ Refreshed.State = board.at
      /\ Refreshed.Command = m_ChargerA.Command
      /\ Refreshed.stopChargeFlag = m_ChargerA.stopChargeFlag
      /\ Refreshed.isResumedCharging = m_ChargerA.isResumedCharging
      /\ Refreshed \in Charger
  BY <1>1, RefreshedTyped DEF Refreshed, Charger, RInv
<1>3. StopsNow => /\ Followed.Command = "Idle" /\ FollowedPhase = "Finish"
                  /\ Followed.State = board.at
  BY <1>2 DEF Followed, FollowedPhase, ChargerIdle, Charger
<1>4. ~StopsNow => Followed = Refreshed
  BY DEF Followed
<1>5. ~StopsNow /\ m_ChargerA.stopChargeFlag =>
          board.at.enabled /\ board.at.plug = "B" /\ board.applied
  BY DEF StopsNow, DeduceBeforeChargeSuspendStatus
<1>6. QED
  BY <1>2, <1>3, <1>4, <1>5 DEF StopsNow, Suspension

(* A tick that finds the start of the board accepted makes a transaction,  *)
(* and one that finds it still accepted ends none.                         *)
LEMMA StartMakesTransaction ==
    ASSUME RInv, FollowsAny, ~StopsNow,
           NEW st \in UnderWay,
           EndTick(Followed, st, 0, OpenWindow, FALSE),
           m_ChargerA.Command = "Charge", ~m_ChargerA.isResumedCharging,
           board.at.enabled, board.at.phase # "Finish"
    PROVE HasActive'
<1>1. Followed \in Charger /\ OpenWindow \in Window /\ st \in Status /\ 0 \in 0..2
  BY RefreshedTyped DEF RInv, UnderWay, Status
<1>2. ~Followed.isResumedCharging
  BY TakenOver
<1> DEFINE unfinished == FALSE
<1>3. unfinished \in BOOLEAN /\ EndTick(Followed, st, 0, OpenWindow, unfinished)
  OBVIOUS
<1>4. ~(unfinished \/ (st = "Available" /\ m_ChargerA.Status = "Finishing"))
  BY DEF UnderWay
<1> HIDE DEF unfinished
<1>5. /\ ChargeCommandAccepted => StartNew
      /\ ~ChargeCommandAccepted /\ ~ChargeCommandCanceled => UNCHANGED <<newest, older>>
  BY <1>1, <1>2, <1>3, <1>4, TickEffect
<1>6. CASE ~m_ChargerA.State.enabled
  <2>1. StartNew
    BY <1>5, <1>6 DEF ChargeCommandAccepted, Prev, IsIdleState
  <2>2. QED
    BY <2>1 DEF StartNew, HasActive
<1>7. CASE m_ChargerA.State.enabled
  <2>1. ~ChargeCommandAccepted /\ ~ChargeCommandCanceled
    BY <1>7 DEF ChargeCommandAccepted, ChargeCommandCanceled, Prev, IsIdleState
  <2>2. m_ChargerA.State.phase # "Finish"
    <3>1. board.at.phase \in {"NoCharge", "Charging"}
      BY DEF RInv, IInv, TypeOK, Snapshot, Phase
    <3>2. QED
      BY <3>1 DEF RInv, BoardFollows
  <2>3. m_ChargerA.stopChargeFlag \/ isSuspended = 0
    BY DEF FollowsAny, Suspension
  <2>4. HasActive
    BY <1>7, <2>2, <2>3 DEF RInv, ChargeFollows
  <2>5. QED
    BY <1>5, <2>1, <2>4 DEF HasActive
<1>8. QED
  BY <1>6, <1>7

-----------------------------------------------------------------------------
(* The tick, one branch of StatusManage at a time.                         *)
LEMMA BlinkRecord ==
    ASSUME RInv, Blink
    PROVE BoardFollows' /\ CommandFollows' /\ WindowFollows' /\ ChargeFollows'
<1> DEFINE m == m_ChargerA
           unfinished == FALSE
<1>1. /\ Refreshed \in Charger /\ Followed \in Charger
      /\ Refreshed.Status = m.Status /\ Followed.Status = m.Status
      /\ OpenWindow \in Window
      /\ Suspension \in 0..2
      /\ pCurWin # "None" => OpenWindow = pCurWin
  BY RefreshedTyped DEF RInv
<1>2. /\ Refreshed.State = board.at /\ Followed.State = board.at
      /\ Refreshed.Command = m.Command
      /\ Refreshed.stopChargeFlag = m.stopChargeFlag
      /\ Refreshed.isResumedCharging = m.isResumedCharging
      /\ StopsNow => Followed.Command = "Idle" /\ FollowedPhase = "Finish"
      /\ ~StopsNow => Followed = Refreshed
      /\ ~StopsNow /\ m.stopChargeFlag =>
            board.at.enabled /\ board.at.plug = "B" /\ board.applied
      /\ Suspension = IF m.stopChargeFlag THEN 0 ELSE isSuspended
  BY TakenOver
<1>3. /\ m.Status \in Status
      /\ board.at.phase \in {"NoCharge", "Charging", "Finish"}
      /\ m.Command \in {"None", "Charge", "Stop", "Idle"}
  BY DEF RInv, IInv, TypeOK, Snapshot, Phase, Command
<1>4. /\ unfinished \in BOOLEAN /\ 0 \in 0..2 /\ 2 \in 0..2
      /\ \A st \in UnderWay : st \in Status /\ st # "Available"
      /\ "Finishing" \in Status /\ "Finishing" \notin UnderWay
  BY DEF UnderWay, Status
<1>5. pCurWin \in {"Charging", "Suspend"} => OpenWindow \in {"Charging", "Suspend"}
  BY <1>1
<1>6. ASSUME NEW phase \in {"NoCharge", "Charging"}, Follows(phase)
      PROVE /\ board.at.phase = phase /\ ~StopsNow /\ Followed = Refreshed
            /\ m.stopChargeFlag \/ isSuspended = 0
            /\ FollowsAny
  BY <1>2, <1>6 DEF Follows, FollowedPhase, FollowsAny
<1>7. m.Status \in UnderWay /\ (m.stopChargeFlag \/ isSuspended = 0) =>
          OpenWindow \in {"Charging", "Suspend"} \/ m.stopChargeFlag
  BY <1>5 DEF RInv, WindowFollows, ChargeWindowOrStop
<1>8. m.Command = "None" => ~board.at.enabled
  BY DEF RInv, CommandFollows
<1>9. m.Command = "Stop" => m.stopChargeFlag
  BY DEF RInv, CommandFollows
<1>10. CASE BlinkSuspended
  <2> DEFINE st == IF Suspension = 1 THEN "SuspendedEVSE" ELSE "SuspendedEV"
  <2>1. EndTick(Refreshed, st, Suspension, OpenWindow, unfinished) /\ Suspension # 0
    BY <1>10 DEF BlinkSuspended
  <2>2. st \in UnderWay /\ st # "Charging" /\ st \in Status /\ st # "Available"
    BY <1>4 DEF UnderWay
  <2> HIDE DEF st
  <2>3. ~(unfinished \/ (st = "Available" /\ m.Status = "Finishing"))
    BY <2>2
  <2> HIDE DEF unfinished
  <2>4. /\ isSuspended' = Suspension
        /\ OpenWindow \in {"Charging", "Suspend"} => pCurWin' \in {"Charging", "Suspend"}
    BY <1>1, <1>4, <2>1, <2>2, <2>3, TickEffect
  <2>5. ~m.stopChargeFlag /\ isSuspended = Suspension
    BY <1>2, <2>1
  <2>6. pCurWin' \in {"Charging", "Suspend"} \/ isSuspended' = 2
    <3>1. CASE Suspension = 1
      BY <1>5, <2>4, <2>5, <3>1 DEF RInv, IInv, PauseCanBeLeft
    <3>2. CASE Suspension # 1
      BY <1>1, <2>1, <2>4, <3>2
    <3>3. QED
      BY <3>1, <3>2
  <2>7. isSuspended' # 0
    BY <2>1, <2>4
  <2>8. QED
    BY <1>1, <1>2, <1>4, <1>8, <1>9, <2>1, <2>2, <2>5, <2>6, <2>7, TickRecord
<1>11. CASE BlinkEndedByEVSide
  <2> DEFINE st == "SuspendedEV"
             susp == 2
  <2>1. EndTick(Refreshed, st, susp, OpenWindow, unfinished)
    BY <1>11 DEF BlinkEndedByEVSide
  <2>2. st \in UnderWay /\ st # "Charging" /\ st \in Status /\ st # "Available" /\ susp \in 0..2
    BY DEF UnderWay, Status
  <2>3. ~(unfinished \/ (st = "Available" /\ m.Status = "Finishing"))
    OBVIOUS
  <2>4. ~m.stopChargeFlag
    BY <1>11 DEF BlinkEndedByEVSide, EndedByEVSide
  <2>5. susp # 0 /\ susp = 2
    OBVIOUS
  <2> HIDE DEF st, susp, unfinished
  <2>6. isSuspended' = susp
    BY <1>1, <1>4, <2>1, <2>2, <2>3, TickEffect
  <2>7. QED
    BY <1>1, <1>2, <1>4, <1>8, <1>9, <2>1, <2>2, <2>4, <2>5, <2>6, TickRecord
<1>12. ASSUME Follows("NoCharge") \/ Follows("Charging"),
              NEW st \in UnderWay,
              EndTick(Followed, st, 0, OpenWindow, FALSE),
              st = "Charging" => board.at.phase = "Charging",
              st = "SuspendedEV" => board.at.enabled,
              m.Status \notin UnderWay => m.Command = "Charge"
       PROVE BoardFollows' /\ CommandFollows' /\ WindowFollows' /\ ChargeFollows'
  <2>1. /\ board.at.phase \in {"NoCharge", "Charging"} /\ Followed = Refreshed /\ ~StopsNow
        /\ m.stopChargeFlag \/ isSuspended = 0
        /\ FollowsAny
    BY <1>6, <1>12
  <2>2. ~(unfinished \/ (st = "Available" /\ m.Status = "Finishing"))
    BY <1>4
  <2>3. (/\ m.Command = "Charge" /\ ~m.isResumedCharging
         /\ board.at.enabled /\ board.at.phase # "Finish") => HasActive'
    BY <1>12, <2>1, StartMakesTransaction
  <2>4. EndTick(Followed, st, 0, OpenWindow, unfinished)
    BY <1>12
  <2> HIDE DEF unfinished
  <2>5. /\ isSuspended' = 0
        /\ OpenWindow \in {"Charging", "Suspend"} => pCurWin' \in {"Charging", "Suspend"}
        /\ st \in {"Charging", "SuspendedEVSE"} /\ st # m.Status => pCurWin' = "Charging"
    BY <1>1, <1>4, <2>2, <2>4, TickEffect
  <2>6. pCurWin' \in {"Charging", "Suspend"} \/ m.stopChargeFlag
    <3>1. CASE m.Status \in UnderWay
      BY <1>7, <2>1, <2>5, <3>1
    <3>2. CASE m.Status \notin UnderWay /\ st \in {"Charging", "SuspendedEVSE"}
      BY <2>5, <3>2
    <3>3. CASE m.Status \notin UnderWay /\ st = "SuspendedEV"
      <4>1. m.Command = "Charge" /\ board.at.enabled /\ board.at.phase # "Finish"
        BY <1>12, <2>1, <3>3
      <4>2. ChargeWindowOrStop
        BY <3>3, <4>1 DEF RInv, WindowFollows, BoardFollows
      <4>3. QED
        BY <1>5, <2>5, <4>2 DEF ChargeWindowOrStop
    <3>4. QED
      BY <3>1, <3>2, <3>3 DEF UnderWay
  <2>7. m.Command = "Idle" => m.stopChargeFlag
    BY <1>12, <2>1 DEF RInv, WindowFollows
  <2>8. QED
    BY <1>1, <1>2, <1>4, <1>8, <1>9, <1>12, <2>1, <2>3, <2>4, <2>5, <2>6, <2>7, TickRecord
<1>13. CASE BlinkCommanded
  <2> DEFINE st == DeduceBeforeChargeSuspendStatus
  <2>1. Follows("NoCharge") /\ EndTick(Followed, st, 0, OpenWindow, FALSE)
    BY <1>13 DEF BlinkCommanded
  <2>2. m.Command = "Charge"
    BY <1>2, <1>6, <1>13 DEF BlinkCommanded
  <2>3. /\ st \in UnderWay /\ st # "Charging"
        /\ st = "SuspendedEV" => board.at.enabled
    BY DEF DeduceBeforeChargeSuspendStatus, UnderWay
  <2> HIDE DEF st
  <2>4. QED
    BY <1>12, <2>1, <2>2, <2>3
<1>14. CASE BlinkCharging
  <2>1. Follows("Charging") /\ board.at.phase = "Charging" /\ Followed = Refreshed
    BY <1>6, <1>14 DEF BlinkCharging
  <2>2. CASE /\ IsChargingOrSuspended(Followed) \/ Followed.Command = "Charge"
             /\ EndTick(Followed, DeduceChargeSuspendStatus, 0, OpenWindow, FALSE)
    <3> DEFINE st == DeduceChargeSuspendStatus
    <3>1. st \in UnderWay /\ EndTick(Followed, st, 0, OpenWindow, FALSE)
      BY <2>2 DEF DeduceChargeSuspendStatus, UnderWay
    <3>2. board.at.enabled
      BY <2>1 DEF RInv, BoardFollows
    <3>3. m.Status \notin UnderWay => m.Command = "Charge"
      BY <1>1, <1>2, <2>1, <2>2 DEF IsChargingOrSuspended, UnderWay
    <3> HIDE DEF st
    <3>4. QED
      BY <1>12, <2>1, <3>1, <3>2, <3>3
  <2>3. CASE /\ ~IsChargingOrSuspended(Followed)
             /\ EndTick(ChargerIdle(Followed), Followed.Status, 0, OpenWindow, FALSE)
    <3> DEFINE c == ChargerIdle(Followed)
    <3>1. m.Status \notin UnderWay /\ m.Status # "Charging"
      BY <1>1, <2>3 DEF IsChargingOrSuspended, UnderWay
    <3>2. c \in Charger /\ c.State = board.at /\ c.Command = "Idle"
      BY <1>1, <1>2 DEF ChargerIdle, Charger, Command
    <3>3. EndTick(c, m.Status, 0, OpenWindow, unfinished)
      BY <1>1, <2>3
    <3> HIDE DEF c, unfinished
    <3>4. QED
      BY <1>1, <1>3, <1>4, <3>1, <3>2, <3>3, TickRecord
  <2>4. QED
    BY <1>14, <2>2, <2>3 DEF BlinkCharging
<1>15. ASSUME Follows("NoCharge"), m.Status = "Charging", m.Command # "Charge"
       PROVE FALSE
  <2>1. board.at.phase = "NoCharge" /\ ~StopsNow /\ (m.stopChargeFlag \/ isSuspended = 0)
    BY <1>6, <1>15
  <2>2. m.State.phase = "Charging" /\ m.State.enabled /\ ~board.at.enabled
    BY <1>15, <2>1 DEF RInv, ChargeFollows, BoardFollows
  <2>3. m.Command \in {"Stop", "Idle"}
    BY <1>3, <1>15, <2>2 DEF RInv, CommandFollows
  <2>4. m.stopChargeFlag
    BY <1>9, <1>15, <2>1, <2>3 DEF RInv, WindowFollows, UnderWay
  <2>5. QED
    BY <1>2, <2>1, <2>2, <2>4
<1>16. CASE BlinkCanceling
  <2> DEFINE c == IF IsIdleState(board.at) THEN [Followed EXCEPT !.Command = "None"]
                  ELSE Followed
  <2>1. Follows("NoCharge") /\ Followed.Command = "Idle"
    BY <1>16 DEF BlinkCanceling
  <2>2. /\ Followed = Refreshed /\ m.Command = "Idle" /\ (m.stopChargeFlag \/ isSuspended = 0)
        /\ m.Status # "Charging"
    BY <1>2, <1>6, <1>15, <2>1
  <2>3. EndTick(c, m.Status, 0, OpenWindow, unfinished)
    BY <1>1, <1>16 DEF BlinkCanceling
  <2>4. /\ c \in Charger /\ c.State = board.at /\ c.Command \in {"None", "Idle"}
        /\ c.stopChargeFlag = m.stopChargeFlag
        /\ c.Command = "None" => ~board.at.enabled
    BY <1>1, <1>2, <2>1, <2>2 DEF Charger, Command, IsIdleState
  <2>5. ~(unfinished \/ (m.Status = "Available" /\ m.Status = "Finishing"))
    OBVIOUS
  <2> HIDE DEF c, unfinished
  <2>6. OpenWindow \in {"Charging", "Suspend"} => pCurWin' \in {"Charging", "Suspend"}
    BY <1>1, <1>3, <1>4, <2>3, <2>4, TickEffect
  <2>7. m.Status \in UnderWay => pCurWin' \in {"Charging", "Suspend"} \/ m.stopChargeFlag
    BY <1>7, <2>2, <2>6
  <2>8. m.Status \in UnderWay => m.stopChargeFlag
    BY <2>2 DEF RInv, WindowFollows
  <2>9. QED
    BY <1>1, <1>3, <1>4, <2>2, <2>3, <2>4, <2>7, <2>8, TickRecord
<1>17. CASE BlinkUncommanded
  <2> DEFINE unplugged == board.at.plug = "none"
             win == IF unplugged /\ OpenWindow \in {"Charging", "Finish"} THEN "None"
                    ELSE OpenWindow
             st == CASE EVConnected(board.at) /\ Followed.Status # "Finishing" ->
                          IF Followed.connAvailable THEN "Preparing" ELSE "Unavailable"
                     [] unplugged -> IF Followed.connAvailable THEN "Available"
                                     ELSE "Unavailable"
                     [] board.at.plug = "cable" /\ IsIdleState(Prev) /\ IsIdleState(board.at) ->
                          "Available"
                     [] OTHER -> Followed.Status
  <2>1. EndTick(Followed, st, 0, win, unfinished)
    BY <1>17 DEF BlinkUncommanded
  <2>2. /\ Follows("NoCharge") /\ Followed = Refreshed /\ m.Command \in {"None", "Stop"}
        /\ m.stopChargeFlag \/ isSuspended = 0
        /\ m.Status # "Charging"
    BY <1>2, <1>6, <1>15, <1>17 DEF BlinkUncommanded
  <2>3. win \in Window
    BY <1>1 DEF Window
  <2>4. \/ st \in {"Preparing", "Unavailable", "Available"}
        \/ st = m.Status /\ win = OpenWindow
    <3>1. CASE EVConnected(board.at) /\ Followed.Status # "Finishing"
      BY <3>1
    <3>2. CASE ~(EVConnected(board.at) /\ Followed.Status # "Finishing") /\ unplugged
      BY <3>2 DEF EVConnected
    <3>3. CASE ~(EVConnected(board.at) /\ Followed.Status # "Finishing") /\ ~unplugged
      BY <1>1, <3>3
    <3>4. QED
      BY <3>1, <3>2, <3>3
  <2>5. /\ st \in Status /\ st # "Charging"
        /\ st \in UnderWay => m.Status \in UnderWay /\ win = OpenWindow
    BY <1>3, <2>2, <2>4 DEF Status, UnderWay
  <2> HIDE DEF win, st, unfinished
  <2>6. win \in {"Charging", "Suspend"} => pCurWin' \in {"Charging", "Suspend"}
    BY <1>1, <1>4, <2>1, <2>3, <2>5, TickEffect
  <2>7. st \in UnderWay => pCurWin' \in {"Charging", "Suspend"} \/ m.stopChargeFlag
    BY <1>7, <2>2, <2>5, <2>6
  <2>8. QED
    BY <1>1, <1>2, <1>4, <1>8, <1>9, <2>1, <2>2, <2>3, <2>5, <2>7, TickRecord
<1>18. CASE BlinkFinish
  <2> DEFINE clears == /\ Followed.Status = "Finishing"
                       /\ OpenWindow \notin {"Charging", "Finish"}
                       /\ ~HasActive
             c == IF clears THEN ChargerIdle(Followed) ELSE Followed
             finishing == Prev.phase = "Charging"
             st == "Finishing"
  <2>1. EndTick(c, st, 0, OpenWindow, finishing) /\ FollowedPhase = "Finish"
    BY <1>18 DEF BlinkFinish, Follows
  <2>2. /\ c \in Charger /\ c.State = board.at
        /\ c.Command = "Idle" \/ (c = Refreshed /\ ~StopsNow)
    BY <1>1, <1>2 DEF ChargerIdle, Charger, Command
  <2>3. finishing \in BOOLEAN /\ st \in Status /\ st \notin UnderWay /\ st # "Charging"
    BY <1>4
  <2> HIDE DEF c, finishing, st
  <2>4. OpenWindow \in {"Charging", "Suspend"} => pCurWin' \in {"Charging", "Suspend"}
    BY <1>1, <1>4, <2>1, <2>2, <2>3, TickEffect
  <2>5. ASSUME c.Command = "Charge", board.at.phase # "Finish"
        PROVE ~board.at.enabled /\ (pCurWin' \in {"Charging", "Suspend"} \/ c.stopChargeFlag)
    <3>1. /\ ~StopsNow /\ m.Command = "Charge" /\ c.stopChargeFlag = m.stopChargeFlag
      BY <1>2, <2>2, <2>5
    <3>2. m.State.phase = "Charging" /\ board.at.phase = "NoCharge"
      BY <2>1, <2>5, <3>1 DEF FollowedPhase, Prev
    <3>3. sent.command = "Idle" /\ ~board.at.enabled /\ m.State.enabled
      BY <3>2 DEF RInv, BoardFollows
    <3>4. ChargeWindowOrStop
      BY <3>1, <3>3 DEF RInv, WindowFollows
    <3>5. QED
      BY <1>5, <2>4, <3>1, <3>3, <3>4 DEF ChargeWindowOrStop
  <2>6. /\ c.Command = "None" => ~board.at.enabled
        /\ c.Command = "Stop" => c.stopChargeFlag
    BY <1>2, <1>8, <1>9, <2>2
  <2>7. QED
    BY <1>1, <1>4, <2>1, <2>2, <2>3, <2>5, <2>6, TickRecord
<1>19. QED
  BY <1>10, <1>11, <1>13, <1>14, <1>16, <1>17, <1>18 DEF Blink

-----------------------------------------------------------------------------
(* The windows and the calls of the CS: a command to charge is given to an *)
(* idle board, or resumes a charge in its window, or was there before.     *)
LEMMA HandlerRecord ==
    ASSUME RInv,
           UNCHANGED <<board, sent>>,
           m_ChargerA'.State = m_ChargerA.State, m_ChargerA'.Status = m_ChargerA.Status,
           ChargeWindowOrStop => ChargeWindowOrStop',
           m_ChargerA'.Command = "None" => m_ChargerA.Command = "None",
           m_ChargerA'.Command = "Stop" => m_ChargerA'.stopChargeFlag,
           isSuspended = 2 => ChargeWindowOrStop' \/ isSuspended' = 2,
           m_ChargerA.Status \in UnderWay /\ m_ChargerA'.Command = "Idle" /\ isSuspended' = 0 =>
                m_ChargerA'.stopChargeFlag,
           m_ChargerA'.Command = "Charge" =>
                \/ ~m_ChargerA.State.enabled
                \/ m_ChargerA'.isResumedCharging /\ isSuspended' = 0 /\ ChargeWindowOrStop'
                \/ /\ m_ChargerA.Command = "Charge"
                   /\ m_ChargerA'.isResumedCharging = m_ChargerA.isResumedCharging
                   /\ m_ChargerA'.stopChargeFlag = m_ChargerA.stopChargeFlag
                   /\ UNCHANGED isSuspended
                   /\ HasActive => HasActive'
    PROVE BoardFollows' /\ CommandFollows' /\ WindowFollows' /\ ChargeFollows'
<1>1. BoardFollows'
  BY DEF RInv, BoardFollows
<1>2. CommandFollows'
  BY DEF RInv, CommandFollows
<1>3. WindowFollows'
  BY DEF RInv, WindowFollows
<1>4. ChargeFollows'
  BY DEF RInv, ChargeFollows, BoardFollows
<1>5. QED
  BY <1>1, <1>2, <1>3, <1>4

(* The object after each command of CCharger.                              *)
LEMMA CommandsEffect ==
    ASSUME NEW c \in Charger
    PROVE /\ \A d \in {StartCharge(c), ResumeCharge(c), StopCharge(c), ChargerIdle(c),
                       StopCharge(ChargerIdle(c))} :
                d.State = c.State /\ d.Status = c.Status
          /\ StartCharge(c).Command = "Charge" /\ ResumeCharge(c).Command = "Charge"
          /\ StopCharge(c).Command = "Stop" /\ StopCharge(ChargerIdle(c)).Command = "Stop"
          /\ ChargerIdle(c).Command = "Idle"
          /\ StopCharge(c).stopChargeFlag /\ StopCharge(ChargerIdle(c)).stopChargeFlag
          /\ StartCharge(c).stopChargeFlag = c.stopChargeFlag
          /\ ResumeCharge(c).stopChargeFlag = c.stopChargeFlag
          /\ ChargerIdle(c).stopChargeFlag = c.stopChargeFlag
          /\ ResumeCharge(c).isResumedCharging
BY DEF Charger, StartCharge, ResumeCharge, StopCharge, ChargerIdle

LEMMA HandlersRecord ==
    ASSUME RInv,
           \/ CableWinTimer \/ PaymentHome \/ WaittingExit \/ WaittingTimer
           \/ ChargingQuit \/ ChargingMonitor \/ Pause \/ Resume \/ ExitSuspension
           \/ FinishTimer \/ FinishHome
           \/ RemoteStart \/ RemoteStartGo \/ RemoteStop
           \/ MakeOperative \/ MakeInoperative \/ StartTransactionConf
    PROVE BoardFollows' /\ CommandFollows' /\ WindowFollows' /\ ChargeFollows'
<1> DEFINE m == m_ChargerA
           Follow == BoardFollows' /\ CommandFollows' /\ WindowFollows' /\ ChargeFollows'
<1>1. m \in Charger
  BY DEF RInv, IInv, TypeOK, Charger
<1>2. /\ \A d \in {StartCharge(m), ResumeCharge(m), StopCharge(m), ChargerIdle(m),
                   StopCharge(ChargerIdle(m))} :
            d.State = m.State /\ d.Status = m.Status
      /\ StartCharge(m).Command = "Charge" /\ ResumeCharge(m).Command = "Charge"
      /\ StopCharge(m).Command = "Stop" /\ StopCharge(ChargerIdle(m)).Command = "Stop"
      /\ ChargerIdle(m).Command = "Idle"
      /\ StopCharge(m).stopChargeFlag /\ StopCharge(ChargerIdle(m)).stopChargeFlag
      /\ StartCharge(m).stopChargeFlag = m.stopChargeFlag
      /\ ResumeCharge(m).stopChargeFlag = m.stopChargeFlag
      /\ ChargerIdle(m).stopChargeFlag = m.stopChargeFlag
      /\ ResumeCharge(m).isResumedCharging
  BY <1>1, CommandsEffect
<1>3. m.Command = "Stop" => m.stopChargeFlag
  BY DEF RInv, CommandFollows
<1>4. m.Status \in UnderWay /\ m.Command = "Idle" /\ isSuspended = 0 => m.stopChargeFlag
  BY DEF RInv, WindowFollows
\* The command stays.
<1>5. ASSUME UNCHANGED <<board, sent, isSuspended>>,
             m'.State = m.State, m'.Status = m.Status, m'.Command = m.Command,
             m'.stopChargeFlag = m.stopChargeFlag,
             m'.isResumedCharging = m.isResumedCharging,
             pCurWin \in {"Charging", "Suspend"} => pCurWin' = pCurWin,
             HasActive => HasActive'
      PROVE Follow
  <2>1. ChargeWindowOrStop => ChargeWindowOrStop'
    BY <1>5 DEF ChargeWindowOrStop
  <2>2. QED
    BY <1>3, <1>4, <1>5, <2>1, HandlerRecord
\* A stop.
<1>6. ASSUME UNCHANGED <<board, sent>>,
             m' \in {StopCharge(m), StopCharge(ChargerIdle(m))}
      PROVE Follow
  <2>1. /\ m'.State = m.State /\ m'.Status = m.Status /\ m'.Command = "Stop"
        /\ m'.stopChargeFlag
    BY <1>2, <1>6
  <2>2. ChargeWindowOrStop'
    BY <2>1 DEF ChargeWindowOrStop
  <2>3. QED
    BY <1>6, <2>1, <2>2, HandlerRecord
\* Idle, from a window before or after the charge, or for a pause.
<1>7. ASSUME UNCHANGED <<board, sent>>, m' = ChargerIdle(m),
             \/ /\ UNCHANGED isSuspended /\ pCurWin \notin {"Charging", "Suspend"}
                /\ pCurWin \notin {"Charging", "Suspend", "Finish"} \/ m.Status \notin UnderWay
             \/ isSuspended' = 1 /\ pCurWin' = "Suspend"
      PROVE Follow
  <2>1. /\ m'.State = m.State /\ m'.Status = m.Status /\ m'.Command = "Idle"
        /\ m'.stopChargeFlag = m.stopChargeFlag
    BY <1>2, <1>7
  <2>2. ChargeWindowOrStop => ChargeWindowOrStop'
    BY <1>7, <2>1 DEF ChargeWindowOrStop
  <2>3. isSuspended = 2 => ChargeWindowOrStop' \/ isSuspended' = 2
    BY <1>7 DEF ChargeWindowOrStop
  <2>4. m.Status \in UnderWay /\ isSuspended' = 0 => m'.stopChargeFlag
    BY <1>7, <2>1 DEF RInv, WindowFollows, ChargeWindowOrStop
  <2>5. QED
    BY <1>7, <2>1, <2>2, <2>3, <2>4, HandlerRecord
\* A start, of an idle board.
<1>8. ASSUME UNCHANGED <<board, sent, isSuspended, pCurWin>>, m' = StartCharge(m),
             ~m.State.enabled
      PROVE Follow
  <2>1. /\ m'.State = m.State /\ m'.Status = m.Status /\ m'.Command = "Charge"
        /\ m'.stopChargeFlag = m.stopChargeFlag
    BY <1>2, <1>8
  <2>2. ChargeWindowOrStop => ChargeWindowOrStop'
    BY <1>8, <2>1 DEF ChargeWindowOrStop
  <2>3. QED
    BY <1>8, <2>1, <2>2, HandlerRecord
<1>9. CASE CableWinTimer \/ WaittingTimer \/ FinishHome
  <2>1. /\ UNCHANGED <<board, sent, isSuspended, newest, older>> /\ m' = m
        /\ pCurWin \notin {"Charging", "Suspend"}
    BY <1>9 DEF CableWinTimer, WaittingTimer, FinishHome, Windows, registryVars
  <2>2. HasActive => HasActive'
    BY <2>1 DEF HasActive
  <2>3. QED
    BY <1>5, <2>1, <2>2
<1>10. CASE PaymentHome \/ WaittingExit
  <2>1. /\ UNCHANGED <<board, sent, isSuspended>> /\ m' = ChargerIdle(m)
        /\ pCurWin \notin {"Charging", "Suspend", "Finish"}
    BY <1>10 DEF PaymentHome, WaittingExit, Windows
  <2>2. QED
    BY <1>7, <2>1
<1>11. CASE ChargingQuit \/ ChargingMonitor \/ ExitSuspension
  BY <1>6, <1>11 DEF ChargingQuit, ChargingMonitor, ExitSuspension, Windows
<1>12. CASE Pause
  BY <1>7, <1>12 DEF Pause, Windows
<1>13. CASE Resume
  <2>1. /\ UNCHANGED <<board, sent>> /\ m' = ResumeCharge(m)
        /\ isSuspended' = 0 /\ pCurWin' = "Charging"
    BY <1>13 DEF Resume, Windows
  <2>2. /\ m'.State = m.State /\ m'.Status = m.Status /\ m'.Command = "Charge"
        /\ m'.stopChargeFlag = m.stopChargeFlag
        /\ m'.isResumedCharging
    BY <1>2, <2>1
  <2>3. ChargeWindowOrStop'
    BY <2>1 DEF ChargeWindowOrStop
  <2>4. QED
    BY <2>1, <2>2, <2>3, HandlerRecord
<1>14. CASE FinishTimer
  <2>1. /\ UNCHANGED <<board, sent, isSuspended, newest, older>> /\ pCurWin = "Finish"
        /\ \/ m' = ChargerIdle(m) /\ m.Status = "Finishing"
           \/ m' = m
    BY <1>14 DEF FinishTimer, Windows, registryVars
  <2>2. CASE m' = ChargerIdle(m) /\ m.Status = "Finishing"
    <3>1. m.Status \notin UnderWay
      BY <2>2 DEF UnderWay
    <3>2. QED
      BY <1>7, <2>1, <2>2, <3>1
  <2>3. CASE m' = m
    <3>1. HasActive => HasActive'
      BY <2>1 DEF HasActive
    <3>2. QED
      BY <1>5, <2>1, <2>3, <3>1
  <2>4. QED
    BY <2>1, <2>2, <2>3
<1>15. CASE RemoteStart
  <2>1. /\ UNCHANGED <<board, sent, pCurWin, isSuspended, newest, older>>
        /\ \/ m' = StartCharge(m) /\ ~m.State.enabled
           \/ m' = m
    BY <1>15 DEF RemoteStart, CommandCalled, Called, registryVars, IsIdleState
  <2>2. HasActive => HasActive'
    BY <2>1 DEF HasActive
  <2>3. QED
    BY <1>5, <1>8, <2>1, <2>2
<1>16. CASE RemoteStartGo
  BY <1>8, <1>16 DEF RemoteStartGo, CommandCalled, Called, IsIdleState
<1>17. CASE RemoteStop
  BY <1>6, <1>17 DEF RemoteStop, CommandCalled, Called
<1>18. CASE MakeOperative \/ MakeInoperative
  <2>1. UNCHANGED <<board, sent, pCurWin, isSuspended, newest, older>>
    BY <1>18 DEF MakeOperative, MakeInoperative, Called, registryVars
  <2>2. /\ m'.State = m.State /\ m'.Status = m.Status /\ m'.Command = m.Command
        /\ m'.stopChargeFlag = m.stopChargeFlag
        /\ m'.isResumedCharging = m.isResumedCharging
    BY <1>1, <1>18 DEF MakeOperative, MakeInoperative, Charger
  <2>3. HasActive => HasActive'
    BY <2>1 DEF HasActive
  <2>4. QED
    BY <1>5, <2>1, <2>2, <2>3
<1>19. CASE StartTransactionConf
  <2>1. /\ UNCHANGED <<board, sent, pCurWin>>
        /\ \/ UNCHANGED <<m_ChargerA, isSuspended>>
           \/ m' = StopCharge(m)
    BY <1>19 DEF StartTransactionConf, CommandCalled, Called
  <2>2. HasActive => HasActive'
    <3>1. newest \in [st : {"None", "Active", "Ended"}, hasId : BOOLEAN]
      BY DEF RInv, IInv, TypeOK
    <3>2. /\ newest'.st = newest.st
          /\ older # "None" => older' # "None"
      BY <1>19, <3>1 DEF StartTransactionConf
    <3>3. QED
      BY <3>2 DEF HasActive
  <2>3. QED
    BY <1>5, <1>6, <2>1, <2>2
<1>20. QED
  BY <1>9, <1>10, <1>11, <1>12, <1>13, <1>14, <1>15, <1>16, <1>17, <1>18, <1>19

-----------------------------------------------------------------------------
(* The board and the EV.                                                   *)
LEMMA BoardRecord ==
    ASSUME RInv, BoardObeys \/ EVMoves \/ ChargeEnds
    PROVE BoardFollows' /\ CommandFollows' /\ WindowFollows' /\ ChargeFollows'
<1> DEFINE b == board.at
           S == m_ChargerA.State
<1>1. /\ b \in Snapshot /\ b.enabled \in BOOLEAN
      /\ b.phase \in {"NoCharge", "Charging", "Finish"}
  BY DEF RInv, IInv, TypeOK, Snapshot, Phase
<1>2. ASSUME NEW at, NEW applied, BoardStep(at, applied),
             at.phase = "Charging" => at.enabled,
             ~S.enabled /\ sent.command # "Charge" /\ at.enabled => at.phase = "Finish",
             S.phase # "NoCharge" /\ at.phase = "NoCharge" => sent.command = "Idle" /\ ~at.enabled,
             S.phase = "Finish" => at.phase # "Charging",
             sent.command = "None" /\ ~b.enabled => ~at.enabled,
             sent.command = "Charge" /\ b.phase = "Finish" => at.phase = "Finish"
      PROVE BoardFollows' /\ CommandFollows' /\ WindowFollows' /\ ChargeFollows'
  <2>1. /\ board'.at = at
        /\ UNCHANGED <<sent, m_ChargerA, isSuspended, pCurWin, newest, older>>
    BY <1>2 DEF BoardStep, registryVars
  <2>2. BoardFollows'
    BY <1>2, <2>1 DEF RInv, BoardFollows
  <2>3. CommandFollows'
    BY <1>2, <2>1 DEF RInv, CommandFollows
  <2>4. WindowFollows'
    BY <1>2, <2>1 DEF RInv, WindowFollows, ChargeWindowOrStop
  <2>5. ChargeFollows'
    BY <2>1 DEF RInv, ChargeFollows, HasActive
  <2>6. QED
    BY <2>2, <2>3, <2>4, <2>5
<1>3. /\ b.phase = "Charging" => b.enabled
      /\ ~S.enabled /\ sent.command # "Charge" /\ b.enabled => b.phase = "Finish"
      /\ S.phase # "NoCharge" /\ b.phase = "NoCharge" => sent.command = "Idle" /\ ~b.enabled
      /\ S.phase = "Finish" => b.phase # "Charging"
  BY DEF RInv, BoardFollows
<1>4. CASE BoardObeys
  <2>1. CASE sent.command = "Charge" /\ b.phase = "NoCharge"
    <3> DEFINE at == [b EXCEPT !.enabled = EVConnected(b),
                               !.phase = IF b.plug = "C" /\ sent.current THEN "Charging" ELSE @]
    <3>1. BoardStep(at, sent.current)
      BY <1>4, <2>1 DEF BoardObeys
    <3>2. at.enabled = EVConnected(b)
      BY <1>1 DEF Snapshot
    <3>3. at.phase = "Charging" => at.enabled
      <4>1. at.phase = "Charging" => b.plug = "C"
        BY <1>1, <2>1 DEF Snapshot
      <4>2. QED
        BY <3>2, <4>1 DEF EVConnected
    <3> HIDE DEF at
    <3>4. S.phase = "NoCharge"
      BY <1>3, <2>1
    <3>5. QED
      BY <1>2, <2>1, <3>1, <3>3, <3>4
  <2>2. CASE sent.command = "Stop" /\ b.phase = "Charging"
    <3> DEFINE at == [b EXCEPT !.phase = "Finish"]
    <3>1. BoardStep(at, sent.current) /\ at.phase = "Finish"
      BY <1>1, <1>4, <2>2 DEF BoardObeys, Snapshot
    <3> HIDE DEF at
    <3>2. QED
      BY <1>2, <2>2, <3>1
  <2>3. CASE sent.command = "Stop" /\ b.phase # "Charging"
    <3> DEFINE at == [b EXCEPT !.enabled = b.phase = "Finish"]
    <3>1. /\ BoardStep(at, sent.current)
          /\ at.phase = b.phase /\ (at.enabled <=> b.phase = "Finish")
      BY <1>1, <1>4, <2>3 DEF BoardObeys, Snapshot
    <3> HIDE DEF at
    <3>2. QED
      BY <1>2, <1>3, <2>3, <3>1
  <2>4. CASE sent.command = "Idle"
    <3> DEFINE at == [b EXCEPT !.enabled = FALSE, !.phase = "NoCharge"]
    <3>1. BoardStep(at, sent.current) /\ at.phase = "NoCharge" /\ ~at.enabled
      BY <1>1, <1>4, <2>4 DEF BoardObeys, Snapshot
    <3> HIDE DEF at
    <3>2. QED
      BY <1>2, <2>4, <3>1
  <2>5. CASE /\ ~(sent.command = "Charge" /\ b.phase = "NoCharge")
             /\ sent.command # "Stop" /\ sent.command # "Idle"
    <3>1. BoardStep(b, sent.current)
      BY <1>4, <2>5 DEF BoardObeys
    <3>2. QED
      BY <1>2, <1>3, <3>1
  <2>6. QED
    BY <2>1, <2>2, <2>3, <2>4, <2>5
<1>5. CASE EVMoves
  <2>1. PICK p \in Plug :
          BoardStep([b EXCEPT !.plug = p,
                              !.phase = IF @ = "Charging" /\ p \notin {"B", "C"}
                                        THEN "Finish" ELSE @],
                    board.applied)
    BY <1>5 DEF EVMoves
  <2> DEFINE at == [b EXCEPT !.plug = p,
                             !.phase = IF @ = "Charging" /\ p \notin {"B", "C"}
                                       THEN "Finish" ELSE @]
  <2>2. /\ at.enabled = b.enabled
        /\ at.phase = b.phase \/ (at.phase = "Finish" /\ b.phase = "Charging")
    BY <1>1 DEF Snapshot
  <2>3. BoardStep(at, board.applied)
    BY <2>1
  <2> HIDE DEF at
  <2>4. QED
    BY <1>2, <1>3, <2>2, <2>3
<1>6. CASE ChargeEnds
  <2> DEFINE at == [b EXCEPT !.phase = "Finish"]
  <2>1. /\ BoardStep(at, board.applied) /\ b.phase = "Charging"
        /\ at.phase = "Finish" /\ at.enabled = b.enabled
    BY <1>1, <1>6 DEF ChargeEnds, Snapshot
  <2> HIDE DEF at
  <2>2. QED
    BY <1>2, <1>3, <2>1
<1>7. QED
  BY <1>4, <1>5, <1>6

-----------------------------------------------------------------------------
(* A charge that goes on, and is not the resumption of one that was        *)
(* paused, has a transaction, whatever the settings, the order of the      *)
(* windows, of the calls of the CS and of what the board and the EV do     *)
(* between two ticks.                                                      *)
THEOREM ChargerChargeIsRecorded == Spec => []ChargeIsRecorded
<1>1. Init => RInv
  BY InitInv, RecordInit DEF RInv
<1>2. RInv /\ [Next]_vars => RInv'
  <2> SUFFICES ASSUME RInv, [Next]_vars PROVE RInv'
    OBVIOUS
  <2>1. CASE Next
    <3>1. IInv'
      BY <2>1, NextKeepsInv DEF RInv
    <3>2. BoardFollows' /\ CommandFollows' /\ WindowFollows' /\ ChargeFollows'
      BY <2>1, BlinkRecord, HandlersRecord, BoardRecord DEF Next
    <3>3. QED
      BY <3>1, <3>2 DEF RInv
  <2>2. CASE UNCHANGED vars
    <3>1. IInv'
      BY <2>2, NextKeepsInv DEF RInv
    <3>2. UNCHANGED <<board, sent, m_ChargerA, isSuspended, pCurWin, newest, older>>
      BY <2>2 DEF vars, registryVars
    <3>3. BoardFollows' /\ CommandFollows'
      BY <3>2 DEF RInv, BoardFollows, CommandFollows
    <3>4. WindowFollows'
      BY <3>2 DEF RInv, WindowFollows, ChargeWindowOrStop
    <3>5. ChargeFollows'
      BY <3>2 DEF RInv, ChargeFollows, HasActive
    <3>6. QED
      BY <3>1, <3>3, <3>4, <3>5 DEF RInv
  <2>3. QED
    BY <2>1, <2>2
<1>3. RInv => ChargeIsRecorded
  <2> SUFFICES ASSUME RInv, m_ChargerA.Status = "Charging",
                      m_ChargerA.Command \in {"Charge", "None"}, ~m_ChargerA.isResumedCharging
               PROVE HasActive
    BY DEF ChargeIsRecorded
  <2>1. m_ChargerA.State.phase = "Charging" /\ m_ChargerA.State.enabled
    BY DEF RInv, ChargeFollows, BoardFollows
  <2>2. m_ChargerA.Command = "Charge"
    BY <2>1 DEF RInv, CommandFollows
  <2>3. QED
    BY <2>1, <2>2 DEF RInv, ChargeFollows
<1>4. QED
  BY <1>1, <1>2, <1>3, PTL DEF Spec
=============================================================================
