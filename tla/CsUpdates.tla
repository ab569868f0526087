----------------------------- MODULE CsUpdates ------------------------------
(***************************************************************************)
(* What the CS changes in the charger from afar, its firmware and its      *)
(* local authorization list: the two have no state in common but the       *)
(* program they run in, which a power failure stops between any two of     *)
(* their steps or while the update's state is saved, and an exception of   *)
(* the list's between the commit of the items and the insertion of the     *)
(* version.                                                                *)
(***************************************************************************)
EXTENDS FirmwareUpdate, LocalAuthList

vars == <<firmwareVars, listVars>>

TypeOK == FirmwareTypeOK /\ ListTypeOK

Init == FirmwareInit /\ ListInit

UpdateFirmware == FirmwareNext /\ UNCHANGED listVars

UpdateList ==
    /\ \/ CsEditsList
       \/ Running /\ (SendDifferentialList \/ SendFullList)
    /\ UNCHANGED firmwareVars

(* The program does not survive, and is started by the next boot. *)
StoppedInListUpdate ==
    /\ Running
    /\ ListInterrupted
    /\ PowerFailure

Next == UpdateFirmware \/ UpdateList \/ StoppedInListUpdate

Spec == Init /\ [][Next]_vars
=============================================================================
