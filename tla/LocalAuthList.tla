---------------------------- MODULE LocalAuthList ----------------------------
(***************************************************************************)
(* The local authorization list: tags and version in a database, replaced  *)
(* or updated by SendLocalList.req of the CS (localauthlist.cpp,           *)
(* localauthlistdb.cpp, ocppclient.cpp). The items are changed in one      *)
(* database transaction, the version is inserted after it.                 *)
(***************************************************************************)
EXTENDS Naturals

CONSTANTS
    Tag,
    Status,         \* verdicts on a tag
    NotListed,      \* no item for the tag
    MaxVersion,     \* bound: versions of the CS's list
    ListStatus      \* the list the CS holds at each version

ASSUME ListAssumption ==
    /\ NotListed \notin Status
    /\ MaxVersion \in Nat
    /\ ListStatus \in [0..MaxVersion -> [Tag -> Status \cup {NotListed}]]
    /\ \A t \in Tag : ListStatus[0][t] = NotListed

VARIABLES
    list,           \* items in the database
    listVersion,    \* latest version inserted; 0: none
    csVersion,      \* version of the list at the CS
    interrupted     \* history: items were changed and the version was not, since the last
                    \* full update

listVars == <<list, listVersion, csVersion, interrupted>>

ListTypeOK ==
    /\ list \in [Tag -> Status \cup {NotListed}]
    /\ listVersion \in 0..MaxVersion
    /\ csVersion \in 0..MaxVersion
    /\ interrupted \in BOOLEAN

ListInit ==
    /\ list = ListStatus[0]
    /\ listVersion = 0
    /\ csVersion = 0
    /\ interrupted = FALSE

(* The operator of the CS edits its list. *)
CsEditsList ==
    /\ csVersion < MaxVersion
    /\ csVersion' = csVersion + 1
    /\ UNCHANGED <<list, listVersion, interrupted>>

-----------------------------------------------------------------------------
(* The changes the CS sends to a charger that has reported listVersion *)
Changed == {t \in Tag : ListStatus[listVersion][t] # ListStatus[csVersion][t]}

(* jsonArrayToAuthData refuses an item without idTagInfo, which is how a   *)
(* differential update deletes one: such an update fails as a whole.       *)
Accepted(items) == \A t \in items : ListStatus[csVersion][t] # NotListed

(* LocalAuthList::update *)
UpdatedItems ==
    [t \in Tag |-> IF t \in Changed THEN ListStatus[csVersion][t] ELSE list[t]]

CanUpdate == csVersion > listVersion /\ Accepted(Changed)

(* Fault: the version is taken over though an item was refused. *)
SendDifferentialListAnyway ==
    /\ csVersion > listVersion
    /\ list' = IF Accepted(Changed) THEN UpdatedItems ELSE list
    /\ listVersion' = csVersion
    /\ UNCHANGED <<csVersion, interrupted>>

(* SendLocalList.req, Differential; answers VersionMismatch or Failed      *)
(* change nothing.                                                         *)
SendDifferentialList ==
    /\ CanUpdate
    /\ list' = UpdatedItems
    /\ listVersion' = csVersion
    /\ UNCHANGED <<csVersion, interrupted>>

(* LocalAuthList::replaceAll, removeAll. A full update of the version the  *)
(* charger has is not done.                                                *)
SendFullList ==
    /\ csVersion # listVersion
    /\ list' = ListStatus[csVersion]
    /\ listVersion' = csVersion
    /\ interrupted' = FALSE
    /\ UNCHANGED csVersion

(* The program ends between the commit of the items and the insertion of   *)
(* the version, by a power failure or by the exception that setVersion     *)
(* throws and its caller does not catch.                                   *)
ListInterrupted ==
    /\ \/ CanUpdate /\ list' = UpdatedItems
       \/ csVersion # listVersion /\ list' = ListStatus[csVersion]
    /\ interrupted' = TRUE
    /\ UNCHANGED <<listVersion, csVersion>>

-----------------------------------------------------------------------------
(* The items are those of the version the charger reports, whatever full   *)
(* and differential updates it took or refused, unless an update was       *)
(* interrupted and no full one was done since. Authorization off line      *)
(* rests on it (ChargerRequestRfid::checkLocalAuthList).                   *)
ListMatchesVersion == ~interrupted => list = ListStatus[listVersion]
=============================================================================
