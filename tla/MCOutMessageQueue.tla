------------------------- MODULE MCOutMessageQueue -------------------------
(* Small instances of OcppOutMessageQueue for TLC. *)
EXTENDS OcppOutMessageQueue

CONSTANTS start, meter1, meter2, auth1, result

MCAction ==
    [m \in Call |->
        CASE m = start -> "StartTransaction"
          [] m \in {meter1, meter2} -> "MeterValues"
          [] m = auth1 -> "Authorize"]
=============================================================================
