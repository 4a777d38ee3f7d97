------------------------------- MODULE GnssNmea -------------------------------
(***************************************************************************)
(* The handlers behind NMEA_ReaderParse.  Those of the location and those  *)
(* of the satellites read nothing the others write, so a receiver that     *)
(* sends the sentences of one of them stands for one that sends all.       *)
(***************************************************************************)
EXTENDS GnssLocation, GnssSatellites

VARIABLE output  \* what the receiver sends: location, satellites

vars == <<output, locationVars, satelliteVars>>

Init ==
    /\ output \in {"location", "satellites"}
    /\ LocationInit /\ SatellitesInit

Next ==
    \/ output = "location" /\ LocationNext /\ UNCHANGED <<output, satelliteVars>>
    \/ output = "satellites" /\ SatellitesNext /\ UNCHANGED <<output, locationVars>>

Spec == Init /\ [][Next]_vars
=============================================================================
