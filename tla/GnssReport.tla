------------------------------ MODULE GnssReport ------------------------------
(***************************************************************************)
(* What the callback thread reports: the clock and the measurements of a   *)
(* GnssData.  No parser of the clock reads what RXM-MEASX leaves, and the  *)
(* other way round, so the messages of one of them stand for all.          *)
(***************************************************************************)
EXTENDS GnssClock, GnssRxmMeasx

VARIABLE part  \* of the report: clock, measurements

vars == <<part, clockVars, measxVars>>

Init ==
    /\ part \in {"clock", "measurements"}
    /\ ClockInit /\ MeasxInit

Next ==
    \/ part = "clock" /\ ClockNext /\ UNCHANGED <<part, measxVars>>
    \/ part = "measurements" /\ MeasxNext /\ UNCHANGED <<part, clockVars>>

Spec == Init /\ [][Next]_vars
=============================================================================
