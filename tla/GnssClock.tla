------------------------------ MODULE GnssClock ------------------------------
(***************************************************************************)
(* One turn of the callback thread seen from the data: the clock of a      *)
(* GnssData as the parsers of NAV-CLOCK, NAV-STATUS, NAV-TIMEGPS and       *)
(* RXM-MEASX merge themselves into it.  The receiver fixes no order in     *)
(* which a turn meets the four messages, and may repeat any of them        *)
(* before the last kind arrives.  Times are in one unit; the int64 that    *)
(* holds them is never exceeded by 32-bit milliseconds or real weeks.      *)
(***************************************************************************)
EXTENDS Integers

CONSTANTS Times,   \* what NAV-STATUS gives: time since startup, may be 0
          GpsTimes \* what NAV-TIMEGPS gives: week and time of week

ASSUME TimesAssumption == Times \subseteq Nat /\ GpsTimes \subseteq Nat

VARIABLES flagReady,  \* kinds merged, and whether the turn is over
          clock,      \* gnssData.clock: timeNs, fullBiasNs, gnssClockFlags
          reported,   \* the turn has called the client
          status,     \* history: timeNano of the last NAV-STATUS merged
          gps         \* history: the last NAV-TIMEGPS merged

clockVars == <<flagReady, clock, reported, status, gps>>

Done == {"RxmDone", "GPSTimeDone", "ClockDone", "StatusDone"}
BiasFlags == {"HAS_BIAS", "HAS_BIAS_UNCERTAINTY",
              "HAS_DRIFT", "HAS_DRIFT_UNCERTAINTY"}
ClockFlags == BiasFlags \union {"HAS_TIME_UNCERTAINTY", "HAS_FULL_BIAS",
                                "HAS_LEAP_SECOND"}

(* What a NAV-TIMEGPS declares valid.                                      *)
ValidBits == {"tow", "week", "leap"}

ClockInit ==
    /\ flagReady = {}
    /\ clock = [timeNs |-> 0, fullBiasNs |-> 0, gnssClockFlags |-> {}]
    /\ reported = FALSE
    /\ status = 0
    /\ gps = [time |-> 0, valid |-> {}]

(* A parser is mValid when its payload has the one length of its message;  *)
(* one that is not returns NotReady and leaves the turn alone.  The turn   *)
(* calls the client with the message that completes Ready, unless close()  *)
(* has dropped the callback: it then goes on merging.                      *)
Merged(kind) ==
    /\ ~reported
    /\ flagReady' = flagReady \union {kind}
    /\ reported' \in {FALSE, flagReady' = Done}

RetrieveRxm ==
    /\ Merged("RxmDone")
    /\ UNCHANGED <<clock, status, gps>>

(* NAV-CLOCK that sets its flags and drops those it finds.                 *)
RetrieveClockAlone ==
    /\ Merged("ClockDone")
    /\ clock' = [clock EXCEPT !.gnssClockFlags = BiasFlags]
    /\ UNCHANGED <<status, gps>>

RetrieveClock ==
    /\ Merged("ClockDone")
    /\ clock' = [clock EXCEPT !.gnssClockFlags = @ \union BiasFlags]
    /\ UNCHANGED <<status, gps>>

HasFlagFullBias == "HAS_FULL_BIAS" \in clock.gnssClockFlags

(* NAV-STATUS that moves timeNs and leaves the bias behind.                *)
RetrieveStatusOnly(t) ==
    /\ Merged("StatusDone")
    /\ clock' = [clock EXCEPT !.timeNs = t]
    /\ status' = t
    /\ UNCHANGED gps

RetrieveStatus(t) ==
    /\ Merged("StatusDone")
    /\ clock' = [clock EXCEPT
                   !.timeNs = t,
                   !.fullBiasNs = IF HasFlagFullBias
                                  THEN @ - (clock.timeNs - t) ELSE @]
    /\ status' = t
    /\ UNCHANGED gps

DefaultRtcTime == 1
UpdateTime == IF clock.timeNs > DefaultRtcTime THEN clock.timeNs
              ELSE DefaultRtcTime

(* NAV-TIMEGPS that puts its own time in the place of the time of startup. *)
RetrieveTimeGpsReset(t, valid) ==
    /\ {"tow", "week"} \subseteq valid
    /\ Merged("GPSTimeDone")
    /\ clock' = [timeNs |-> DefaultRtcTime,
                 fullBiasNs |-> DefaultRtcTime - t,
                 gnssClockFlags |-> {"HAS_TIME_UNCERTAINTY", "HAS_FULL_BIAS"}
                   \union IF "leap" \in valid THEN {"HAS_LEAP_SECOND"} ELSE {}]
    /\ gps' = [time |-> t, valid |-> valid]
    /\ UNCHANGED status

(* A NAV-TIMEGPS without a valid week and time of week is NotReady.  The   *)
(* flags are assigned, not added.                                          *)
RetrieveTimeGps(t, valid) ==
    /\ {"tow", "week"} \subseteq valid
    /\ Merged("GPSTimeDone")
    /\ clock' = [timeNs |-> UpdateTime,
                 fullBiasNs |-> UpdateTime - t,
                 gnssClockFlags |-> {"HAS_TIME_UNCERTAINTY", "HAS_FULL_BIAS"}
                   \union IF "leap" \in valid THEN {"HAS_LEAP_SECOND"} ELSE {}]
    /\ gps' = [time |-> t, valid |-> valid]
    /\ UNCHANGED status

(* The next turn starts with a zeroed GnssData, whether or not this one    *)
(* found all four kinds.                                                   *)
NextTurn ==
    /\ flagReady # {}
    /\ flagReady' = {}
    /\ clock' = [timeNs |-> 0, fullBiasNs |-> 0, gnssClockFlags |-> {}]
    /\ reported' = FALSE
    /\ status' = 0
    /\ gps' = [time |-> 0, valid |-> {}]

ClockNext ==
    \/ RetrieveRxm \/ RetrieveClock \/ NextTurn
    \/ \E t \in Times : RetrieveStatus(t)
    \/ \E t \in GpsTimes, valid \in SUBSET ValidBits : RetrieveTimeGps(t, valid)

-----------------------------------------------------------------------------
(* The clock of a GnssData holds times the receiver gave, or defaultRtcTime. *)
ClockTypeOK ==
    /\ flagReady \subseteq Done
    /\ clock \in [timeNs : Times \union {0, DefaultRtcTime}, fullBiasNs : Int,
                  gnssClockFlags : SUBSET ClockFlags]
    /\ reported \in BOOLEAN
    /\ status \in Times \union {0}
    /\ gps \in [time : GpsTimes \union {0}, valid : SUBSET ValidBits]

(* In whatever order and however often the messages come, a report carries *)
(* a full bias that leads from its time back to the GPS time of the last   *)
(* NAV-TIMEGPS: timeNs - fullBiasNs is that time.  It has a leap second    *)
(* exactly when that message has a valid one.                              *)
ReportGivesGpsTime ==
    reported =>
        /\ HasFlagFullBias
        /\ clock.timeNs - clock.fullBiasNs = gps.time
        /\ "HAS_LEAP_SECOND" \in clock.gnssClockFlags <=> "leap" \in gps.valid

(* The time of a report is the receiver's time since startup, whichever of *)
(* the two times came last; in the first millisecond, where that time is   *)
(* 0, it may also be defaultRtcTime.                                       *)
ReportGivesStartupTime ==
    reported => \/ clock.timeNs = status
                \/ status = 0 /\ clock.timeNs = DefaultRtcTime

(* "provide data collected from parsed messages" (GnssIParser.h): a report *)
(* has a NAV-CLOCK merged, so it has the flags of its bias and drift.      *)
ReportGivesBias == reported => BiasFlags \subseteq clock.gnssClockFlags
=============================================================================
