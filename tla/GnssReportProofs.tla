--------------------------- MODULE GnssReportProofs ---------------------------
(***************************************************************************)
(* Proofs about what a report carries: the clock, for any times a receiver *)
(* may give and any order and number of its messages, and the measurements *)
(* of RXM-MEASX, for any block sizes, any payload length and any number of *)
(* satellites the message claims to have.                                  *)
(***************************************************************************)
EXTENDS GnssReport, SequenceTheorems, TLAPS

-----------------------------------------------------------------------------
(* The clock.                                                              *)

(* The turn knows a full bias as soon as it has a NAV-TIMEGPS, and reports *)
(* only when it has a message of each kind.                                *)
FlagsAgree ==
    /\ "GPSTimeDone" \in flagReady => HasFlagFullBias
    /\ "HAS_LEAP_SECOND" \in clock.gnssClockFlags <=> "leap" \in gps.valid
    /\ reported => flagReady = Done

(* A full bias leads back to the GPS time from the start, not only when    *)
(* the turn reports: NAV-STATUS moves the bias along with the time.        *)
BiasAgrees ==
    HasFlagFullBias => clock.timeNs - clock.fullBiasNs = gps.time

(* The time is that of the last NAV-STATUS, or stands for its absence.     *)
TimeAgrees ==
    \/ clock.timeNs = status
    \/ status = 0 /\ clock.timeNs = DefaultRtcTime

(* The strengthening that every step keeps.                                *)
ClockIInv == ClockTypeOK /\ FlagsAgree /\ BiasAgrees /\ TimeAgrees
-----------------------------------------------------------------------------
(* UpdateTime keeps a time given by NAV-STATUS and makes 1 of a missing or *)
(* zero one.                                                               *)
LEMMA UpdateTimeKeeps ==
  ASSUME ClockTypeOK, TimeAgrees
  PROVE  /\ UpdateTime \in Times \union {0, DefaultRtcTime}
         /\ UpdateTime = status \/ (status = 0 /\ UpdateTime = DefaultRtcTime)
BY TimesAssumption DEF ClockTypeOK, TimeAgrees, UpdateTime, DefaultRtcTime

(* The times of a clock are integers.                                      *)
LEMMA TimesAreIntegers ==
  ASSUME ClockTypeOK
  PROVE  /\ clock.timeNs \in Int
         /\ clock.fullBiasNs \in Int
<1>1. /\ clock.timeNs \in Times \union {0, DefaultRtcTime}
      /\ clock.fullBiasNs \in Int
  BY DEF ClockTypeOK
<1>2. Times \union {0, DefaultRtcTime} \subseteq Int
  BY TimesAssumption DEF DefaultRtcTime
<1>3. QED
  BY <1>1, <1>2

(* A zeroed GnssData has a clock of the right type.                        *)
LEMMA ZeroedClock ==
  /\ [timeNs |-> 0, fullBiasNs |-> 0, gnssClockFlags |-> {}]
       \in [timeNs : Times \union {0, DefaultRtcTime}, fullBiasNs : Int,
            gnssClockFlags : SUBSET ClockFlags]
  /\ [time |-> 0, valid |-> {}]
       \in [time : GpsTimes \union {0}, valid : SUBSET ValidBits]
<1>1. {} \in SUBSET ClockFlags /\ {} \in SUBSET ValidBits
  OBVIOUS
<1>2. QED
  BY <1>1

(* Every step keeps the types: a bias is an integer, a time is one that    *)
(* NAV-STATUS gave, 0 or defaultRtcTime.                                   *)
LEMMA TypeStep ==
  ASSUME ClockTypeOK, TimeAgrees, [ClockNext]_clockVars
  PROVE  ClockTypeOK'
<1> USE TimesAssumption DEF ClockTypeOK, Merged, Done, ClockFlags, BiasFlags
<1>1. CASE RetrieveRxm
  BY <1>1 DEF RetrieveRxm
<1>2. CASE RetrieveClock
  BY <1>2 DEF RetrieveClock
<1>3. CASE NextTurn
  BY <1>3, ZeroedClock DEF NextTurn
<1>4. ASSUME NEW t \in Times, RetrieveStatus(t)
      PROVE  ClockTypeOK'
  <2>1. /\ t \in Int /\ clock.timeNs \in Int /\ clock.fullBiasNs \in Int
    BY TimesAreIntegers
  <2>2. /\ clock.fullBiasNs - (clock.timeNs - t) \in Int
    BY <2>1
  <2>3. QED
    BY <1>4, <2>1, <2>2 DEF RetrieveStatus
<1>5. ASSUME NEW t \in GpsTimes, NEW valid \in SUBSET ValidBits,
             RetrieveTimeGps(t, valid)
      PROVE  ClockTypeOK'
  <2>1. /\ UpdateTime \in Times \union {0, DefaultRtcTime}
        /\ UpdateTime \in Int /\ t \in Int
    BY UpdateTimeKeeps DEF DefaultRtcTime
  <2>2. UpdateTime - t \in Int
    BY <2>1
  <2>3. QED
    BY <1>5, <2>1, <2>2 DEF RetrieveTimeGps
<1>6. CASE UNCHANGED clockVars
  BY <1>6 DEF clockVars
<1>7. QED
  BY <1>1, <1>2, <1>3, <1>4, <1>5, <1>6 DEF ClockNext

(* Every step keeps the flags in agreement with the messages merged: only  *)
(* NAV-TIMEGPS assigns them, and it sets the one for its bias.             *)
LEMMA FlagsStep ==
  ASSUME ClockTypeOK, FlagsAgree, [ClockNext]_clockVars
  PROVE  FlagsAgree'
<1> USE DEF ClockTypeOK, FlagsAgree, Merged, HasFlagFullBias, Done, BiasFlags
<1>1. CASE RetrieveRxm
  BY <1>1 DEF RetrieveRxm
<1>2. CASE RetrieveClock
  BY <1>2 DEF RetrieveClock
<1>3. CASE NextTurn
  BY <1>3 DEF NextTurn
<1>4. ASSUME NEW t \in Times, RetrieveStatus(t)
      PROVE  FlagsAgree'
  BY <1>4 DEF RetrieveStatus
<1>5. ASSUME NEW t \in GpsTimes, NEW valid \in SUBSET ValidBits,
             RetrieveTimeGps(t, valid)
      PROVE  FlagsAgree'
  BY <1>5 DEF RetrieveTimeGps
<1>6. CASE UNCHANGED clockVars
  BY <1>6 DEF clockVars
<1>7. QED
  BY <1>1, <1>2, <1>3, <1>4, <1>5, <1>6 DEF ClockNext

(* Every step keeps the time that of the last NAV-STATUS.                  *)
LEMMA TimeStep ==
  ASSUME ClockTypeOK, TimeAgrees, [ClockNext]_clockVars
  PROVE  TimeAgrees'
<1> USE DEF ClockTypeOK, TimeAgrees
<1>1. CASE RetrieveRxm \/ RetrieveClock \/ NextTurn \/ UNCHANGED clockVars
  BY <1>1 DEF RetrieveRxm, RetrieveClock, NextTurn, clockVars
<1>2. ASSUME NEW t \in Times, RetrieveStatus(t)
      PROVE  TimeAgrees'
  BY <1>2 DEF RetrieveStatus
<1>3. ASSUME NEW t \in GpsTimes, NEW valid \in SUBSET ValidBits,
             RetrieveTimeGps(t, valid)
      PROVE  TimeAgrees'
  BY <1>3, UpdateTimeKeeps DEF RetrieveTimeGps
<1>4. QED
  BY <1>1, <1>2, <1>3 DEF ClockNext

(* Every step keeps the bias: NAV-STATUS moves it by what it moves the     *)
(* time, NAV-TIMEGPS counts it from the time it leaves.                    *)
LEMMA BiasStep ==
  ASSUME ClockTypeOK, TimeAgrees, BiasAgrees, [ClockNext]_clockVars
  PROVE  BiasAgrees'
<1> USE TimesAssumption DEF ClockTypeOK, BiasAgrees, HasFlagFullBias, BiasFlags
<1>1. CASE RetrieveRxm \/ RetrieveClock \/ NextTurn \/ UNCHANGED clockVars
  BY <1>1 DEF RetrieveRxm, RetrieveClock, NextTurn, clockVars
<1>2. ASSUME NEW t \in Times, RetrieveStatus(t)
      PROVE  BiasAgrees'
  <2>1. t \in Int /\ clock.timeNs \in Int /\ clock.fullBiasNs \in Int
    BY TimesAreIntegers
  <2>2. CASE HasFlagFullBias
    BY <1>2, <2>1, <2>2 DEF RetrieveStatus
  <2>3. CASE ~HasFlagFullBias
    BY <1>2, <2>3 DEF RetrieveStatus
  <2>4. QED
    BY <2>2, <2>3
<1>3. ASSUME NEW t \in GpsTimes, NEW valid \in SUBSET ValidBits,
             RetrieveTimeGps(t, valid)
      PROVE  BiasAgrees'
  <2>1. UpdateTime \in Int /\ t \in Int
    BY UpdateTimeKeeps DEF DefaultRtcTime
  <2>2. UpdateTime - (UpdateTime - t) = t
    BY <2>1
  <2>3. QED
    BY <1>3, <2>2 DEF RetrieveTimeGps
<1>4. QED
  BY <1>1, <1>2, <1>3 DEF ClockNext

(* The strengthened invariant holds throughout.                            *)
THEOREM ClockInvariant == Spec => []ClockIInv
<1>1. ClockInit => ClockIInv
  <2>1. ClockInit => ClockTypeOK
    BY ZeroedClock DEF ClockInit, ClockTypeOK
  <2>2. ClockInit => FlagsAgree /\ BiasAgrees /\ TimeAgrees
    BY DEF ClockInit, FlagsAgree, BiasAgrees, TimeAgrees, HasFlagFullBias
  <2>3. QED
    BY <2>1, <2>2 DEF ClockIInv
<1>2. ClockIInv /\ [ClockNext]_clockVars => ClockIInv'
  BY TypeStep, FlagsStep, TimeStep, BiasStep DEF ClockIInv
<1>3. (Init => ClockInit) /\ ([Next]_vars => [ClockNext]_clockVars)
  BY DEF Init, Next, vars
<1>4. QED
  BY <1>1, <1>2, <1>3, PTL DEF Spec

-----------------------------------------------------------------------------
(* The clock of a GnssData holds times the receiver gave, or defaultRtcTime.*)
THEOREM ClockTypeCorrect == Spec => []ClockTypeOK
<1>1. ClockIInv => ClockTypeOK
  BY DEF ClockIInv
<1>2. QED
  BY <1>1, ClockInvariant, PTL

(* A report carries a full bias that leads from its time back to the GPS   *)
(* time of the last NAV-TIMEGPS, whatever came in between.                 *)
THEOREM GpsTimeIsReported == Spec => []ReportGivesGpsTime
<1>1. ClockIInv => ReportGivesGpsTime
  BY DEF ClockIInv, FlagsAgree, BiasAgrees, ReportGivesGpsTime, Done
<1>2. QED
  BY <1>1, ClockInvariant, PTL

(* The time of a report is the receiver's time since startup, or           *)
(* defaultRtcTime while that is 0.                                         *)
THEOREM StartupTimeIsReported == Spec => []ReportGivesStartupTime
<1>1. ClockIInv => ReportGivesStartupTime
  BY DEF ClockIInv, TimeAgrees, ReportGivesStartupTime
<1>2. QED
  BY <1>1, ClockInvariant, PTL

-----------------------------------------------------------------------------
(* The measurements.                                                       *)

Block == [gnssId : GnssIds, svId : SvIds]

Meta == [numSvs : 0 .. MaxSvsNum + 1, tow : [Systems -> Tows],
         acc : TowAccs, TOWset : {0, 1}]

(* Blocks that what follows the first block has room for.                  *)
Room == (payloadLen - SingleBlockSize) \div RepeatedBlockSize

Accepted == LengthOK /\ meta.numSvs <= MaxSvsNum

Types ==
    /\ phase \in {"parse", "retrieve", "done"}
    /\ payloadLen \in Lengths
    /\ meta \in Meta
    /\ i \in Nat
    /\ offset \in Nat
    /\ data \in Seq(Block)

(* The offset counts the blocks, the loop takes each turn's block while    *)
(* there is room, and takes none of a message that is refused.             *)
BlocksTaken ==
    /\ offset = Len(data) * RepeatedBlockSize
    /\ ~Accepted => i = 0 /\ Len(data) = 0
    /\ Accepted =>
         /\ i <= meta.numSvs
         /\ Len(data) <= i /\ Len(data) <= Room
         /\ Len(data) = i \/ Len(data) = Room
    /\ phase # "parse" => ~MoreBlocks

(* The measurements are those of the first blocks, in order, and of all of *)
(* them at the end.                                                        *)
Retrieved ==
    /\ measurements \in Seq({GetGnssMeasurement(block) : block \in Block})
    /\ Len(measurements) <= Len(data)
    /\ \A n \in 1 .. Len(measurements) :
         measurements[n] = GetGnssMeasurement(data[n])
    /\ phase = "parse" => measurements = <<>>
    /\ phase = "done" => Len(measurements) = Len(data)

(* The strengthening that every step of RXM-MEASX keeps.                   *)
MeasxIInv == Types /\ BlocksTaken /\ Retrieved
-----------------------------------------------------------------------------
(* A payload has room for one block more exactly when the block that       *)
(* starts after n of them ends in it.                                      *)
LEMMA RoomForOneMore ==
  ASSUME NEW size \in Nat \ {0}, NEW rest \in Nat, NEW n \in Nat
  PROVE  /\ rest \div size \in Nat
         /\ n * size + size <= rest <=> n + 1 <= rest \div size
<1> DEFINE q == rest \div size
<1>1. q \in Int /\ q * size <= rest /\ rest < q * size + size
  BY SMTT(20)
<1>2. q \in Nat
  BY <1>1, SMTT(20)
<1>3. ASSUME n + 1 <= q
      PROVE  n * size + size <= rest
  <2>1. (n + 1) * size <= q * size
    BY <1>2, <1>3, SMTT(20)
  <2>2. QED
    BY <1>1, <1>2, <2>1, SMTT(20)
<1>4. ASSUME ~(n + 1 <= q)
      PROVE  ~(n * size + size <= rest)
  <2>1. n >= q
    BY <1>2, <1>4
  <2>2. n * size >= q * size
    BY <1>2, <2>1, SMTT(20)
  <2>3. QED
    BY <1>1, <1>2, <2>2, SMTT(20)
<1>5. QED
  BY <1>2, <1>3, <1>4

(* What the lemma above says of this payload.                              *)
LEMMA FitsWhenRoom ==
  ASSUME Types, BlocksTaken, Accepted
  PROVE  /\ Room \in Nat
         /\ Fits <=> Len(data) + 1 <= Room
         /\ payloadLen - SingleBlockSize \in Nat
<1> DEFINE rest == payloadLen - SingleBlockSize
<1>1. payloadLen \in Nat /\ SingleBlockSize \in Nat
      /\ RepeatedBlockSize \in Nat \ {0}
  BY SizesAssumption, FieldsAssumption DEF Types
<1>2. rest \in Nat
  BY <1>1 DEF Accepted, LengthOK
<1>3. Len(data) \in Nat
  BY DEF Types
<1>4. offset = Len(data) * RepeatedBlockSize
  BY DEF BlocksTaken
<1> HIDE DEF rest
<1>5. /\ rest \div RepeatedBlockSize \in Nat
      /\ Len(data) * RepeatedBlockSize + RepeatedBlockSize <= rest
           <=> Len(data) + 1 <= rest \div RepeatedBlockSize
  BY <1>1, <1>2, <1>3, RoomForOneMore
<1>6. QED
  BY <1>2, <1>4, <1>5 DEF rest, Room, Fits

LEMMA InitHolds ==
  ASSUME MeasxInit
  PROVE  MeasxIInv
<1>1. PICK tow \in [Systems -> Tows], acc \in TowAccs, set \in {0, 1} :
        meta \in [numSvs : 0 .. MaxSvsNum + 1,
                  tow : {tow}, acc : {acc}, TOWset : {set}]
  BY DEF MeasxInit
<1>2. meta \in Meta
  BY <1>1 DEF Meta
<1>3. data = <<>> /\ data \in Seq(Block) /\ Len(data) = 0
      /\ measurements = <<>> /\ Len(measurements) = 0
      /\ measurements \in Seq({GetGnssMeasurement(block) : block \in Block})
  BY DEF MeasxInit
<1>4. Types
  BY <1>2, <1>3 DEF MeasxInit, Types
<1>5. ASSUME Accepted
      PROVE  0 <= meta.numSvs /\ Room \in Nat
  <2>1. payloadLen \in Nat /\ SingleBlockSize \in Nat
        /\ RepeatedBlockSize \in Nat \ {0}
    BY SizesAssumption, FieldsAssumption DEF MeasxInit
  <2>2. payloadLen - SingleBlockSize \in Nat
    BY <1>5, <2>1 DEF Accepted, LengthOK
  <2>3. QED
    BY <1>2, <2>1, <2>2, RoomForOneMore, SizesAssumption DEF Meta, Room
<1>6. BlocksTaken
  <2>1. i = 0 /\ offset = 0 /\ phase = "parse"
    BY DEF MeasxInit
  <2>2. offset = Len(data) * RepeatedBlockSize
    BY <1>3, <2>1, SizesAssumption
  <2>3. QED
    BY <1>3, <1>5, <2>1, <2>2 DEF BlocksTaken
<1>7. Retrieved
  BY <1>3 DEF MeasxInit, Retrieved
<1>8. QED
  BY <1>4, <1>6, <1>7 DEF MeasxIInv

(* What is accepted depends on the message alone.                          *)
LEMMA SameMessage ==
  ASSUME UNCHANGED <<payloadLen, meta>>
  PROVE  /\ Room' = Room
         /\ Accepted' <=> Accepted
         /\ LengthOK' <=> LengthOK
BY DEF Room, Accepted, LengthOK

LEMMA TypesStep ==
  ASSUME Types, MeasxNext
  PROVE  Types'
<1> USE SizesAssumption DEF Types
<1>1. ASSUME NEW g \in GnssIds, NEW s \in SvIds,
             ParseRepeatedBlock([gnssId |-> g, svId |-> s])
      PROVE  Types'
  <2>1. [gnssId |-> g, svId |-> s] \in Block
    BY DEF Block
  <2>2. data' \in Seq(Block)
    BY <1>1, <2>1 DEF ParseRepeatedBlock
  <2>3. i' \in Nat /\ offset' \in Nat
    BY <1>1 DEF ParseRepeatedBlock
  <2>4. QED
    BY <1>1, <2>2, <2>3 DEF ParseRepeatedBlock
<1>2. CASE SkipRepeatedBlock
  BY <1>2 DEF SkipRepeatedBlock
<1>3. CASE EndParse
  BY <1>3 DEF EndParse
<1>4. CASE RetrieveBlock
  BY <1>4 DEF RetrieveBlock
<1>5. CASE EndRetrieve
  BY <1>5 DEF EndRetrieve
<1>6. QED
  BY <1>1, <1>2, <1>3, <1>4, <1>5 DEF MeasxNext

LEMMA BlocksTakenStep ==
  ASSUME Types, BlocksTaken, MeasxNext
  PROVE  BlocksTaken'
<1>1. /\ Len(data) \in Nat /\ i \in Nat /\ offset \in Nat
      /\ meta.numSvs \in Nat
      /\ RepeatedBlockSize \in Nat
  BY SizesAssumption DEF Types, Meta
<1>2. UNCHANGED <<payloadLen, meta>>
  BY DEF MeasxNext, ParseRepeatedBlock, SkipRepeatedBlock, EndParse, RetrieveBlock,
         EndRetrieve
<1>3. Room' = Room /\ (Accepted' <=> Accepted) /\ (LengthOK' <=> LengthOK)
  BY <1>2, SameMessage
<1>4. ASSUME NEW g \in GnssIds, NEW s \in SvIds,
             ParseRepeatedBlock([gnssId |-> g, svId |-> s])
      PROVE  BlocksTaken'
  <2>1. /\ Accepted /\ i < meta.numSvs /\ Fits /\ phase' = "parse"
        /\ i' = i + 1 /\ offset' = offset + RepeatedBlockSize
    BY <1>4 DEF ParseRepeatedBlock, MoreBlocks, Accepted
  <2>2. Len(data') = Len(data) + 1
    BY <1>4 DEF ParseRepeatedBlock, Types
  <2>3. Room \in Nat /\ Len(data) + 1 <= Room
    BY <2>1, FitsWhenRoom
  <2>4. offset' = Len(data') * RepeatedBlockSize
    <3>1. offset = Len(data) * RepeatedBlockSize
      BY DEF BlocksTaken
    <3>2. QED
      BY <1>1, <2>1, <2>2, <3>1, SMTT(20)
  <2>5. /\ i' <= meta'.numSvs
        /\ Len(data') <= i' /\ Len(data') <= Room'
        /\ Len(data') = i' \/ Len(data') = Room'
    BY <1>1, <1>2, <1>3, <2>1, <2>2, <2>3 DEF BlocksTaken
  <2>6. QED
    BY <1>3, <2>1, <2>4, <2>5 DEF BlocksTaken
<1>5. CASE SkipRepeatedBlock
  <2>1. /\ Accepted /\ i < meta.numSvs /\ ~Fits /\ phase' = "parse"
        /\ i' = i + 1 /\ UNCHANGED <<offset, data>>
    BY <1>5 DEF SkipRepeatedBlock, MoreBlocks, Accepted
  <2>2. Room \in Nat /\ ~(Len(data) + 1 <= Room)
    BY <2>1, FitsWhenRoom
  <2>3. /\ i' <= meta'.numSvs
        /\ Len(data') <= i' /\ Len(data') <= Room'
        /\ Len(data') = Room'
    BY <1>1, <1>2, <1>3, <2>1, <2>2 DEF BlocksTaken
  <2>4. QED
    BY <1>3, <2>1, <2>3 DEF BlocksTaken
<1>6. CASE EndParse
  BY <1>2, <1>3, <1>6 DEF EndParse, MoreBlocks, BlocksTaken
<1>7. CASE RetrieveBlock \/ EndRetrieve
  BY <1>2, <1>3, <1>7 DEF RetrieveBlock, EndRetrieve, MoreBlocks, BlocksTaken
<1>8. QED
  BY <1>4, <1>5, <1>6, <1>7 DEF MeasxNext

LEMMA RetrievedStep ==
  ASSUME Types, Retrieved, [MeasxNext]_measxVars
  PROVE  Retrieved'
<1> DEFINE Given == {GetGnssMeasurement(block) : block \in Block}
<1>1. UNCHANGED meta
  BY DEF MeasxNext, ParseRepeatedBlock, SkipRepeatedBlock, EndParse, RetrieveBlock,
         EndRetrieve, measxVars
<1>2. ASSUME NEW block \in Block
      PROVE  GetGnssMeasurement(block)' = GetGnssMeasurement(block)
  BY <1>1 DEF GetGnssMeasurement, TOW, TOWState, TOWacc
<1>3. Given' = Given
  BY <1>2
<1>4. /\ measurements \in Seq(Given)
      /\ Len(measurements) \in Nat /\ Len(data) \in Nat
      /\ \A n \in 1 .. Len(data) : data[n] \in Block
  BY ElementOfSeq, LenProperties DEF Types, Retrieved
<1>5. ASSUME NEW g \in GnssIds, NEW s \in SvIds,
             ParseRepeatedBlock([gnssId |-> g, svId |-> s])
      PROVE  Retrieved'
  <2>1. measurements = <<>> /\ measurements' = <<>> /\ phase' = "parse"
        /\ Len(measurements') = 0
    BY <1>5 DEF ParseRepeatedBlock, Retrieved
  <2>2. Len(data') \in Nat
    BY <1>5, <1>4 DEF ParseRepeatedBlock, Types
  <2>3. measurements' \in Seq(Given')
    BY <2>1
  <2>4. QED
    BY <2>1, <2>2, <2>3 DEF Retrieved
<1>6. CASE SkipRepeatedBlock \/ EndParse \/ EndRetrieve \/ UNCHANGED measxVars
  <2>1. UNCHANGED <<data, measurements>>
    BY <1>6 DEF SkipRepeatedBlock, EndParse, EndRetrieve, measxVars
  <2>2. measurements' \in Seq(Given')
    BY <1>3, <1>4, <2>1
  <2>3. \A n \in 1 .. Len(measurements') :
          measurements'[n] = GetGnssMeasurement(data[n])'
    BY <1>1, <2>1, <1>2, <1>4 DEF Retrieved
  <2>4. /\ phase' = "parse" => measurements' = <<>>
        /\ phase' = "done" => Len(measurements') = Len(data')
    <3>1. CASE SkipRepeatedBlock
      BY <3>1 DEF SkipRepeatedBlock, Retrieved
    <3>2. CASE EndParse
      <4>1. phase = "parse" /\ phase' = IF mValid THEN "retrieve" ELSE "done"
        BY <3>2 DEF EndParse
      <4>2. phase' = "done" => data = <<>>
        BY <4>1 DEF mValid
      <4>3. measurements = <<>>
        BY <4>1 DEF Retrieved
      <4>4. QED
        BY <2>1, <4>1, <4>2, <4>3
    <3>3. CASE EndRetrieve
      BY <3>3 DEF EndRetrieve
    <3>4. CASE UNCHANGED measxVars
      BY <3>4 DEF measxVars, Retrieved
    <3>5. QED
      BY <1>6, <3>1, <3>2, <3>3, <3>4
  <2>5. QED
    BY <2>1, <2>2, <2>3, <2>4 DEF Retrieved
<1>7. CASE RetrieveBlock
  <2> DEFINE last == Len(measurements) + 1
             m == GetGnssMeasurement(data[last])
  <2>1. /\ phase = "retrieve" /\ phase' = "retrieve" /\ data' = data
        /\ Len(measurements) < Len(data)
        /\ measurements' = Append(measurements, m)
    BY <1>7 DEF RetrieveBlock
  <2>2. data[last] \in Block
    BY <1>4, <2>1
  <2>3. m \in Given
    BY <2>2
  <2> HIDE DEF Given, m
  <2>4. /\ measurements' \in Seq(Given)
        /\ Len(measurements') = last
        /\ measurements'[last] = m
        /\ \A n \in 1 .. Len(measurements) : measurements'[n] = measurements[n]
    BY <1>4, <2>1, <2>3
  <2>5. ASSUME NEW n \in 1 .. last
        PROVE  measurements'[n] = GetGnssMeasurement(data[n])'
    <3>1. data[n] \in Block /\ data' = data
      BY <1>4, <2>1
    <3>2. GetGnssMeasurement(data[n])' = GetGnssMeasurement(data[n])
      BY <1>1, <3>1 DEF GetGnssMeasurement, TOW, TOWState, TOWacc
    <3>3. measurements'[n] = GetGnssMeasurement(data[n])
      <4>1. CASE n = last
        BY <2>4, <4>1 DEF m
      <4>2. CASE n # last
        <5>1. n \in 1 .. Len(measurements)
          BY <1>4, <4>2
        <5>2. QED
          BY <2>4, <5>1 DEF Retrieved
      <4>3. QED
        BY <4>1, <4>2
    <3>4. QED
      BY <3>2, <3>3
  <2>6. measurements' \in Seq({GetGnssMeasurement(block) : block \in Block})'
    BY <1>3, <2>4 DEF Given
  <2>7. \A n \in 1 .. Len(measurements') :
          measurements'[n] = GetGnssMeasurement(data[n])'
    BY <2>4, <2>5
  <2>8. Len(measurements') <= Len(data')
    BY <1>4, <2>1, <2>4
  <2>9. QED
    BY <2>1, <2>6, <2>7, <2>8 DEF Retrieved
<1>8. QED
  BY <1>5, <1>6, <1>7 DEF MeasxNext

(* The inductive invariant holds in every state a message can lead to.     *)
THEOREM MeasxInvariant == Spec => []MeasxIInv
<1>1. MeasxInit => MeasxIInv
  BY InitHolds
<1>2. MeasxIInv /\ [MeasxNext]_measxVars => MeasxIInv'
  <2> SUFFICES ASSUME MeasxIInv, [MeasxNext]_measxVars
               PROVE  MeasxIInv'
    OBVIOUS
  <2>1. CASE MeasxNext
    BY <2>1, TypesStep, BlocksTakenStep, RetrievedStep DEF MeasxIInv
  <2>2. CASE UNCHANGED measxVars
    <3>1. /\ Types'
      BY <2>2 DEF measxVars, MeasxIInv, Types
    <3>2. BlocksTaken'
      BY <2>2, SameMessage DEF measxVars, MeasxIInv, BlocksTaken, MoreBlocks
    <3>3. Retrieved'
      BY <2>2, RetrievedStep DEF MeasxIInv
    <3>4. QED
      BY <3>1, <3>2, <3>3 DEF MeasxIInv
  <2>3. QED
    BY <2>1, <2>2
<1>3. (Init => MeasxInit) /\ ([Next]_vars => [MeasxNext]_measxVars)
  BY DEF Init, Next, vars
<1>4. QED
  BY <1>1, <1>2, <1>3, PTL DEF Spec
-----------------------------------------------------------------------------
(* A measurement is one of a block the receiver may send.                  *)
LEMMA MeasurementIsOfBlock ==
  ASSUME MeasxIInv, NEW n \in DOMAIN measurements
  PROVE  /\ data[n] \in Block
         /\ measurements[n] = GetGnssMeasurement(data[n])
<1>1. /\ Len(measurements) \in Nat /\ Len(data) \in Nat
      /\ DOMAIN measurements = 1 .. Len(measurements)
  BY LenProperties DEF MeasxIInv, Types, Retrieved
<1>2. n \in 1 .. Len(measurements) /\ n \in 1 .. Len(data)
  BY <1>1 DEF MeasxIInv, Retrieved
<1>3. QED
  BY <1>2, ElementOfSeq DEF MeasxIInv, Types, Retrieved

(* The uncertainty of a time is at least a nanosecond.                     *)
LEMMA UncertaintyIsPositive ==
  ASSUME Types, NEW gnssId \in GnssIds, TOWState(gnssId) # {}
  PROVE  TOWacc(TOWState(gnssId)) \in Nat \ {0}
<1> DEFINE given == (meta.acc \div 16) * 1000000
           S == {1, given}
<1>1. meta.acc \in Nat
  BY FieldsAssumption DEF Types, Meta
<1>2. given \in Nat
  <2>1. meta.acc \div 16 \in Nat
    BY <1>1, SMTT(20)
  <2>2. QED
    BY <2>1, SMTT(20)
<1> HIDE DEF given
<1>3. Max(S) \in S /\ Max(S) >= 1
  <2>1. PICK x \in S : \A y \in S : x >= y
    BY <1>2
  <2>2. Max(S) \in S /\ \A y \in S : Max(S) >= y
    BY <2>1 DEF Max
  <2>3. QED
    BY <2>2
<1>4. TOWacc(TOWState(gnssId)) = Max(S)
  BY DEF TOWacc, given
<1>5. QED
  BY <1>2, <1>3, <1>4

(* Every parsed block lies in the payload: BlocksInPayload holds.          *)
THEOREM EveryBlockIsInPayload == Spec => []BlocksInPayload
<1>1. MeasxIInv => BlocksInPayload
  <2> SUFFICES ASSUME MeasxIInv, mValid
               PROVE  SingleBlockSize + Len(data) * RepeatedBlockSize
                        <= payloadLen
    BY DEF BlocksInPayload
  <2> DEFINE n == Len(data)
             rest == payloadLen - SingleBlockSize
  <2>1. n \in Nat /\ n # 0
    BY DEF MeasxIInv, Types, mValid
  <2>2. Accepted /\ n <= Room
    BY <2>1 DEF MeasxIInv, BlocksTaken
  <2>3. rest \in Nat /\ RepeatedBlockSize \in Nat \ {0}
        /\ payloadLen \in Nat /\ SingleBlockSize \in Nat
    BY <2>2, FitsWhenRoom, SizesAssumption, FieldsAssumption DEF MeasxIInv, Types
  <2>4. n - 1 \in Nat /\ (n - 1) + 1 <= rest \div RepeatedBlockSize
    BY <2>1, <2>2 DEF Room
  <2> HIDE DEF n, rest
  <2>5. (n - 1) * RepeatedBlockSize + RepeatedBlockSize <= rest
    BY <2>3, <2>4, RoomForOneMore
  <2>6. n * RepeatedBlockSize <= rest
    BY <2>1, <2>3, <2>5, SMTT(20)
  <2>7. n * RepeatedBlockSize \in Int
    BY <2>1, <2>3
  <2>8. QED
    BY <2>3, <2>6, <2>7 DEF rest, n
<1>2. QED
  BY <1>1, MeasxInvariant, PTL

(* A report has a measurement of each block claimed and sent, and none of  *)
(* a message that is refused: MeasurementPerBlock holds.                   *)
THEOREM EveryBlockIsMeasured == Spec => []MeasurementPerBlock
<1>1. MeasxIInv => MeasurementPerBlock
  <2> SUFFICES ASSUME MeasxIInv, phase = "done"
               PROVE  Len(measurements) =
                        IF Accepted THEN Min({meta.numSvs, Room}) ELSE 0
    BY DEF MeasurementPerBlock, Accepted, Room
  <2>1. Len(measurements) = Len(data) /\ ~MoreBlocks
    BY DEF MeasxIInv, Retrieved, BlocksTaken
  <2>2. CASE ~Accepted
    BY <2>1, <2>2 DEF MeasxIInv, BlocksTaken
  <2>3. CASE Accepted
    <3> DEFINE S == {meta.numSvs, Room}
    <3>1. /\ meta.numSvs \in Nat /\ Room \in Nat /\ i \in Nat
          /\ Len(data) \in Nat
      BY <2>3, FitsWhenRoom, SizesAssumption DEF MeasxIInv, Types, Meta
    <3>2. i = meta.numSvs
      BY <2>1, <2>3, <3>1 DEF MoreBlocks, Accepted, MeasxIInv, BlocksTaken
    <3>3. /\ Len(data) <= meta.numSvs /\ Len(data) <= Room
          /\ Len(data) \in S
      BY <2>3, <3>1, <3>2 DEF MeasxIInv, BlocksTaken
    <3>4. Min(S) \in S /\ \A y \in S : Min(S) <= y
      <4>1. \A y \in S : Len(data) <= y
        BY <3>3
      <4>2. QED
        BY <3>3, <4>1 DEF Min
    <3>5. Min(S) = Len(data)
      BY <3>1, <3>3, <3>4
    <3>6. QED
      BY <2>1, <2>3, <3>5
  <2>4. QED
    BY <2>2, <2>3
<1>2. QED
  BY <1>1, MeasxInvariant, PTL

(* A measurement names a satellite of its constellation, and the one the   *)
(* receiver named where there is such a one: SvidOfConstellation holds.    *)
THEOREM SvidIsOfConstellation == Spec => []SvidOfConstellation
<1>1. ASSUME NEW block \in Block
      PROVE  /\ ValidSvid(block.gnssId, block.svId) \in NumbersOf(block.gnssId)
             /\ block.svId \in NumbersOf(block.gnssId)
                  => ValidSvid(block.gnssId, block.svId) = block.svId
  <2>1. block.gnssId \in 0 .. 6 /\ block.svId \in Nat /\ block.svId \in SvIds
    BY FieldsAssumption DEF Block, GnssIds
  <2>2. QED
    BY <2>1 DEF ValidSvid, NumbersOf, InRange, InRanges
<1>2. MeasxIInv => SvidOfConstellation
  BY <1>1, MeasurementIsOfBlock DEF SvidOfConstellation, GetGnssMeasurement
<1>3. QED
  BY <1>2, MeasxInvariant, PTL

(* The time, its state and its uncertainty agree in every measurement and  *)
(* are those of its own constellation: TimeAgreesWithState holds.          *)
THEOREM TimeHasItsState == Spec => []TimeAgreesWithState
<1>1. ASSUME MeasxIInv, NEW block \in Block
      PROVE  LET m == GetGnssMeasurement(block)
             IN /\ m.time = 0 <=> m.state = {}
                /\ m.time = 0 <=> m.uncertainty = 0
                /\ m.time # 0 => ("TOW_KNOWN" \in m.state
                                    <=> m.gnssId \in {1, 2})
                /\ m.time # 0 => ("TOW_DECODED" \in m.state
                                    <=> m.gnssId \notin {1, 2})
  <2> DEFINE m == GetGnssMeasurement(block)
             state == TOWState(block.gnssId)
             own == IF block.gnssId \in {1, 2} THEN "TOW_KNOWN"
                    ELSE "TOW_DECODED"
  <2>1. /\ m.time = TOW(block.gnssId)
        /\ m.state = state
        /\ m.uncertainty = TOWacc(state)
        /\ m.gnssId = block.gnssId
    BY DEF GetGnssMeasurement
  <2>2. /\ m.time = 0 => state = {}
        /\ m.time # 0 => state = {own, "BIT_SYNC", "SUBFRAME_SYNC"}
    BY <2>1 DEF TOWState
  <2> HIDE DEF m, state
  <2>3. state = {} => TOWacc(state) = 0
    BY DEF TOWacc
  <2>4. state # {} => TOWacc(state) \in Nat \ {0}
    BY <1>1, UncertaintyIsPositive DEF MeasxIInv, Block, state
  <2>5. m.time = 0 <=> m.state = {}
    BY <2>1, <2>2
  <2>6. m.time = 0 <=> m.uncertainty = 0
    BY <2>1, <2>3, <2>4, <2>5
  <2>7. m.time # 0 => /\ "TOW_KNOWN" \in m.state <=> m.gnssId \in {1, 2}
                      /\ "TOW_DECODED" \in m.state <=> m.gnssId \notin {1, 2}
    BY <2>1, <2>2
  <2>8. QED
    BY <2>5, <2>6, <2>7 DEF m
<1>2. MeasxIInv => TimeAgreesWithState
  BY <1>1, MeasurementIsOfBlock DEF TimeAgreesWithState
<1>3. QED
  BY <1>2, MeasxInvariant, PTL
=============================================================================
