----------------------------- MODULE GnssRxmMeasx -----------------------------
(***************************************************************************)
(* GnssRxmMeasxParser: the UBX thread cuts the payload of an RXM-MEASX     *)
(* into one block with the times of week and a block per satellite, the    *)
(* callback thread turns the blocks into measurements.  mTOWstate is one   *)
(* member that every block's measurement writes and reads.                 *)
(***************************************************************************)
EXTENDS Integers, Sequences, FiniteSetsExt

CONSTANTS MaxSvsNum, SingleBlockSize, RepeatedBlockSize,  \* 64, 44, 24
          Lengths,   \* payload lengths a receiver may send
          SvIds,     \* satellite numbers a receiver may send
          Tows,      \* times of week, 0 among them
          TowAccs    \* their accuracies

ASSUME SizesAssumption ==
    /\ MaxSvsNum \in Nat /\ SingleBlockSize \in Nat
    /\ RepeatedBlockSize \in Nat \ {0}

(* Unsigned fields of the message.                                         *)
ASSUME FieldsAssumption ==
    Lengths \subseteq Nat /\ SvIds \subseteq Nat /\ TowAccs \subseteq Nat

(* GPS 0, SBAS 1, GALILEO 2, BEIDOU 3, QZSS 5, GLONASS 6; 4 is none.       *)
GnssIds == 0 .. 6
Unknown == 4
Systems == {"gps", "glonass", "bds", "qzss"}

VARIABLES phase,      \* parse, retrieve, done
          payloadLen, meta,
          i, offset,  \* of the loop over the repeated blocks
          data,       \* blocks parsed
          mTOWstate,
          measurements

measxVars == <<phase, payloadLen, meta, i, offset, data, mTOWstate, measurements>>

MeasxInit ==
    /\ phase = "parse"
    /\ payloadLen \in Lengths
    /\ \E tow \in [Systems -> Tows], acc \in TowAccs, set \in {0, 1} :
         meta \in [numSvs : 0 .. MaxSvsNum + 1,
                   tow : {tow}, acc : {acc}, TOWset : {set}]
    /\ i = 0 /\ offset = 0
    /\ data = <<>>
    /\ mTOWstate = {"TOW_DECODED"}
    /\ measurements = <<>>

mValid == data # <<>>

-----------------------------------------------------------------------------
(* The constructor.                                                        *)

LengthOK == /\ payloadLen <= MaxSvsNum * RepeatedBlockSize + SingleBlockSize
            /\ payloadLen >= SingleBlockSize + RepeatedBlockSize

MoreBlocks == LengthOK /\ meta.numSvs <= MaxSvsNum /\ i < meta.numSvs

(* A test against the length of the whole payload.                         *)
FitsWhole == offset + RepeatedBlockSize <= payloadLen

(* A test that turns away the block that ends where the payload ends.      *)
FitsBefore == offset + RepeatedBlockSize < payloadLen - SingleBlockSize

(* The block at offset lies in what follows the first block.               *)
Fits == offset + RepeatedBlockSize <= payloadLen - SingleBlockSize

ParseRepeatedBlock(block) ==
    /\ phase = "parse" /\ MoreBlocks /\ Fits
    /\ data' = Append(data, block)
    /\ offset' = offset + RepeatedBlockSize
    /\ i' = i + 1
    /\ UNCHANGED <<phase, payloadLen, meta, mTOWstate, measurements>>

SkipRepeatedBlock ==
    /\ phase = "parse" /\ MoreBlocks /\ ~Fits
    /\ i' = i + 1
    /\ UNCHANGED <<phase, payloadLen, meta, offset, data, mTOWstate,
                   measurements>>

(* A payload that gave no block is not valid and retrieveSvInfo returns    *)
(* NotReady.                                                               *)
EndParse ==
    /\ phase = "parse" /\ ~MoreBlocks
    /\ phase' = IF mValid THEN "retrieve" ELSE "done"
    /\ UNCHANGED <<payloadLen, meta, i, offset, data, mTOWstate, measurements>>

-----------------------------------------------------------------------------
(* retrieveSvInfo.                                                         *)

(* inRange that looks at the end of the range only.                        *)
InRangeEnd(first, last, svid) == IF svid > last THEN first ELSE svid

InRange(first, last, svid) == IF svid < first \/ svid > last THEN first ELSE svid

InRanges(first1, last1, first2, last2, svid) ==
    IF svid \in (first1 .. last1) \union (first2 .. last2) THEN svid ELSE first2

ValidSvid(gnssId, svid) ==
    CASE gnssId = 0 -> InRange(1, 32, svid)
      [] gnssId = 1 -> InRanges(120, 151, 183, 192, svid)
      [] gnssId = 2 -> InRange(1, 36, svid)
      [] gnssId = 3 -> InRange(1, 37, svid)
      [] gnssId = 5 -> InRange(193, 200, svid)
      [] gnssId = 6 -> InRanges(1, 24, 93, 106, svid)
      [] OTHER -> svid

(* SBAS and GALILEO take the time of GPS.                                  *)
SystemOf(gnssId) ==
    CASE gnssId \in {0, 1, 2} -> "gps"
      [] gnssId = 3 -> "bds"
      [] gnssId = 5 -> "qzss"
      [] gnssId = 6 -> "glonass"

TOW(gnssId) == IF meta.TOWset = 0 \/ gnssId = Unknown THEN 0
               ELSE meta.tow[SystemOf(gnssId)]

(* A state that is added to what the block before left.                    *)
TOWStateAdded(gnssId) ==
    IF TOW(gnssId) = 0 THEN {}
    ELSE mTOWstate \union {"BIT_SYNC", "SUBFRAME_SYNC"}
         \union IF gnssId \in {1, 2} THEN {"TOW_KNOWN"} ELSE {"TOW_DECODED"}

TOWState(gnssId) ==
    IF TOW(gnssId) = 0 THEN {}
    ELSE {IF gnssId \in {1, 2} THEN "TOW_KNOWN" ELSE "TOW_DECODED",
          "BIT_SYNC", "SUBFRAME_SYNC"}

(* The accuracy of a known time in ns: a sixteenth of a millisecond is     *)
(* rounded down to whole milliseconds, and 0 becomes 1 ns.                 *)
TOWacc(state) == IF state = {} THEN 0
                 ELSE Max({1, (meta.acc \div 16) * 1000000})

(* A frequency is known, and flagged, for each system that is known.       *)
HasCarrierFrequency(gnssId) == gnssId # Unknown

GetGnssMeasurement(block) ==
    [gnssId |-> block.gnssId,
     svid |-> ValidSvid(block.gnssId, block.svId),
     flags |-> IF HasCarrierFrequency(block.gnssId)
               THEN {"HAS_CARRIER_FREQUENCY"} ELSE {},
     time |-> TOW(block.gnssId),
     uncertainty |-> TOWacc(TOWState(block.gnssId)),
     state |-> TOWState(block.gnssId)]

RetrieveBlock ==
    /\ phase = "retrieve"
    /\ Len(measurements) < Len(data)
    /\ LET block == data[Len(measurements) + 1]
       IN /\ mTOWstate' = TOWState(block.gnssId)
          /\ measurements' = Append(measurements, GetGnssMeasurement(block))
    /\ UNCHANGED <<phase, payloadLen, meta, i, offset, data>>

EndRetrieve ==
    /\ phase = "retrieve"
    /\ Len(measurements) = Len(data)
    /\ phase' = "done"
    /\ UNCHANGED <<payloadLen, meta, i, offset, data, mTOWstate, measurements>>

MeasxNext ==
    \/ \E g \in GnssIds, s \in SvIds :
         ParseRepeatedBlock([gnssId |-> g, svId |-> s])
    \/ SkipRepeatedBlock \/ EndParse \/ RetrieveBlock \/ EndRetrieve

-----------------------------------------------------------------------------
(* Every block that is parsed lies in the payload, whatever number of      *)
(* satellites the message claims.                                          *)
BlocksInPayload ==
    mValid => SingleBlockSize + Len(data) * RepeatedBlockSize <= payloadLen

(* A report gets a measurement of each block the payload has room for, and *)
(* a payload with more satellites than a GnssData holds gives none.        *)
MeasurementPerBlock ==
    phase = "done" =>
        Len(measurements) =
            IF LengthOK /\ meta.numSvs <= MaxSvsNum
            THEN Min({meta.numSvs,
                      (payloadLen - SingleBlockSize) \div RepeatedBlockSize})
            ELSE 0

(* Satellite numbers of a system (the tables of the receiver's manual).    *)
NumbersOf(gnssId) ==
    CASE gnssId = 0 -> 1 .. 32
      [] gnssId = 1 -> 120 .. 192 \ 152 .. 182
      [] gnssId = 2 -> 1 .. 36
      [] gnssId = 3 -> 1 .. 37
      [] gnssId = 5 -> 193 .. 200
      [] gnssId = 6 -> 1 .. 24 \union 93 .. 106
      [] OTHER -> SvIds

(* A measurement never names a satellite its constellation does not have,  *)
(* and it keeps the receiver's number when the constellation has it.       *)
SvidOfConstellation ==
    \A n \in DOMAIN measurements :
        LET m == measurements[n]
        IN /\ m.svid \in NumbersOf(m.gnssId)
           /\ data[n].svId \in NumbersOf(m.gnssId) => m.svid = data[n].svId

(* The state, the time and the uncertainty of a measurement are those of   *)
(* its own constellation, although all blocks share mTOWstate: a time is   *)
(* decoded or known from GPS, never both, and comes with an uncertainty;   *)
(* without a time there is neither state nor uncertainty.                  *)
TimeAgreesWithState ==
    \A n \in DOMAIN measurements :
        LET m == measurements[n]
        IN /\ m.time = 0 <=> m.state = {}
           /\ m.time = 0 <=> m.uncertainty = 0
           /\ m.time # 0 => ("TOW_KNOWN" \in m.state <=> m.gnssId \in {1, 2})
           /\ m.time # 0 => ("TOW_DECODED" \in m.state <=> m.gnssId \notin {1, 2})
=============================================================================
