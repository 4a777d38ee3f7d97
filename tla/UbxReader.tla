------------------------------ MODULE UbxReader ------------------------------
(***************************************************************************)
(* ReaderPushChar: the tty thread cuts the receiver's byte stream into     *)
(* NMEA sentences and UBX frames.  The receiver sends whole sentences and  *)
(* frames; the line may lose bytes of them and add bytes between them.     *)
(* A byte has Base values, so a length, of two bytes, has Base * Base, as  *)
(* many as mReaderBuf has bytes.  Of the buffer only the fill is kept: the *)
(* reader never looks back into it.                                        *)
(***************************************************************************)
EXTENDS UbxBytes

CONSTANTS Dollar, Eol,                 \* '$', CR or LF
          Plain,                       \* bytes that are none of these
          PayloadLens,                 \* payloads the receiver sends
          PayloadBytes,                \* bytes of payloads and checksums
          MaxSentence,                 \* bound: bytes of a sentence
          MaxFaults                    \* bound: bytes lost or added

Size == Base * Base
LengthFirstByteNo == 4
LengthSecondByteNo == 5
PacketSizeNoPayload == 8

ASSUME BaseAssumption == Base \in Nat /\ Base > PacketSizeNoPayload \div 2
ASSUME BytesAssumption ==
    /\ {Sync1, Sync2, Dollar, Eol} \union Plain \union PayloadBytes
         \subseteq Bytes
    /\ Sync1 # Dollar
    /\ Eol # Dollar /\ Eol # Sync1
    /\ {Sync1, Dollar, Eol} \intersect Plain = {}

(* A frame is as large as the buffer at most.                              *)
ASSUME PayloadsAssumption == PayloadLens \subseteq 0 .. Size - PacketSizeNoPayload

VARIABLES mReaderState, mReaderBufPos, ubx_payload_len,
          put,      \* the element put by the last byte: kind and length
          line,     \* what the receiver is sending: kind, payload, bytes sent
          clean,    \* history: the sentence or frame met a reader at rest
          faults    \* history: bytes lost or added

readerVars == <<mReaderState, mReaderBufPos, ubx_payload_len, put>>
vars == <<readerVars, line, clean, faults>>

States == {"WAITING", "CAPTURING_NMEA", "WAITING_UBX_SYNC2", "CAPTURING_UBX"}

Nothing == [kind |-> "none", len |-> 0]
Idle == [kind |-> "idle", payload |-> 0, sent |-> 0]

Init ==
    /\ mReaderState = "WAITING" /\ mReaderBufPos = 0 /\ ubx_payload_len = 0
    /\ put = Nothing
    /\ line = Idle /\ clean = FALSE /\ faults = 0

-----------------------------------------------------------------------------
(* A test that lets one byte past the end.                                 *)
FullLate == mReaderBufPos > Size

Full == mReaderBufPos >= Size

(* A full buffer that loses its content and keeps its state.               *)
StateNowKept == mReaderState
StateNow == IF Full THEN "WAITING" ELSE mReaderState
PosNow == IF Full THEN 0 ELSE mReaderBufPos

(* The state in which byte ch, not the end of a sentence, is stored.       *)
StateWith(ch) ==
    CASE StateNow = "WAITING" /\ ch = Dollar -> "CAPTURING_NMEA"
      [] StateNow = "WAITING" /\ ch = Sync1 -> "WAITING_UBX_SYNC2"
      [] StateNow = "WAITING_UBX_SYNC2" /\ ch = Sync2 -> "CAPTURING_UBX"
      [] OTHER -> StateNow

EndsSentence(ch) == StateNow = "CAPTURING_NMEA" /\ ch = Eol

(* The length is a uint16_t that is added to.                              *)
LengthWith(ch) ==
    CASE StateNow = "CAPTURING_UBX" /\ PosNow = LengthFirstByteNo ->
            (ubx_payload_len + ch) % Size
      [] StateNow = "CAPTURING_UBX" /\ PosNow = LengthSecondByteNo ->
            (ubx_payload_len + ch * Base) % Size
      [] OTHER -> ubx_payload_len

(* A missed end of sentence: the next '$' starts the buffer again.         *)
StoreAt(ch) == IF StateNow = "CAPTURING_NMEA" /\ ch = Dollar THEN 0 ELSE PosNow

(* A frame that ends with its payload.                                     *)
FrameEndsEarly(pos, len) == pos >= len + PacketSizeNoPayload - 1

FrameEnds(pos, len) == pos >= len + PacketSizeNoPayload

(* A frame as large as the buffer is dropped.                              *)
EndFrame(pos, len) ==
    /\ put' = IF pos < Size THEN [kind |-> "ubx", len |-> pos] ELSE Nothing
    /\ mReaderState' = "WAITING" /\ mReaderBufPos' = 0
    /\ ubx_payload_len' = 0

EndSentence ==
    /\ put' = [kind |-> "nmea", len |-> PosNow]
    /\ mReaderState' = "WAITING" /\ mReaderBufPos' = 0
    /\ UNCHANGED ubx_payload_len

Store(ch) ==
    LET state == StateWith(ch)
        pos == StoreAt(ch) + 1
        len == LengthWith(ch)
    IN IF state = "CAPTURING_UBX" /\ FrameEnds(pos, len)
       THEN EndFrame(pos, len)
       ELSE /\ put' = Nothing
            /\ mReaderState' = state
            /\ mReaderBufPos' = IF state = "WAITING" THEN PosNow ELSE pos
            /\ ubx_payload_len' = len

ReaderPushChar(ch) == IF EndsSentence(ch) THEN EndSentence ELSE Store(ch)

-----------------------------------------------------------------------------
(* The receiver.                                                           *)

AtRest == StateNow = "WAITING" /\ ubx_payload_len = 0

Begin(kind, payload) ==
    /\ line = Idle
    /\ line' = [kind |-> kind, payload |-> payload, sent |-> 1]
    /\ clean' = AtRest
    /\ ReaderPushChar(IF kind = "nmea" THEN Dollar ELSE Sync1)
    /\ UNCHANGED faults

(* The bytes that may come next, and whether the last of them is due.      *)
NextBytes ==
    IF line.kind = "nmea"
    THEN IF line.sent = MaxSentence - 1 THEN {Eol} ELSE Plain \union {Eol}
    ELSE CASE line.sent = 1 -> {Sync2}
           [] line.sent \in {2, 3} -> Plain
           [] line.sent = LengthFirstByteNo -> {line.payload % Base}
           [] line.sent = LengthSecondByteNo -> {line.payload \div Base}
           [] OTHER -> PayloadBytes

Last(ch) == IF line.kind = "nmea" THEN ch = Eol
            ELSE line.sent = line.payload + PacketSizeNoPayload - 1

Sent(ch) == IF Last(ch) THEN Idle ELSE [line EXCEPT !.sent = @ + 1]

SendByte ==
    /\ line # Idle
    /\ \E ch \in NextBytes : line' = Sent(ch) /\ ReaderPushChar(ch)
    /\ UNCHANGED <<clean, faults>>

LoseByte ==
    /\ line # Idle /\ faults < MaxFaults
    /\ faults' = faults + 1
    /\ \E ch \in NextBytes : line' = Sent(ch)
    /\ clean' = FALSE
    /\ put' = Nothing
    /\ UNCHANGED <<mReaderState, mReaderBufPos, ubx_payload_len>>

AddByte ==
    /\ line = Idle /\ faults < MaxFaults
    /\ faults' = faults + 1
    /\ \E ch \in Bytes : ReaderPushChar(ch)
    /\ UNCHANGED <<line, clean>>

BeginAny == Begin("nmea", 0) \/ \E len \in PayloadLens : Begin("ubx", len)

Next == BeginAny \/ SendByte \/ LoseByte \/ AddByte

(* The receiver goes on sending.                                           *)
Spec == Init /\ [][Next]_vars /\ WF_vars(BeginAny \/ SendByte)

-----------------------------------------------------------------------------
(* The reader writes inside mReaderBuf (a full buffer is given up before   *)
(* the next byte is stored) and a waiting reader has an empty one.         *)
TypeOK ==
    /\ mReaderState \in States
    /\ mReaderBufPos \in 0 .. Size
    /\ mReaderState = "WAITING" => mReaderBufPos = 0
    /\ ubx_payload_len \in 0 .. Size - 1
    /\ put.len < Size

(* A sentence or frame that meets a reader at rest and loses no byte is    *)
(* put whole by its last byte, and none of its bytes before puts anything, *)
(* whatever was lost or added earlier and whatever its payload looks like. *)
(* Only what is as large as mReaderBuf is dropped.                         *)
CleanIsPutWhole ==
    [][clean /\ line # Idle /\ clean' =>
         LET len == IF line.kind = "nmea" THEN line.sent ELSE line.sent + 1
         IN put' = IF line' # Idle \/ len >= Size THEN Nothing
                   ELSE [kind |-> line.kind, len |-> len]]_vars

(* A step of a receiver whose messages have a payload, with no byte in it  *)
(* that could start a sentence or a frame.                                 *)
Harmless ==
    \/ Begin("nmea", 0)
    \/ \E len \in PayloadLens \ {0} : Begin("ubx", len)
    \/ /\ line # Idle
       /\ \E ch \in NextBytes :
            /\ line.kind = "ubx" /\ line.sent > LengthSecondByteNo => ch \in Plain
            /\ line' = Sent(ch) /\ ReaderPushChar(ch)

(* Whatever was lost or added, a reader that goes on receiving sentences   *)
(* and harmless frames is at rest, with its length reset, again and again. *)
ReaderReturns ==
    /\ <>[][Harmless]_vars
    /\ []<>(line.kind = "nmea") /\ []<>(line.kind = "ubx")
    => []<>AtRest
=============================================================================
