------------------------------ MODULE UbxParser ------------------------------
(***************************************************************************)
(* UBX_ReaderParse: the UBX thread takes an element the reader put, runs   *)
(* the state machine mUM over its bytes and hands class, id and payload to *)
(* SelectParser.  mUM is a member: an element begins with what the one     *)
(* before left.  An element need not be a whole frame, see UbxReader.      *)
(***************************************************************************)
EXTENDS UbxBytes

CONSTANT ElementLens  \* lengths of the elements the reader puts

ASSUME ByteAssumption == Base \in Nat /\ Base > 1
ASSUME SyncAssumption == {Sync1, Sync2} \subseteq 0 .. Base - 1
ASSUME LensAssumption == ElementLens \subseteq Nat

VARIABLES mUM,       \* the members of UbxMachine the parser uses
          len,       \* of the element at hand
          header,    \* history: both sync bytes, length of the element's bytes
          selected   \* what the last element gave SelectParser

parserVars == <<mUM, len, header, selected>>

UbxStates == {"SYNC1", "SYNC2", "CLASS", "ID", "LENGTH1", "LENGTH2",
              "PAYLOAD", "CHECKSUM1", "CHECKSUM2", "FINISH"}

NoPayload == -1  \* msg_payload is nullptr
NoneSelected == [payload |-> NoPayload, len |-> 0, checksumOK |-> FALSE]

NoHeader == [synced |-> TRUE, payloadLen |-> 0]

UbxReset ==
    [state |-> "SYNC1", rx_payload_len |-> 0, rx_payload_ptr |-> 0,
     rx_checksum_a |-> 0, rx_checksum_b |-> 0,
     rx_exp_checksum_a |-> 0, rx_exp_checksum_b |-> 0,
     buffer_ptr |-> 0, msg_payload |-> NoPayload]

ParserInit ==
    /\ mUM = UbxReset
    /\ len \in ElementLens
    /\ header = NoHeader
    /\ selected = NoneSelected

-----------------------------------------------------------------------------
(* UBX_ChecksumAdd, in machine m.                                          *)
ChecksumAdd(m, ch) ==
    [m EXCEPT !.rx_checksum_a = (@ + ch) % Base,
              !.rx_checksum_b = (@ + m.rx_checksum_a + ch) % Base]

To(m, state) == [m EXCEPT !.state = state]

Length2(m, ch) ==
    LET n == m.rx_payload_len + ch * Base
    IN [m EXCEPT !.rx_payload_len = n,
                 !.state = IF n = 0 THEN "CHECKSUM1" ELSE "PAYLOAD"]

Payload(m) ==
    [m EXCEPT !.msg_payload = IF @ = NoPayload THEN m.buffer_ptr ELSE @,
              !.rx_payload_ptr = @ + 1,
              !.state = IF m.rx_payload_ptr + 1 = m.rx_payload_len
                        THEN "CHECKSUM1" ELSE "PAYLOAD"]

(* The switch on mUM.state for byte ch.                                    *)
Switch(m, ch) ==
    CASE m.state = "SYNC1" -> IF ch = Sync1 THEN To(m, "SYNC2") ELSE m
      [] m.state = "SYNC2" -> IF ch = Sync2 THEN To(m, "CLASS") ELSE m
      [] m.state = "CLASS" -> To(ChecksumAdd(m, ch), "ID")
      [] m.state = "ID" -> To(ChecksumAdd(m, ch), "LENGTH1")
      [] m.state = "LENGTH1" ->
            [To(ChecksumAdd(m, ch), "LENGTH2") EXCEPT !.rx_payload_len = ch]
      [] m.state = "LENGTH2" -> Length2(ChecksumAdd(m, ch), ch)
      [] m.state = "PAYLOAD" -> Payload(ChecksumAdd(m, ch))
      [] m.state = "CHECKSUM1" ->
            [To(m, "CHECKSUM2") EXCEPT !.rx_exp_checksum_a = ch]
      [] m.state = "CHECKSUM2" ->
            [To(m, "FINISH") EXCEPT !.rx_exp_checksum_b = ch]
      [] m.state = "FINISH" -> m

HeaderWith(position, ch) ==
    CASE position = 0 -> [header EXCEPT !.synced = (ch = Sync1)]
      [] position = 1 -> [header EXCEPT !.synced = @ /\ ch = Sync2]
      [] position = 4 -> [header EXCEPT !.payloadLen = ch]
      [] position = 5 -> [header EXCEPT !.payloadLen = @ + ch * Base]
      [] OTHER -> header

ParseByte(ch) ==
    /\ mUM.buffer_ptr < len
    /\ mUM' = [Switch(mUM, ch) EXCEPT !.buffer_ptr = @ + 1]
    /\ header' = HeaderWith(mUM.buffer_ptr, ch)
    /\ UNCHANGED <<len, selected>>

ChecksumOK == /\ mUM.rx_exp_checksum_a = mUM.rx_checksum_a
              /\ mUM.rx_exp_checksum_b = mUM.rx_checksum_b

(* Whatever the machine has is handed on.                                  *)
SelectedAlways ==
    [payload |-> mUM.msg_payload, len |-> mUM.rx_payload_len,
     checksumOK |-> ChecksumOK]

(* SelectParser returns at once for a frame without a payload; a frame     *)
(* whose checksum differs is handed on like any other.                     *)
Selected ==
    IF mUM.state # "FINISH" THEN NoneSelected
    ELSE [payload |-> mUM.msg_payload, len |-> mUM.rx_payload_len,
          checksumOK |-> ChecksumOK]

(* An element whose frame is incomplete leaves the machine where it is.    *)
EndIncomplete ==
    /\ mUM.buffer_ptr = len
    /\ selected' = Selected
    /\ mUM' = IF mUM.state = "FINISH" THEN UbxReset
              ELSE [mUM EXCEPT !.buffer_ptr = 0]
    /\ len' \in ElementLens
    /\ header' = NoHeader

EndElement ==
    /\ mUM.buffer_ptr = len
    /\ selected' = Selected
    /\ mUM' = UbxReset
    /\ len' \in ElementLens
    /\ header' = NoHeader

ParserNext == (\E ch \in Bytes : ParseByte(ch)) \/ EndElement

ParserSpec == ParserInit /\ [][ParserNext]_parserVars

-----------------------------------------------------------------------------
(* A payload handed on lies in the element, with its checksum after it:    *)
(* no parser is given bytes the reader did not put.  A payload of length 0 *)
(* is handed on as nullptr.                                                *)
PayloadInElement ==
    [][mUM.buffer_ptr = len /\ selected'.len > 0 =>
         /\ selected'.payload >= 6
         /\ selected'.payload + selected'.len + 2 <= len]_parserVars

(* An element that is exactly a frame gives its payload from the byte      *)
(* behind the header to the checksum.                                      *)
ExactFrame == /\ mUM.buffer_ptr = len /\ len >= 8
              /\ header.synced /\ len = header.payloadLen + 8

ExactFrameIsSelected ==
    [][ExactFrame => /\ selected'.payload = IF len = 8 THEN NoPayload ELSE 6
                     /\ selected'.len = len - 8]_parserVars

(* rx_exp_checksum_a and _b are there "to test the received data checksum" *)
(* (GnssHw.h): what is handed on has passed the test.                      *)
SelectedPassedTest ==
    [][mUM.buffer_ptr = len /\ selected'.len > 0 => selected'.checksumOK]_parserVars
=============================================================================
