------------------------------- MODULE UbxProofs -------------------------------
(***************************************************************************)
(* Proofs about the bytes of the tty: the reader, for a buffer, sentences  *)
(* and payloads of any length and any number of bytes lost and added, and  *)
(* the parser, for elements of any bytes and any length.                   *)
(***************************************************************************)
EXTENDS UbxReader, UbxParser, TLAPS

(* The receiver is between messages, in a sentence, or in a frame that it  *)
(* has not finished.                                                       *)
LineOK ==
    \/ line = Idle
    \/ /\ line \in [kind : {"nmea"}, payload : {0}, sent : Nat]
       /\ line.sent >= 1
    \/ /\ line \in [kind : {"ubx"}, payload : PayloadLens, sent : Nat]
       /\ line.sent >= 1 /\ line.sent < line.payload + PacketSizeNoPayload

(* A clean sentence is stored from the start of the buffer, until it has   *)
(* filled it: then the rest of it is passed over.                          *)
InSentence ==
    IF line.sent <= Size
    THEN mReaderState = "CAPTURING_NMEA" /\ mReaderBufPos = line.sent
    ELSE mReaderState = "WAITING"

(* So is a clean frame, and the length holds of the frame's own what has   *)
(* been received of it, and nothing of an earlier frame's.                 *)
InFrame ==
    /\ mReaderBufPos = line.sent
    /\ mReaderState = IF line.sent = 1 THEN "WAITING_UBX_SYNC2"
                      ELSE "CAPTURING_UBX"
    /\ line.sent <= LengthFirstByteNo => ubx_payload_len = 0
    /\ line.sent = LengthSecondByteNo => ubx_payload_len = line.payload % Base
    /\ line.sent > LengthSecondByteNo => ubx_payload_len = line.payload

CleanIsFollowed ==
    clean /\ line # Idle => IF line.kind = "nmea" THEN InSentence ELSE InFrame

(* The strengthening that every step keeps.                                *)
IInv == TypeOK /\ LineOK /\ clean \in BOOLEAN /\ CleanIsFollowed
-----------------------------------------------------------------------------
(* The buffer holds more than a frame without payload, and a byte is       *)
(* smaller than its length.                                                *)
LEMMA SizeOfBuffer ==
  /\ Base \in Nat /\ Size \in Nat
  /\ Size > PacketSizeNoPayload
  /\ Base > LengthFirstByteNo /\ Base <= Size
<1>1. Base \in Nat /\ Base > 4
  BY BaseAssumption, SMTT(20) DEF PacketSizeNoPayload
<1>2. Base * Base >= 5 * Base
  BY <1>1, SMTT(20)
<1>3. Base * Base \in Nat
  BY <1>1
<1>4. QED
  BY <1>1, <1>2, <1>3 DEF Size, PacketSizeNoPayload, LengthFirstByteNo

(* What is left of a division is smaller than the divisor.                 *)
LEMMA Remainder ==
  ASSUME NEW n \in Int, NEW m \in Nat \ {0}
  PROVE  n % m \in 0 .. m - 1
BY SMTT(20)

(* A number below the divisor is what is left of its division.             *)
LEMMA SmallRemainder ==
  ASSUME NEW m \in Nat \ {0}, NEW n \in 0 .. m - 1
  PROVE  n % m = n
BY SMTT(20)

(* The two bytes of a length give the length.                              *)
LEMMA TwoBytes ==
  ASSUME NEW n \in 0 .. Size - 1
  PROVE  /\ n % Base \in 0 .. Base - 1
         /\ n \div Base \in 0 .. Base - 1
         /\ (n % Base) + (n \div Base) * Base = n
<1>1. Base \in Nat \ {0} /\ n \in Nat
  BY SizeOfBuffer DEF LengthFirstByteNo
<1> DEFINE r == n % Base
           q == n \div Base
<1>2. r \in 0 .. Base - 1
  BY <1>1, Remainder
<1>3. q \in Int /\ r + q * Base = n
  BY <1>1, SMTT(20)
<1>4. n < Base * Base
  BY <1>1, SizeOfBuffer DEF Size
<1> HIDE DEF r, q
<1>5. q >= 0
  <2>1. q <= 0 - 1 => q * Base <= 0 - Base
    BY <1>1, <1>3, SMTT(20)
  <2>2. QED
    BY <1>1, <1>2, <1>3, <2>1
<1>6. q <= Base - 1
  <2>1. q >= Base => q * Base >= Base * Base
    BY <1>1, <1>3, SMTT(20)
  <2>2. QED
    BY <1>1, <1>2, <1>3, <1>4, <2>1
<1>7. QED
  BY <1>1, <1>2, <1>3, <1>5, <1>6 DEF r, q

(* What the reader has when it takes a byte: never a full buffer.          *)
LEMMA ReaderNow ==
  ASSUME TypeOK
  PROVE  /\ StateNow \in States
         /\ PosNow \in 0 .. Size - 1
         /\ StateNow = "WAITING" => PosNow = 0
BY SizeOfBuffer DEF TypeOK, States, StateNow, PosNow, Full

(* Every byte is taken in a type-correct way, whatever it is and whatever  *)
(* came before.                                                            *)
LEMMA PushKeepsTypes ==
  ASSUME TypeOK, NEW ch \in Int, ReaderPushChar(ch)
  PROVE  TypeOK'
<1> USE SizeOfBuffer
<1>1. /\ StateNow \in States /\ PosNow \in 0 .. Size - 1
      /\ StateNow = "WAITING" => PosNow = 0
  BY ReaderNow
<1>2. /\ ubx_payload_len \in 0 .. Size - 1
      /\ Size \in Nat \ {0}
  BY DEF TypeOK, PacketSizeNoPayload
<1>3. LengthWith(ch) \in 0 .. Size - 1
  <2>1. /\ ubx_payload_len + ch \in Int
        /\ ubx_payload_len + ch * Base \in Int
    BY <1>2
  <2>2. /\ (ubx_payload_len + ch) % Size \in 0 .. Size - 1
        /\ (ubx_payload_len + ch * Base) % Size \in 0 .. Size - 1
    BY ONLY <1>2, <2>1, Remainder
  <2>3. QED
    BY <1>2, <2>2 DEF LengthWith
<1>4. /\ StateWith(ch) \in States
      /\ StateWith(ch) = "WAITING" => StateNow = "WAITING"
  BY <1>1 DEF StateWith, States
<1>5. StoreAt(ch) \in 0 .. Size - 1 /\ StoreAt(ch) + 1 \in 1 .. Size
  BY <1>1, <1>2 DEF StoreAt
<1>6. CASE EndsSentence(ch)
  BY <1>1, <1>2, <1>6 DEF ReaderPushChar, EndSentence, TypeOK, States
<1>7. CASE ~EndsSentence(ch)
  <2> DEFINE state == StateWith(ch)
             pos == StoreAt(ch) + 1
             frameLen == LengthWith(ch)
  <2>1. Store(ch)
    BY <1>7 DEF ReaderPushChar
  <2>2. CASE EndFrame(pos, frameLen)
    BY <1>2, <1>5, <2>2 DEF EndFrame, TypeOK, States, Nothing
  <2>3. CASE /\ put' = Nothing
             /\ mReaderState' = state
             /\ mReaderBufPos' = IF state = "WAITING" THEN PosNow ELSE pos
             /\ ubx_payload_len' = frameLen
    <3> HIDE DEF state, pos, frameLen
    <3>1. put'.len < Size
      BY <1>2, <2>3 DEF Nothing
    <3>2. QED
      BY <1>1, <1>2, <1>3, <1>4, <1>5, <2>3, <3>1 DEF TypeOK, state, pos, frameLen
  <2>4. QED
    BY <2>1, <2>2, <2>3 DEF Store
<1>8. QED
  BY <1>6, <1>7

(* A payload is shorter than the buffer, and a frame at most as long.      *)
LEMMA PayloadFits ==
  ASSUME NEW frameLen \in PayloadLens
  PROVE  frameLen \in Nat /\ frameLen + 8 <= Size /\ frameLen \in 0 .. Size - 1
<1>1. frameLen \in 0 .. Size - 8
  BY PayloadsAssumption DEF PacketSizeNoPayload
<1>2. Size \in Nat
  BY SizeOfBuffer
<1>3. QED
  BY <1>1, <1>2

(* What the receiver has sent of a frame.                                  *)
LEMMA FrameLine ==
  ASSUME LineOK, line # Idle, line.kind = "ubx"
  PROVE  /\ line \in [kind : {"ubx"}, payload : PayloadLens, sent : Nat]
         /\ line.payload \in PayloadLens
         /\ line.sent \in Nat /\ line.sent >= 1
         /\ line.sent < line.payload + 8
<1>1. line \notin [kind : {"nmea"}, payload : {0}, sent : Nat]
  OBVIOUS
<1>2. /\ line \in [kind : {"ubx"}, payload : PayloadLens, sent : Nat]
      /\ line.sent >= 1 /\ line.sent < line.payload + PacketSizeNoPayload
  BY <1>1 DEF LineOK
<1>3. QED
  BY <1>2 DEF PacketSizeNoPayload

(* Bytes are numbers, whoever sends them.                                  *)
LEMMA NextBytesAreBytes ==
  ASSUME LineOK, line # Idle
  PROVE  NextBytes \subseteq Bytes
<1>1. CASE line.kind = "nmea"
  BY <1>1, BytesAssumption DEF NextBytes
<1>2. CASE line.kind = "ubx"
  <2>1. line.payload \in 0 .. Size - 1
    BY <1>2, FrameLine, PayloadFits
  <2>2. {line.payload % Base} \subseteq Bytes
        /\ {line.payload \div Base} \subseteq Bytes
    BY <2>1, TwoBytes DEF Bytes
  <2>3. {Sync2} \subseteq Bytes /\ Plain \subseteq Bytes
        /\ PayloadBytes \subseteq Bytes
    BY BytesAssumption
  <2>4. NextBytes \in {{Sync2}, Plain, {line.payload % Base},
                       {line.payload \div Base}, PayloadBytes}
    BY <1>2 DEF NextBytes
  <2>5. QED
    BY <2>2, <2>3, <2>4
<1>3. QED
  BY <1>1, <1>2 DEF LineOK, Idle

LEMMA TypeStep ==
  ASSUME TypeOK, LineOK, [Next]_vars
  PROVE  TypeOK'
<1>1. Bytes \subseteq Int
  BY BaseAssumption DEF Bytes
<1>2. CASE BeginAny
  <2>1. PICK ch \in {Dollar, Sync1} : ReaderPushChar(ch)
    BY <1>2 DEF BeginAny, Begin
  <2>2. ch \in Int
    BY <1>1, BytesAssumption
  <2>3. QED
    BY <2>1, <2>2, PushKeepsTypes
<1>3. CASE SendByte
  <2>1. PICK ch \in NextBytes : ReaderPushChar(ch)
    BY <1>3 DEF SendByte
  <2>2. ch \in Int
    BY <1>1, <1>3, NextBytesAreBytes DEF SendByte
  <2>3. QED
    BY <2>1, <2>2, PushKeepsTypes
<1>4. CASE LoseByte
  BY <1>4, SizeOfBuffer DEF LoseByte, TypeOK, Nothing, PacketSizeNoPayload
<1>5. CASE AddByte
  <2>1. PICK ch \in Bytes : ReaderPushChar(ch)
    BY <1>5 DEF AddByte
  <2>2. QED
    BY <1>1, <2>1, PushKeepsTypes
<1>6. CASE UNCHANGED vars
  BY <1>6 DEF vars, readerVars, TypeOK
<1>7. QED
  BY <1>2, <1>3, <1>4, <1>5, <1>6 DEF Next

(* A message goes on by a byte or ends with its last.                      *)
LEMMA SentGives ==
  ASSUME LineOK, line # Idle, NEW ch
  PROVE  /\ Last(ch) => Sent(ch) = Idle
         /\ ~Last(ch) => /\ Sent(ch) # Idle
                         /\ Sent(ch).kind = line.kind
                         /\ Sent(ch).payload = line.payload
                         /\ Sent(ch).sent = line.sent + 1
BY DEF LineOK, Idle, Sent

LEMMA LineStep ==
  ASSUME LineOK, [Next]_vars
  PROVE  LineOK'
<1>1. CASE BeginAny
  <2>1. CASE Begin("nmea", 0)
    BY <2>1 DEF Begin, LineOK
  <2>2. ASSUME NEW frameLen \in PayloadLens, Begin("ubx", frameLen)
        PROVE  LineOK'
    <3>1. frameLen \in Nat
      BY PayloadsAssumption, SizeOfBuffer DEF PacketSizeNoPayload
    <3>2. 1 < frameLen + PacketSizeNoPayload
      BY <3>1 DEF PacketSizeNoPayload
    <3>3. QED
      BY <2>2, <3>2 DEF Begin, LineOK
  <2>3. QED
    BY <1>1, <2>1, <2>2 DEF BeginAny
<1>2. CASE SendByte \/ LoseByte
  <2>1. line # Idle
    BY <1>2 DEF SendByte, LoseByte
  <2>2. PICK ch \in NextBytes : line' = Sent(ch)
    BY <1>2 DEF SendByte, LoseByte
  <2>3. CASE Last(ch)
    BY <2>2, <2>3 DEF Sent, LineOK
  <2>4. CASE ~Last(ch)
    <3>1. line' = [line EXCEPT !.sent = line.sent + 1]
      BY <2>2, <2>4 DEF Sent
    <3>2. CASE line.kind = "nmea"
      BY <2>1, <3>1, <3>2 DEF LineOK, Idle
    <3>3. CASE line.kind = "ubx"
      <4>1. /\ line \in [kind : {"ubx"}, payload : PayloadLens, sent : Nat]
            /\ line.sent < line.payload + PacketSizeNoPayload
            /\ line.payload \in Nat /\ line.sent \in Nat
        BY <2>1, <3>3, FrameLine, PayloadFits DEF PacketSizeNoPayload
      <4>2. line.sent # line.payload + PacketSizeNoPayload - 1
        BY <2>4, <3>3 DEF Last
      <4>3. line.sent + 1 < line.payload + PacketSizeNoPayload
        BY <4>1, <4>2 DEF PacketSizeNoPayload
      <4>4. /\ line' \in [kind : {"ubx"}, payload : PayloadLens, sent : Nat]
            /\ line'.sent = line.sent + 1 /\ line'.payload = line.payload
        BY <3>1, <4>1
      <4>5. line'.sent >= 1
        BY <4>1, <4>4
      <4>6. QED
        BY <4>3, <4>4, <4>5 DEF LineOK
    <3>4. QED
      BY <2>1, <3>2, <3>3 DEF LineOK
  <2>5. QED
    BY <2>3, <2>4
<1>3. CASE AddByte \/ UNCHANGED vars
  BY <1>3 DEF AddByte, vars, LineOK
<1>4. QED
  BY <1>1, <1>2, <1>3 DEF Next

-----------------------------------------------------------------------------
(* A byte of a sentence that is followed: its end is put with all before   *)
(* it, unless the buffer has been filled.                                  *)
LEMMA ByteOfSentence ==
  ASSUME TypeOK, InSentence, line.sent \in Nat, line.sent >= 1,
         NEW ch \in Plain \union {Eol}, ReaderPushChar(ch)
  PROVE  /\ ch = Eol =>
              put' = IF line.sent < Size
                     THEN [kind |-> "nmea", len |-> line.sent] ELSE Nothing
         /\ ch # Eol =>
              /\ put' = Nothing
              /\ IF line.sent + 1 <= Size
                 THEN mReaderState' = "CAPTURING_NMEA"
                      /\ mReaderBufPos' = line.sent + 1
                 ELSE mReaderState' = "WAITING"
<1> DEFINE n == line.sent
<1>1. Size \in Nat /\ n \in Nat /\ n >= 1 /\ Size > 8
  BY SizeOfBuffer DEF PacketSizeNoPayload
<1>2. ch # Dollar /\ ch # Sync1
  BY BytesAssumption
<1> HIDE DEF n
<1>3. CASE n < Size
  <2>1. StateNow = "CAPTURING_NMEA" /\ PosNow = n
    BY <1>1, <1>3 DEF InSentence, StateNow, PosNow, Full, n
  <2>2. CASE ch = Eol
    BY <1>3, <2>1, <2>2 DEF ReaderPushChar, EndsSentence, EndSentence, n
  <2>3. CASE ch # Eol
    <3>1. Store(ch)
      BY <2>3 DEF ReaderPushChar, EndsSentence
    <3>2. StateWith(ch) = "CAPTURING_NMEA" /\ StoreAt(ch) = n
      BY <1>2, <2>1 DEF StateWith, StoreAt
    <3>3. /\ put' = Nothing /\ mReaderState' = "CAPTURING_NMEA"
          /\ mReaderBufPos' = n + 1
      BY <3>1, <3>2 DEF Store
    <3>4. n + 1 <= Size
      BY <1>1, <1>3
    <3>5. QED
      BY <2>3, <3>3, <3>4 DEF n
  <2>4. QED
    BY <2>2, <2>3
<1>4. CASE ~(n < Size)
  <2>1. StateNow = "WAITING"
    BY <1>1, <1>4 DEF InSentence, StateNow, Full, n
  <2>2. Store(ch)
    BY <2>1 DEF ReaderPushChar, EndsSentence
  <2>3. StateWith(ch) = "WAITING"
    BY <1>2, <2>1 DEF StateWith
  <2>4. put' = Nothing /\ mReaderState' = "WAITING"
    BY <2>2, <2>3 DEF Store
  <2>5. ~(n + 1 <= Size)
    BY <1>1, <1>4
  <2>6. QED
    BY <1>4, <2>4, <2>5 DEF n
<1>5. QED
  BY <1>3, <1>4

(* The bytes of a frame that the reader looks at.                          *)
LEMMA NextByteOfFrame ==
  ASSUME line.kind = "ubx", line.sent \in Nat, NEW ch \in NextBytes
  PROVE  /\ line.sent = 1 => ch = Sync2
         /\ line.sent = LengthFirstByteNo => ch = line.payload % Base
         /\ line.sent = LengthSecondByteNo => ch = line.payload \div Base
BY DEF NextBytes, LengthFirstByteNo, LengthSecondByteNo

(* A byte of a frame that is followed: the length is the frame's, and the  *)
(* frame ends with its own last byte.                                      *)
LEMMA ByteOfFrame ==
  ASSUME TypeOK, LineOK, line # Idle, line.kind = "ubx", InFrame,
         NEW ch \in NextBytes, ReaderPushChar(ch)
  PROVE  /\ Last(ch) =>
              put' = IF line.sent + 1 < Size
                     THEN [kind |-> "ubx", len |-> line.sent + 1] ELSE Nothing
         /\ ~Last(ch) =>
              /\ put' = Nothing
              /\ mReaderState' = "CAPTURING_UBX"
              /\ mReaderBufPos' = line.sent + 1
              /\ line.sent + 1 <= LengthFirstByteNo => ubx_payload_len' = 0
              /\ line.sent + 1 = LengthSecondByteNo =>
                   ubx_payload_len' = line.payload % Base
              /\ line.sent + 1 > LengthSecondByteNo =>
                   ubx_payload_len' = line.payload
<1> DEFINE n == line.sent
           p == line.payload
<1>1. /\ n \in Nat /\ n >= 1 /\ n < p + 8
      /\ p \in Nat /\ p + 8 <= Size /\ p \in 0 .. Size - 1
      /\ Size \in Nat /\ Size > 8
  BY FrameLine, PayloadFits, SizeOfBuffer DEF PacketSizeNoPayload
<1>2. /\ mReaderBufPos = n
      /\ mReaderState = IF n = 1 THEN "WAITING_UBX_SYNC2" ELSE "CAPTURING_UBX"
      /\ n <= 4 => ubx_payload_len = 0
      /\ n = 5 => ubx_payload_len = p % Base
      /\ n > 5 => ubx_payload_len = p
  BY DEF InFrame, LengthFirstByteNo, LengthSecondByteNo
<1>3. /\ n = 1 => ch = Sync2
      /\ n = 4 => ch = p % Base
      /\ n = 5 => ch = p \div Base
  BY <1>1, NextByteOfFrame DEF LengthFirstByteNo, LengthSecondByteNo
<1>4. Last(ch) <=> n = p + 7
  BY <1>1 DEF Last, PacketSizeNoPayload
<1> HIDE DEF n, p
<1>5. /\ StateNow = IF n = 1 THEN "WAITING_UBX_SYNC2" ELSE "CAPTURING_UBX"
      /\ PosNow = n
  BY <1>1, <1>2 DEF StateNow, PosNow, Full
<1>6. StateWith(ch) = "CAPTURING_UBX" /\ StoreAt(ch) = n
  BY <1>3, <1>5 DEF StateWith, StoreAt
<1> DEFINE frameLen == LengthWith(ch)
<1>7. /\ n < 4 => frameLen = 0
      /\ n = 4 => frameLen = p % Base
      /\ n > 4 => frameLen = p
  <2>1. CASE n < 4
    BY <1>1, <1>2, <1>5, <2>1
    DEF LengthWith, LengthFirstByteNo, LengthSecondByteNo
  <2>2. CASE n = 4
    <3>1. frameLen = (0 + (p % Base)) % Size
      <4>1. StateNow = "CAPTURING_UBX" /\ PosNow = LengthFirstByteNo
        BY <1>5, <2>2 DEF LengthFirstByteNo
      <4>2. ubx_payload_len = 0 /\ ch = p % Base
        BY <1>2, <1>3, <2>2
      <4>3. QED
        BY <4>1, <4>2 DEF LengthWith, LengthFirstByteNo, LengthSecondByteNo
    <3>2. p % Base \in 0 .. Base - 1
      BY <1>1, TwoBytes
    <3>3. p % Base \in 0 .. Size - 1
      BY <3>2, SizeOfBuffer
    <3>4. (p % Base) % Size = p % Base
      BY <1>1, <3>3, SmallRemainder
    <3>5. 0 + (p % Base) = p % Base
      BY <3>2, SizeOfBuffer
    <3>6. QED
      BY <2>2, <3>1, <3>4, <3>5
  <2>3. CASE n = 5
    <3>1. frameLen = ((p % Base) + (p \div Base) * Base) % Size
      BY <1>2, <1>3, <1>5, <2>3
      DEF LengthWith, LengthFirstByteNo, LengthSecondByteNo
    <3>2. frameLen = p % Size
      BY <1>1, <3>1, TwoBytes
    <3>3. p % Size = p
      BY <1>1, SmallRemainder
    <3>4. QED
      BY <2>3, <3>2, <3>3
  <2>4. CASE n > 5
    BY <1>1, <1>2, <1>5, <2>4
    DEF LengthWith, LengthFirstByteNo, LengthSecondByteNo
  <2>5. QED
    BY <1>1, <2>1, <2>2, <2>3, <2>4
<1>8. frameLen \in Nat
  BY <1>1, <1>7, TwoBytes, SizeOfBuffer
<1>9. FrameEnds(n + 1, frameLen) <=> n = p + 7
  BY <1>1, <1>7, <1>8 DEF FrameEnds, PacketSizeNoPayload
<1>10. Store(ch)
  BY <1>5 DEF ReaderPushChar, EndsSentence
<1> HIDE DEF frameLen
<1>11. CASE n = p + 7
  <2>1. EndFrame(n + 1, frameLen)
    BY <1>6, <1>9, <1>10, <1>11 DEF Store, frameLen
  <2>2. QED
    BY <1>4, <1>11, <2>1 DEF EndFrame, n
<1>12. CASE n # p + 7
  <2>1. /\ put' = Nothing /\ mReaderState' = "CAPTURING_UBX"
        /\ mReaderBufPos' = n + 1 /\ ubx_payload_len' = frameLen
    BY <1>6, <1>9, <1>10, <1>12 DEF Store, frameLen
  <2>2. /\ n + 1 <= 4 => frameLen = 0
        /\ n + 1 = 5 => frameLen = p % Base
        /\ n + 1 > 5 => frameLen = p
    BY <1>1, <1>7
  <2>3. QED
    BY <1>4, <1>12, <2>1, <2>2
    DEF LengthFirstByteNo, LengthSecondByteNo, n, p
<1>13. QED
  BY <1>11, <1>12

(* A message that begins while the reader is at rest is followed from its  *)
(* first byte.                                                             *)
LEMMA FirstByte ==
  ASSUME TypeOK, AtRest, NEW ch \in {Dollar, Sync1}, ReaderPushChar(ch)
  PROVE  /\ mReaderState' = IF ch = Dollar THEN "CAPTURING_NMEA"
                            ELSE "WAITING_UBX_SYNC2"
         /\ mReaderBufPos' = 1
         /\ ubx_payload_len' = 0
<1>1. StateNow = "WAITING" /\ PosNow = 0 /\ ubx_payload_len = 0
  BY ReaderNow DEF AtRest
<1>2. Store(ch)
  BY <1>1 DEF ReaderPushChar, EndsSentence
<1>3. StateWith(ch) = IF ch = Dollar THEN "CAPTURING_NMEA"
                      ELSE "WAITING_UBX_SYNC2"
  BY <1>1, BytesAssumption DEF StateWith
<1>4. StoreAt(ch) = 0 /\ LengthWith(ch) = 0
  BY <1>1 DEF StoreAt, LengthWith
<1>5. QED
  BY <1>2, <1>3, <1>4 DEF Store

(* The receiver sends what is due of a sentence: its end is the last byte. *)
LEMMA NextByteOfSentence ==
  ASSUME LineOK, line # Idle, line.kind = "nmea", NEW ch \in NextBytes
  PROVE  /\ ch \in Plain \union {Eol}
         /\ Last(ch) <=> ch = Eol
         /\ line.sent \in Nat /\ line.sent >= 1
<1>1. line \notin [kind : {"ubx"}, payload : PayloadLens, sent : Nat]
  OBVIOUS
<1>2. line.sent \in Nat /\ line.sent >= 1
  BY <1>1 DEF LineOK
<1>3. QED
  BY <1>2 DEF NextBytes, Last

(* Whatever has been lost or added, a clean message is being followed.     *)
LEMMA FollowStep ==
  ASSUME TypeOK, LineOK, CleanIsFollowed, [Next]_vars
  PROVE  CleanIsFollowed'
<1>1. ASSUME NEW kind \in {"nmea", "ubx"}, NEW p, Begin(kind, p)
      PROVE  CleanIsFollowed'
  <2>1. /\ line'.kind = kind /\ line'.sent = 1 /\ line'.payload = p
        /\ clean' = AtRest
        /\ ReaderPushChar(IF kind = "nmea" THEN Dollar ELSE Sync1)
    BY <1>1 DEF Begin
  <2>2. CASE ~AtRest
    BY <2>1, <2>2 DEF CleanIsFollowed
  <2>3. CASE AtRest
    <3>1. /\ mReaderState' = IF kind = "nmea" THEN "CAPTURING_NMEA"
                             ELSE "WAITING_UBX_SYNC2"
          /\ mReaderBufPos' = 1
          /\ ubx_payload_len' = 0
      BY <2>1, <2>3, FirstByte, BytesAssumption
    <3>2. kind = "nmea" => InSentence'
      BY <2>1, <3>1, SizeOfBuffer DEF InSentence, PacketSizeNoPayload
    <3>3. kind = "ubx" => InFrame'
      BY <2>1, <3>1 DEF InFrame, LengthFirstByteNo, LengthSecondByteNo
    <3>4. QED
      BY <2>1, <3>2, <3>3 DEF CleanIsFollowed
  <2>4. QED
    BY <2>2, <2>3
<1>2. CASE SendByte
  <2>1. /\ line # Idle /\ clean' = clean
    BY <1>2 DEF SendByte
  <2>2. PICK ch \in NextBytes : line' = Sent(ch) /\ ReaderPushChar(ch)
    BY <1>2 DEF SendByte
  <2>3. CASE ~clean \/ Last(ch)
    BY <2>1, <2>2, <2>3, SentGives DEF CleanIsFollowed
  <2>4. CASE clean /\ ~Last(ch)
    <3>1. /\ line' # Idle /\ line'.kind = line.kind
          /\ line'.payload = line.payload /\ line'.sent = line.sent + 1
      BY <2>1, <2>2, <2>4, SentGives
    <3>2. CASE line.kind = "nmea"
      <4>1. /\ ch \in Plain \union {Eol} /\ ch # Eol
            /\ line.sent \in Nat /\ line.sent >= 1
        BY <2>1, <2>4, <3>2, NextByteOfSentence
      <4>2. InSentence
        BY <2>1, <2>4, <3>2 DEF CleanIsFollowed
      <4>3. IF line.sent + 1 <= Size
            THEN mReaderState' = "CAPTURING_NMEA"
                 /\ mReaderBufPos' = line.sent + 1
            ELSE mReaderState' = "WAITING"
        BY <2>2, <4>1, <4>2, ByteOfSentence
      <4>4. InSentence'
        BY <3>1, <4>3 DEF InSentence, Size
      <4>5. QED
        BY <3>1, <3>2, <4>4 DEF CleanIsFollowed
    <3>3. CASE line.kind = "ubx"
      <4>1. InFrame
        BY <2>1, <2>4, <3>3 DEF CleanIsFollowed
      <4>2. /\ mReaderState' = "CAPTURING_UBX"
            /\ mReaderBufPos' = line.sent + 1
            /\ line.sent + 1 <= LengthFirstByteNo => ubx_payload_len' = 0
            /\ line.sent + 1 = LengthSecondByteNo =>
                 ubx_payload_len' = line.payload % Base
            /\ line.sent + 1 > LengthSecondByteNo =>
                 ubx_payload_len' = line.payload
        BY <2>1, <2>2, <2>4, <3>3, <4>1, ByteOfFrame
      <4>3. line.sent + 1 # 1
        BY <2>1, <3>3, FrameLine
      <4>4. InFrame'
        BY <3>1, <4>2, <4>3 DEF InFrame
      <4>5. QED
        BY <3>1, <3>3, <4>4 DEF CleanIsFollowed
    <3>4. QED
      BY <2>1, <3>2, <3>3 DEF LineOK
  <2>5. QED
    BY <2>3, <2>4
<1>3. CASE LoseByte
  BY <1>3 DEF LoseByte, CleanIsFollowed
<1>4. CASE AddByte
  BY <1>4 DEF AddByte, CleanIsFollowed
<1>5. CASE UNCHANGED vars
  BY <1>5 DEF vars, readerVars, CleanIsFollowed, InSentence, InFrame
<1>6. QED
  BY <1>1, <1>2, <1>3, <1>4, <1>5 DEF Next, BeginAny

(* The inductive invariant holds whatever the line loses and adds.         *)
THEOREM Invariant == Spec => []IInv
<1>1. Init => IInv
  <2> SUFFICES ASSUME Init
               PROVE  IInv
    OBVIOUS
  <2>1. TypeOK
    BY SizeOfBuffer DEF Init, TypeOK, States, Nothing, PacketSizeNoPayload
  <2>2. QED
    BY <2>1 DEF Init, IInv, LineOK, CleanIsFollowed
<1>2. IInv /\ [Next]_vars => IInv'
  <2> SUFFICES ASSUME IInv, [Next]_vars
               PROVE  IInv'
    OBVIOUS
  <2>1. TypeOK' /\ LineOK' /\ CleanIsFollowed'
    BY TypeStep, LineStep, FollowStep DEF IInv
  <2>2. clean' \in BOOLEAN
    BY DEF IInv, Next, BeginAny, Begin, AtRest, SendByte, LoseByte, AddByte,
           vars
  <2>3. QED
    BY <2>1, <2>2 DEF IInv
<1>3. QED
  BY <1>1, <1>2, PTL DEF Spec

(* The reader stays inside its buffer and starts every message with an     *)
(* empty one: TypeOK holds.                                                *)
THEOREM TypeCorrect == Spec => []TypeOK
<1>1. IInv => TypeOK
  BY DEF IInv
<1>2. QED
  BY <1>1, Invariant, PTL

(* A sentence or frame that meets a reader at rest and loses no byte is    *)
(* put whole by its last byte: CleanIsPutWhole holds.                      *)
THEOREM CleanIsPut == Spec => CleanIsPutWhole
<1> DEFINE PutWhole ==
      clean /\ line # Idle /\ clean' =>
        LET frameLen == IF line.kind = "nmea" THEN line.sent ELSE line.sent + 1
        IN put' = IF line' # Idle \/ frameLen >= Size THEN Nothing
                  ELSE [kind |-> line.kind, len |-> frameLen]
<1>1. IInv /\ [Next]_vars => [PutWhole]_vars
  <2> SUFFICES ASSUME IInv, Next, clean, line # Idle, clean'
               PROVE  PutWhole
    BY DEF vars
  <2>1. SendByte
    BY DEF Next, BeginAny, Begin, LoseByte, AddByte
  <2>2. PICK ch \in NextBytes : line' = Sent(ch) /\ ReaderPushChar(ch)
    BY <2>1 DEF SendByte
  <2>3. line' # Idle <=> ~Last(ch)
    BY <2>2, SentGives DEF IInv
  <2>4. CASE line.kind = "nmea"
    <3>1. InSentence
      BY <2>4 DEF IInv, CleanIsFollowed
    <3>2. /\ ch \in Plain \union {Eol}
          /\ Last(ch) <=> ch = Eol
          /\ line.sent \in Nat /\ line.sent >= 1
      BY <2>4, NextByteOfSentence DEF IInv
    <3>3. /\ ch = Eol =>
               put' = IF line.sent < Size
                      THEN [kind |-> "nmea", len |-> line.sent] ELSE Nothing
          /\ ch # Eol => put' = Nothing
      BY <2>2, <3>1, <3>2, ByteOfSentence DEF IInv
    <3>4. line.sent < Size <=> ~(line.sent >= Size)
      BY <3>2, SizeOfBuffer
    <3>5. QED
      BY <2>3, <2>4, <3>2, <3>3, <3>4
  <2>5. CASE line.kind = "ubx"
    <3>1. InFrame
      BY <2>5 DEF IInv, CleanIsFollowed
    <3>2. /\ Last(ch) =>
               put' = IF line.sent + 1 < Size
                      THEN [kind |-> "ubx", len |-> line.sent + 1]
                      ELSE Nothing
          /\ ~Last(ch) => put' = Nothing
      BY <2>2, <2>5, <3>1, ByteOfFrame DEF IInv
    <3>3. line.sent + 1 < Size <=> ~(line.sent + 1 >= Size)
      BY <2>5, FrameLine, SizeOfBuffer DEF IInv
    <3>4. QED
      BY <2>3, <2>5, <3>2, <3>3
  <2>6. QED
    BY <2>4, <2>5 DEF IInv, LineOK
<1>2. QED
  BY <1>1, Invariant, PTL DEF Spec, CleanIsPutWhole

-----------------------------------------------------------------------------
(* The machine, with the types of its fields.                              *)
Machines ==
    [state : UbxStates, rx_payload_len : Nat, rx_payload_ptr : Nat,
     rx_checksum_a : Int, rx_checksum_b : Int,
     rx_exp_checksum_a : Int, rx_exp_checksum_b : Int,
     buffer_ptr : Nat, msg_payload : Nat \union {NoPayload}]

(* The bytes of the element that a state has behind it at least.           *)
Behind(state) ==
    CASE state = "SYNC1" -> 0
      [] state = "SYNC2" -> 1
      [] state = "CLASS" -> 2
      [] state = "ID" -> 3
      [] state = "LENGTH1" -> 4
      [] state = "LENGTH2" -> 5
      [] OTHER -> 6

(* The bytes behind the payload that a state has taken.                    *)
Trailer(state) == CASE state = "CHECKSUM1" -> 0
                    [] state = "CHECKSUM2" -> 1
                    [] state = "FINISH" -> 2

Ending == {"CHECKSUM1", "CHECKSUM2", "FINISH"}
Beginning == UbxStates \ ({"PAYLOAD"} \union Ending)

(* Where the payload of machine m lies.                                    *)
Placed(m) ==
    /\ m.buffer_ptr >= Behind(m.state)
    /\ m.state \in Beginning => m.rx_payload_ptr = 0
    /\ m.state \in Ending => m.rx_payload_ptr = m.rx_payload_len
    /\ m.state = "PAYLOAD" => /\ m.rx_payload_ptr < m.rx_payload_len
                              /\ m.rx_payload_ptr > 0 =>
                                   m.buffer_ptr = m.msg_payload + m.rx_payload_ptr
    /\ m.state \in Ending /\ m.rx_payload_len > 0 =>
         m.buffer_ptr >= m.msg_payload + m.rx_payload_len + Trailer(m.state)
    /\ IF m.rx_payload_ptr = 0 THEN m.msg_payload = NoPayload
       ELSE m.msg_payload >= 6

(* An element that begins with both sync bytes keeps the machine in step.  *)
InStep(m, payloadLen) ==
    /\ m.buffer_ptr = 0 => m.state = "SYNC1"
    /\ m.buffer_ptr = 1 => m.state = "SYNC2"
    /\ m.buffer_ptr = 2 => m.state = "CLASS"
    /\ m.buffer_ptr = 3 => m.state = "ID"
    /\ m.buffer_ptr = 4 => m.state = "LENGTH1"
    /\ m.buffer_ptr = 5 => m.state = "LENGTH2"
    /\ m.buffer_ptr >= 5 => m.rx_payload_len = payloadLen
    /\ m.buffer_ptr >= 6 =>
         /\ m.buffer_ptr < 6 + payloadLen =>
              m.state = "PAYLOAD" /\ m.rx_payload_ptr = m.buffer_ptr - 6
         /\ m.buffer_ptr = 6 + payloadLen => m.state = "CHECKSUM1"
         /\ m.buffer_ptr = 7 + payloadLen => m.state = "CHECKSUM2"
         /\ m.buffer_ptr >= 8 + payloadLen => m.state = "FINISH"
         /\ m.rx_payload_ptr > 0 => m.msg_payload = 6

ParserInv ==
    /\ mUM \in Machines /\ len \in Nat /\ mUM.buffer_ptr <= len
    /\ header \in [synced : BOOLEAN, payloadLen : Nat]
    /\ Placed(mUM)
    /\ mUM.buffer_ptr = 0 => header.synced
    /\ header.synced => InStep(mUM, header.payloadLen)

-----------------------------------------------------------------------------
(* The checksum is all that is changed with it.                            *)
LEMMA ChecksumAddGives ==
  ASSUME NEW m \in Machines, NEW ch \in Bytes
  PROVE  LET new == ChecksumAdd(m, ch)
         IN /\ new \in Machines
            /\ new.state = m.state /\ new.buffer_ptr = m.buffer_ptr
            /\ new.rx_payload_len = m.rx_payload_len
            /\ new.rx_payload_ptr = m.rx_payload_ptr
            /\ new.msg_payload = m.msg_payload
<1> DEFINE a == (m.rx_checksum_a + ch) % Base
           b == (m.rx_checksum_b + m.rx_checksum_a + ch) % Base
<1>1. Base \in Nat \ {0}
  BY ByteAssumption
<1>2. ch \in Int /\ m.rx_checksum_a \in Int /\ m.rx_checksum_b \in Int
  BY <1>1 DEF Bytes, Machines
<1>3. a \in Int /\ b \in Int
  BY <1>1, <1>2, Remainder
<1>4. ChecksumAdd(m, ch) = [m EXCEPT !.rx_checksum_a = a,
                                            !.rx_checksum_b = b]
  BY DEF ChecksumAdd
<1> HIDE DEF a, b
<1>5. QED
  BY <1>3, <1>4 DEF Machines
(* Machine m in another state, but for its checksums.                      *)
Like(new, m, state) ==
    /\ new \in Machines /\ new.state = state
    /\ new.buffer_ptr = m.buffer_ptr
    /\ new.rx_payload_len = m.rx_payload_len
    /\ new.rx_payload_ptr = m.rx_payload_ptr
    /\ new.msg_payload = m.msg_payload

LEMMA ToGives ==
  ASSUME NEW m \in Machines, NEW state \in UbxStates
  PROVE  Like(To(m, state), m, state)
BY DEF Like, Machines, To

(* Until the length and after the payload a byte changes the state only.   *)
LEMMA StateGives ==
  ASSUME NEW m \in Machines, NEW ch \in Bytes
  PROVE  LET new == Switch(m, ch)
         IN /\ m.state = "SYNC1" =>
                 Like(new, m, IF ch = Sync1 THEN "SYNC2" ELSE "SYNC1")
            /\ m.state = "SYNC2" =>
                 Like(new, m, IF ch = Sync2 THEN "CLASS" ELSE "SYNC2")
            /\ m.state = "CLASS" => Like(new, m, "ID")
            /\ m.state = "ID" => Like(new, m, "LENGTH1")
            /\ m.state = "CHECKSUM1" => Like(new, m, "CHECKSUM2")
            /\ m.state = "CHECKSUM2" => Like(new, m, "FINISH")
            /\ m.state = "FINISH" => Like(new, m, "FINISH")
<1> DEFINE sum == ChecksumAdd(m, ch)
           new == Switch(m, ch)
<1>1. ch \in Int
  BY ByteAssumption DEF Bytes
<1>2. Like(m, m, m.state) /\ Like(sum, m, m.state)
  BY ChecksumAddGives DEF Like
<1>3. /\ m.state = "SYNC1" =>
           new = IF ch = Sync1 THEN To(m, "SYNC2") ELSE m
      /\ m.state = "SYNC2" =>
           new = IF ch = Sync2 THEN To(m, "CLASS") ELSE m
      /\ m.state = "CLASS" => new = To(sum, "ID")
      /\ m.state = "ID" => new = To(sum, "LENGTH1")
      /\ m.state = "CHECKSUM1" =>
           new = [To(m, "CHECKSUM2") EXCEPT !.rx_exp_checksum_a = ch]
      /\ m.state = "CHECKSUM2" =>
           new = [To(m, "FINISH") EXCEPT !.rx_exp_checksum_b = ch]
      /\ m.state = "FINISH" => new = m
  BY Zenon DEF Switch
<1>4. \A state \in UbxStates :
        Like(To(m, state), m, state) /\ Like(To(sum, state), m, state)
  BY <1>2, ToGives DEF Like
<1> HIDE DEF new, sum
<1>5. {"SYNC2", "CLASS", "ID", "LENGTH1", "CHECKSUM2", "FINISH"}
        \subseteq UbxStates
  BY DEF UbxStates
<1>6. /\ m.state = "SYNC1" =>
           Like(new, m, IF ch = Sync1 THEN "SYNC2" ELSE "SYNC1")
      /\ m.state = "SYNC2" =>
           Like(new, m, IF ch = Sync2 THEN "CLASS" ELSE "SYNC2")
      /\ m.state = "CLASS" => Like(new, m, "ID")
      /\ m.state = "ID" => Like(new, m, "LENGTH1")
      /\ m.state = "FINISH" => Like(new, m, "FINISH")
  BY <1>2, <1>3, <1>4, <1>5
<1>7. ASSUME NEW state \in UbxStates
      PROVE  /\ Like([To(m, state) EXCEPT !.rx_exp_checksum_a = ch], m, state)
             /\ Like([To(m, state) EXCEPT !.rx_exp_checksum_b = ch], m, state)
  <2> DEFINE to == To(m, state)
  <2>1. Like(to, m, state)
    BY <1>4
  <2> HIDE DEF to
  <2>2. /\ Like([to EXCEPT !.rx_exp_checksum_a = ch], m, state)
        /\ Like([to EXCEPT !.rx_exp_checksum_b = ch], m, state)
    BY <1>1, <2>1 DEF Like, Machines
  <2>3. QED
    BY <2>2 DEF to
<1>8. /\ m.state = "CHECKSUM1" => Like(new, m, "CHECKSUM2")
      /\ m.state = "CHECKSUM2" => Like(new, m, "FINISH")
  BY <1>3, <1>5, <1>7
<1>9. QED
  BY <1>6, <1>8 DEF new

LEMMA Length1Gives ==
  ASSUME NEW m \in Machines, NEW ch \in Bytes, m.state = "LENGTH1"
  PROVE  LET new == Switch(m, ch)
         IN /\ new \in Machines /\ new.state = "LENGTH2"
            /\ new.rx_payload_len = ch
            /\ new.buffer_ptr = m.buffer_ptr
            /\ new.rx_payload_ptr = m.rx_payload_ptr
            /\ new.msg_payload = m.msg_payload
<1> DEFINE to == To(ChecksumAdd(m, ch), "LENGTH2")
<1>1. ch \in Nat
  BY ByteAssumption DEF Bytes
<1>2. Like(to, m, "LENGTH2")
  BY ChecksumAddGives, ToGives DEF Like, UbxStates
<1>3. Switch(m, ch) = [to EXCEPT !.rx_payload_len = ch]
  BY Zenon DEF Switch
<1> HIDE DEF to
<1>4. QED
  BY <1>1, <1>2, <1>3 DEF Like, Machines

LEMMA Length2Gives ==
  ASSUME NEW m \in Machines, NEW ch \in Bytes, m.state = "LENGTH2"
  PROVE  LET new == Switch(m, ch)
             n == m.rx_payload_len + ch * Base
         IN /\ n \in Nat
            /\ new \in Machines
            /\ new.state = IF n = 0 THEN "CHECKSUM1" ELSE "PAYLOAD"
            /\ new.rx_payload_len = n
            /\ new.buffer_ptr = m.buffer_ptr
            /\ new.rx_payload_ptr = m.rx_payload_ptr
            /\ new.msg_payload = m.msg_payload
<1> DEFINE sum == ChecksumAdd(m, ch)
           n == m.rx_payload_len + ch * Base
           state == IF n = 0 THEN "CHECKSUM1" ELSE "PAYLOAD"
           new == Switch(m, ch)
<1>1. ch * Base \in Nat
  <2>1. ch \in Nat /\ Base \in Nat
    BY ByteAssumption DEF Bytes
  <2>2. QED
    BY <2>1
<1>2. n \in Nat
  BY <1>1 DEF Machines
<1>3. Like(sum, m, m.state)
  BY ChecksumAddGives DEF Like
<1>4. new = Length2(sum, ch)
  BY Zenon DEF Switch
<1>5. new = [sum EXCEPT !.rx_payload_len = n, !.state = state]
  BY <1>3, <1>4 DEF Length2, Like
<1> HIDE DEF sum, n, new
<1>6. state \in UbxStates
  BY DEF UbxStates
<1> HIDE DEF state
<1>7. /\ new \in Machines /\ new.state = state /\ new.rx_payload_len = n
      /\ new.buffer_ptr = m.buffer_ptr
      /\ new.rx_payload_ptr = m.rx_payload_ptr
      /\ new.msg_payload = m.msg_payload
  BY <1>2, <1>3, <1>5, <1>6 DEF Like, Machines
<1>8. QED
  BY <1>2, <1>7 DEF n, new, state

LEMMA PayloadGives ==
  ASSUME NEW m \in Machines, NEW ch \in Bytes, m.state = "PAYLOAD"
  PROVE  LET new == Switch(m, ch)
         IN /\ new \in Machines
            /\ new.state = IF m.rx_payload_ptr + 1 = m.rx_payload_len
                           THEN "CHECKSUM1" ELSE "PAYLOAD"
            /\ new.rx_payload_len = m.rx_payload_len
            /\ new.buffer_ptr = m.buffer_ptr
            /\ new.rx_payload_ptr = m.rx_payload_ptr + 1
            /\ new.msg_payload = IF m.msg_payload = NoPayload
                                 THEN m.buffer_ptr ELSE m.msg_payload
<1> DEFINE sum == ChecksumAdd(m, ch)
           payload == IF m.msg_payload = NoPayload
                      THEN m.buffer_ptr ELSE m.msg_payload
           state == IF m.rx_payload_ptr + 1 = m.rx_payload_len
                    THEN "CHECKSUM1" ELSE "PAYLOAD"
           new == Switch(m, ch)
<1>1. Like(sum, m, m.state)
  BY ChecksumAddGives DEF Like
<1>2. new = Payload(sum)
  BY Zenon DEF Switch
<1> HIDE DEF sum
<1>3. new = [sum EXCEPT !.msg_payload = payload,
                        !.rx_payload_ptr = m.rx_payload_ptr + 1,
                        !.state = state]
  <2>1. /\ sum.msg_payload = m.msg_payload /\ sum.buffer_ptr = m.buffer_ptr
        /\ sum.rx_payload_ptr = m.rx_payload_ptr
        /\ sum.rx_payload_len = m.rx_payload_len
    BY <1>1 DEF Like
  <2>2. QED
    BY <1>2, <2>1, Zenon DEF Payload
<1> HIDE DEF new
<1>4. /\ state \in UbxStates /\ payload \in Nat \union {NoPayload}
      /\ m.rx_payload_ptr + 1 \in Nat
  BY DEF UbxStates, Machines
<1> HIDE DEF state, payload
<1>5. /\ new \in Machines /\ new.state = state
      /\ new.rx_payload_len = m.rx_payload_len
      /\ new.buffer_ptr = m.buffer_ptr
      /\ new.rx_payload_ptr = m.rx_payload_ptr + 1
      /\ new.msg_payload = payload
  BY <1>1, <1>3, <1>4 DEF Like, Machines
<1>6. QED
  BY <1>5 DEF new, state, payload

(* A byte keeps the payload where it is.                                   *)
LEMMA ByteKeepsPlace ==
  ASSUME NEW m \in Machines, NEW ch \in Bytes, Placed(m)
  PROVE  LET new == [Switch(m, ch) EXCEPT !.buffer_ptr = @ + 1]
         IN /\ new \in Machines /\ new.buffer_ptr = m.buffer_ptr + 1
            /\ Placed(new)
<1> DEFINE to == Switch(m, ch)
           new == [to EXCEPT !.buffer_ptr = @ + 1]
<1> USE DEF Beginning, Ending, Behind, Trailer, UbxStates,
            NoPayload
<1>1. ASSUME to \in Machines, to.buffer_ptr = m.buffer_ptr
      PROVE  /\ new \in Machines /\ new.buffer_ptr = m.buffer_ptr + 1
             /\ new.state = to.state
             /\ new.rx_payload_len = to.rx_payload_len
             /\ new.rx_payload_ptr = to.rx_payload_ptr
             /\ new.msg_payload = to.msg_payload
  BY <1>1 DEF Machines
<1> SUFFICES /\ new \in Machines /\ new.buffer_ptr = m.buffer_ptr + 1
             /\ Placed(new)
  BY Zenon
<1> HIDE DEF new
<1>2. /\ m.state \in UbxStates /\ m.buffer_ptr \in Nat
      /\ m.rx_payload_len \in Nat /\ m.rx_payload_ptr \in Nat
      /\ m.msg_payload \in Nat \union {NoPayload}
  BY DEF Machines
<1>3. CASE m.state \in Beginning \ {"LENGTH1", "LENGTH2"}
  <2>1. /\ Like(to, m, to.state)
        /\ to.state \in Beginning /\ Behind(to.state) <= Behind(m.state) + 1
    BY <1>3, StateGives DEF Like
  <2> HIDE DEF to
  <2>2. QED
    BY <1>1, <1>2, <1>3, <2>1 DEF Placed, Like
<1>4. CASE m.state = "LENGTH1"
  <2>1. /\ to \in Machines /\ to.state = "LENGTH2"
        /\ to.buffer_ptr = m.buffer_ptr /\ to.rx_payload_len \in Nat
        /\ to.rx_payload_ptr = m.rx_payload_ptr
        /\ to.msg_payload = m.msg_payload
    BY <1>4, Length1Gives DEF Machines
  <2> HIDE DEF to
  <2>2. QED
    BY <1>1, <1>2, <1>4, <2>1 DEF Placed
<1>5. CASE m.state = "LENGTH2"
  <2>1. /\ to \in Machines
        /\ to.state = IF to.rx_payload_len = 0 THEN "CHECKSUM1" ELSE "PAYLOAD"
        /\ to.buffer_ptr = m.buffer_ptr /\ to.rx_payload_len \in Nat
        /\ to.rx_payload_ptr = m.rx_payload_ptr
        /\ to.msg_payload = m.msg_payload
    BY <1>5, Length2Gives
  <2> HIDE DEF to
  <2>2. QED
    BY <1>1, <1>2, <1>5, <2>1 DEF Placed
<1>6. CASE m.state = "PAYLOAD"
  <2>1. /\ to \in Machines
        /\ to.state = IF m.rx_payload_ptr + 1 = m.rx_payload_len
                      THEN "CHECKSUM1" ELSE "PAYLOAD"
        /\ to.buffer_ptr = m.buffer_ptr /\ to.rx_payload_len = m.rx_payload_len
        /\ to.rx_payload_ptr = m.rx_payload_ptr + 1
        /\ to.msg_payload = IF m.msg_payload = NoPayload
                            THEN m.buffer_ptr ELSE m.msg_payload
    BY <1>6, PayloadGives
  <2> HIDE DEF to
  <2>2. QED
    BY <1>1, <1>2, <1>6, <2>1 DEF Placed
<1>7. CASE m.state \in Ending
  <2>1. /\ Like(to, m, to.state)
        /\ to.state \in Ending /\ Trailer(to.state) <= Trailer(m.state) + 1
    BY <1>7, StateGives DEF Like
  <2> HIDE DEF to
  <2>2. QED
    BY <1>1, <1>2, <1>7, <2>1 DEF Placed, Like
<1>8. QED
  BY <1>2, <1>3, <1>4, <1>5, <1>6, <1>7

(* A byte of an element that begins with both sync bytes keeps the machine *)
(* in step with it.                                                        *)
LEMMA ByteKeepsStep ==
  ASSUME NEW m \in Machines, NEW ch \in Bytes, Placed(m),
         NEW payloadLen \in Nat, InStep(m, payloadLen),
         m.buffer_ptr = 0 => ch = Sync1,
         m.buffer_ptr = 1 => ch = Sync2
  PROVE  LET new == [Switch(m, ch) EXCEPT !.buffer_ptr = @ + 1]
         IN InStep(new, CASE m.buffer_ptr = 4 -> ch
                          [] m.buffer_ptr = 5 -> payloadLen + ch * Base
                          [] OTHER -> payloadLen)
<1> DEFINE to == Switch(m, ch)
           new == [to EXCEPT !.buffer_ptr = @ + 1]
           newLen == CASE m.buffer_ptr = 4 -> ch
                       [] m.buffer_ptr = 5 -> payloadLen + ch * Base
                       [] OTHER -> payloadLen
<1> SUFFICES InStep(new, newLen)
  BY Zenon
<1>1. ASSUME to \in Machines, to.buffer_ptr = m.buffer_ptr
      PROVE  /\ new.buffer_ptr = m.buffer_ptr + 1
             /\ new.state = to.state
             /\ new.rx_payload_len = to.rx_payload_len
             /\ new.rx_payload_ptr = to.rx_payload_ptr
             /\ new.msg_payload = to.msg_payload
  BY <1>1 DEF Machines
<1>2. /\ m.state \in UbxStates /\ m.buffer_ptr \in Nat
      /\ m.rx_payload_len \in Nat /\ m.rx_payload_ptr \in Nat
      /\ m.msg_payload \in Nat \union {NoPayload}
      /\ ch \in Nat /\ ch * Base \in Nat
  <2>1. ch \in Nat /\ Base \in Nat
    BY ByteAssumption DEF Bytes
  <2>2. QED
    BY <2>1 DEF Machines
<1> HIDE DEF new, newLen
<1>3. CASE m.buffer_ptr = 0
  <2>1. Like(to, m, "SYNC2")
    BY <1>3, StateGives DEF InStep
  <2> HIDE DEF to
  <2>2. QED
    BY <1>1, <1>3, <2>1 DEF InStep, Like
<1>4. CASE m.buffer_ptr = 1
  <2>1. Like(to, m, "CLASS")
    BY <1>4, StateGives DEF InStep
  <2> HIDE DEF to
  <2>2. QED
    BY <1>1, <1>4, <2>1 DEF InStep, Like
<1>5. CASE m.buffer_ptr = 2
  <2>1. Like(to, m, "ID")
    BY <1>5, StateGives DEF InStep
  <2> HIDE DEF to
  <2>2. QED
    BY <1>1, <1>5, <2>1 DEF InStep, Like
<1>6. CASE m.buffer_ptr = 3
  <2>1. Like(to, m, "LENGTH1")
    BY <1>6, StateGives DEF InStep
  <2> HIDE DEF to
  <2>2. QED
    BY <1>1, <1>6, <2>1 DEF InStep, Like
<1>7. CASE m.buffer_ptr = 4
  <2>1. newLen = ch
    BY <1>7 DEF newLen
  <2>2. m.state = "LENGTH1"
    BY <1>7 DEF InStep
  <2>3. /\ to \in Machines /\ to.state = "LENGTH2"
        /\ to.rx_payload_len = ch /\ to.buffer_ptr = m.buffer_ptr
    BY <2>2, Length1Gives
  <2> HIDE DEF to
  <2>4. QED
    BY <1>1, <1>7, <2>1, <2>3 DEF InStep
<1>8. CASE m.buffer_ptr = 5
  <2>1. newLen = payloadLen + ch * Base /\ newLen \in Nat
    BY <1>2, <1>8 DEF newLen
  <2>2. m.state = "LENGTH2" /\ m.rx_payload_len = payloadLen
    BY <1>2, <1>8 DEF InStep
  <2>3. /\ to \in Machines /\ to.rx_payload_len = newLen
        /\ to.state = IF newLen = 0 THEN "CHECKSUM1" ELSE "PAYLOAD"
        /\ to.buffer_ptr = m.buffer_ptr
        /\ to.rx_payload_ptr = m.rx_payload_ptr
    BY <2>1, <2>2, Length2Gives
  <2>4. m.rx_payload_ptr = 0
    BY <2>2 DEF Placed, Beginning, Ending, UbxStates
  <2> HIDE DEF to
  <2>5. QED
    BY <1>1, <1>8, <2>1, <2>3, <2>4 DEF InStep
<1>9. CASE m.buffer_ptr >= 6
  <2>1. newLen = payloadLen
    BY <1>2, <1>9 DEF newLen
  <2>2. m.rx_payload_len = payloadLen
    BY <1>2, <1>9 DEF InStep
  <2>3. CASE m.buffer_ptr < 6 + payloadLen
    <3>1. m.state = "PAYLOAD" /\ m.rx_payload_ptr = m.buffer_ptr - 6
      BY <1>9, <2>3 DEF InStep
    <3>2. /\ to \in Machines
          /\ to.state = IF m.rx_payload_ptr + 1 = m.rx_payload_len
                        THEN "CHECKSUM1" ELSE "PAYLOAD"
          /\ to.rx_payload_len = m.rx_payload_len
          /\ to.buffer_ptr = m.buffer_ptr
          /\ to.rx_payload_ptr = m.rx_payload_ptr + 1
          /\ to.msg_payload = IF m.msg_payload = NoPayload
                              THEN m.buffer_ptr ELSE m.msg_payload
      BY <3>1, PayloadGives
    <3>3. /\ m.rx_payload_ptr = 0 => m.msg_payload = NoPayload
          /\ m.rx_payload_ptr > 0 => m.msg_payload = 6
      BY <1>9 DEF Placed, InStep
    <3> HIDE DEF to
    <3>4. to.msg_payload = 6
      BY <1>2, <3>1, <3>2, <3>3 DEF NoPayload
    <3>5. QED
      BY <1>1, <1>2, <1>9, <2>1, <2>2, <2>3, <3>1, <3>2, <3>4 DEF InStep
  <2>4. CASE m.buffer_ptr >= 6 + payloadLen
    <3>1. /\ m.buffer_ptr = 6 + payloadLen => Like(to, m, "CHECKSUM2")
          /\ m.buffer_ptr > 6 + payloadLen => Like(to, m, "FINISH")
      <4>1. m.buffer_ptr = 6 + payloadLen => m.state = "CHECKSUM1"
        BY <1>9 DEF InStep
      <4>2. m.buffer_ptr > 6 + payloadLen => m.state \in {"CHECKSUM2", "FINISH"}
        BY <1>2, <1>9 DEF InStep
      <4>3. QED
        BY <4>1, <4>2, StateGives
    <3>2. m.rx_payload_ptr > 0 => m.msg_payload = 6
      BY <1>9 DEF InStep
    <3> HIDE DEF to
    <3>3. QED
      BY <1>1, <1>2, <1>9, <2>1, <2>2, <2>4, <3>1, <3>2 DEF InStep, Like
  <2>5. QED
    BY <1>2, <2>3, <2>4
<1>10. QED
  BY <1>2, <1>3, <1>4, <1>5, <1>6, <1>7, <1>8, <1>9

LEMMA ParserInitHolds ==
  ASSUME ParserInit
  PROVE  ParserInv
<1>1. /\ mUM = UbxReset /\ len \in Nat
      /\ header = [synced |-> TRUE, payloadLen |-> 0]
  BY LensAssumption DEF ParserInit, NoHeader
<1>2. mUM \in Machines /\ mUM.buffer_ptr = 0 /\ mUM.state = "SYNC1"
      /\ mUM.rx_payload_ptr = 0 /\ mUM.msg_payload = NoPayload
  BY <1>1 DEF UbxReset, Machines, UbxStates
<1>3. Placed(mUM) /\ InStep(mUM, header.payloadLen)
  BY <1>2 DEF Placed, InStep, Behind, Ending, Beginning
<1>4. QED
  BY <1>1, <1>2, <1>3 DEF ParserInv

LEMMA ParseByteStep ==
  ASSUME ParserInv, NEW ch \in Bytes, ParseByte(ch)
  PROVE  ParserInv'
<1> DEFINE at == mUM.buffer_ptr
<1>1. /\ mUM \in Machines /\ len \in Nat /\ Placed(mUM) /\ at \in Nat
      /\ header \in [synced : BOOLEAN, payloadLen : Nat]
      /\ header.synced => InStep(mUM, header.payloadLen)
      /\ at = 0 => header.synced
  BY DEF ParserInv, Machines
<1>2. /\ at < len /\ len' = len
      /\ mUM' = [Switch(mUM, ch) EXCEPT !.buffer_ptr = @ + 1]
      /\ header' = HeaderWith(at, ch)
  BY DEF ParseByte
<1>3. mUM' \in Machines /\ mUM'.buffer_ptr = at + 1 /\ Placed(mUM')
  BY <1>1, <1>2, ByteKeepsPlace
<1>4. ch \in Nat /\ ch * Base \in Nat
  <2>1. ch \in Nat /\ Base \in Nat
    BY ByteAssumption DEF Bytes
  <2>2. QED
    BY <2>1
<1>5. /\ header' \in [synced : BOOLEAN, payloadLen : Nat]
      /\ header'.payloadLen = CASE at = 4 -> ch
                                [] at = 5 -> header.payloadLen + ch * Base
                                [] OTHER -> header.payloadLen
      /\ header'.synced => header.synced \/ at = 0
      /\ header'.synced => (at = 0 => ch = Sync1) /\ (at = 1 => ch = Sync2)
  <2> HIDE DEF at
  <2>1. CASE at = 0
    <3> DEFINE match == (ch = Sync1)
    <3>1. header' = [header EXCEPT !.synced = match]
      BY <1>2, <2>1 DEF HeaderWith
    <3>2. match \in BOOLEAN
      OBVIOUS
    <3> HIDE DEF match
    <3>3. /\ header' \in [synced : BOOLEAN, payloadLen : Nat]
          /\ header'.payloadLen = header.payloadLen /\ header'.synced = match
      BY <1>1, <3>1, <3>2
    <3>4. QED
      BY <1>1, <2>1, <3>3 DEF match
  <2>2. CASE at = 1
    <3> DEFINE match == header.synced /\ ch = Sync2
    <3>1. header' = [header EXCEPT !.synced = match]
      BY <1>2, <2>2 DEF HeaderWith
    <3>2. match \in BOOLEAN
      OBVIOUS
    <3> HIDE DEF match
    <3>3. /\ header' \in [synced : BOOLEAN, payloadLen : Nat]
          /\ header'.payloadLen = header.payloadLen /\ header'.synced = match
      BY <1>1, <3>1, <3>2
    <3>4. QED
      BY <1>1, <2>2, <3>3 DEF match
  <2>3. CASE at = 4
    BY <1>1, <1>2, <1>4, <2>3 DEF HeaderWith
  <2>4. CASE at = 5
    BY <1>1, <1>2, <1>4, <2>4 DEF HeaderWith
  <2>5. CASE at \notin {0, 1, 4, 5}
    BY <1>1, <1>2, <2>5 DEF HeaderWith
  <2>6. QED
    BY <2>1, <2>2, <2>3, <2>4, <2>5
<1>6. ASSUME header'.synced
      PROVE  InStep(mUM', header'.payloadLen)
  <2>1. InStep(mUM, header.payloadLen)
    BY <1>1, <1>5, <1>6
  <2>2. QED
    BY <1>1, <1>2, <1>5, <1>6, <2>1, ByteKeepsStep
<1>7. mUM'.buffer_ptr <= len' /\ mUM'.buffer_ptr # 0
  BY <1>1, <1>2, <1>3
<1>8. QED
  BY <1>1, <1>2, <1>3, <1>5, <1>6, <1>7 DEF ParserInv

LEMMA EndElementStep ==
  ASSUME ParserInv, EndElement
  PROVE  ParserInv'
<1>1. /\ mUM' = UbxReset /\ len' \in Nat
      /\ header' = [synced |-> TRUE, payloadLen |-> 0]
  BY LensAssumption DEF EndElement, NoHeader
<1>2. mUM' \in Machines /\ mUM'.buffer_ptr = 0 /\ mUM'.state = "SYNC1"
      /\ mUM'.rx_payload_ptr = 0 /\ mUM'.msg_payload = NoPayload
  BY <1>1 DEF UbxReset, Machines, UbxStates
<1>3. Placed(mUM') /\ InStep(mUM', header'.payloadLen)
  BY <1>2 DEF Placed, InStep, Behind, Ending, Beginning
<1>4. QED
  BY <1>1, <1>2, <1>3 DEF ParserInv

LEMMA ParserInvariant == ParserSpec => []ParserInv
<1>1. ParserInv /\ [ParserNext]_parserVars => ParserInv'
  <2>1. ASSUME ParserInv, UNCHANGED parserVars
        PROVE  ParserInv'
    BY <2>1 DEF parserVars, ParserInv
  <2>2. QED
    BY <2>1, ParseByteStep, EndElementStep DEF ParserNext
<1>2. QED
  BY ParserInitHolds, <1>1, PTL DEF ParserSpec

(* A step at the end of an element hands over what the machine has, once   *)
(* it has seen the whole frame.                                            *)
LEMMA EndGives ==
  ASSUME ParserInv, ParserNext, mUM.buffer_ptr = len
  PROVE  /\ mUM.state = "FINISH" => /\ selected'.payload = mUM.msg_payload
                                    /\ selected'.len = mUM.rx_payload_len
         /\ mUM.state # "FINISH" => selected'.len = 0
<1>1. EndElement
  BY DEF ParserNext, ParseByte, ParserInv
<1>2. selected' = Selected
  BY <1>1 DEF EndElement
<1>3. QED
  BY <1>2 DEF Selected, NoneSelected

(* The payload SelectParser is given lies behind the header and before the *)
(* checksum of the element, whatever bytes it is made of and whatever its  *)
(* length field claims: PayloadInElement holds.                            *)
THEOREM PayloadIsInElement == ParserSpec => PayloadInElement
<1> DEFINE Inside == mUM.buffer_ptr = len /\ selected'.len > 0 =>
                       /\ selected'.payload >= 6
                       /\ selected'.payload + selected'.len + 2 <= len
<1>1. ParserInv /\ [ParserNext]_parserVars => [Inside]_parserVars
  <2> SUFFICES ASSUME ParserInv, ParserNext, mUM.buffer_ptr = len,
                      selected'.len > 0
               PROVE  /\ selected'.payload >= 6
                      /\ selected'.payload + selected'.len + 2 <= len
    OBVIOUS
  <2>1. /\ mUM.state = "FINISH" /\ selected'.payload = mUM.msg_payload
        /\ selected'.len = mUM.rx_payload_len
    BY EndGives
  <2>2. /\ mUM.rx_payload_len \in Nat /\ mUM.rx_payload_len > 0
        /\ mUM.rx_payload_ptr = mUM.rx_payload_len
        /\ len >= mUM.msg_payload + mUM.rx_payload_len + 2
    BY <2>1 DEF ParserInv, Machines, Placed, Ending, Trailer
  <2>3. mUM.msg_payload >= 6 /\ mUM.msg_payload \in Nat \union {NoPayload}
    BY <2>2 DEF ParserInv, Machines, Placed
  <2>4. QED
    BY <2>1, <2>2, <2>3 DEF ParserInv, NoPayload
<1>2. QED
  BY <1>1, ParserInvariant, PTL DEF ParserSpec, PayloadInElement

(* A whole frame is handed over with the payload it claims, for a payload  *)
(* of any length and of any bytes: ExactFrameIsSelected holds.             *)
THEOREM FrameIsSelected == ParserSpec => ExactFrameIsSelected
<1> DEFINE Whole == ExactFrame =>
                      /\ selected'.payload = IF len = 8 THEN NoPayload
                                             ELSE 6
                      /\ selected'.len = len - 8
<1>1. ParserInv /\ [ParserNext]_parserVars => [Whole]_parserVars
  <2> SUFFICES ASSUME ParserInv, ParserNext, ExactFrame
               PROVE  /\ selected'.payload = IF len = 8 THEN NoPayload
                                             ELSE 6
                      /\ selected'.len = len - 8
    OBVIOUS
  <2>1. /\ mUM.buffer_ptr = len /\ len >= 8 /\ len \in Nat
        /\ header.payloadLen \in Nat /\ len = header.payloadLen + 8
        /\ InStep(mUM, header.payloadLen)
    BY DEF ExactFrame, ParserInv
  <2>2. /\ mUM.state = "FINISH" /\ mUM.rx_payload_len = header.payloadLen
        /\ mUM.rx_payload_ptr > 0 => mUM.msg_payload = 6
    BY <2>1 DEF InStep
  <2>3. /\ mUM.rx_payload_ptr = mUM.rx_payload_len
        /\ mUM.rx_payload_ptr = 0 => mUM.msg_payload = NoPayload
    BY <2>2 DEF ParserInv, Placed, Ending
  <2>4. selected'.payload = mUM.msg_payload /\ selected'.len = mUM.rx_payload_len
    BY <2>1, <2>2, EndGives
  <2>5. QED
    BY <2>1, <2>2, <2>3, <2>4
<1>2. QED
  BY <1>1, ParserInvariant, PTL DEF ParserSpec, ExactFrameIsSelected
=============================================================================
