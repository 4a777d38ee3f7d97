---------------------------- MODULE NmeaTextProofs ----------------------------
(***************************************************************************)
(* Proofs about the text of sentences in the ring, for a ring and slots of *)
(* any size, and sentences of any length that are damaged or run together  *)
(* in any way.                                                             *)
(***************************************************************************)
EXTENDS NmeaText, FiniteSetTheorems, WellFoundedInduction, SequenceTheorems, TLAPS

Slots == 0 .. Size - 1
Lines == Whole \union Damaged
Parsing == {"cut", "check", "handle"}

(* The slots from tail_ to head_, whose sentences wait.                    *)
Waiting ==
    {slot \in Slots : IF tail_ <= head_ THEN tail_ <= slot /\ slot < head_
                      ELSE tail_ <= slot \/ slot < head_}

(* The bytes of a slot up to its terminator are a '$' and a text.          *)
Says(bytes, text) ==
    /\ Len(text) + 2 <= SlotSize
    /\ bytes[1] = Byte("$")
    /\ \A n \in 1 .. Len(text) : bytes[n + 1] = text[n]
    /\ bytes[Len(text) + 2] = NUL

Types ==
    /\ buf_ \in [Slots -> [1 .. SlotSize -> Bytes]]
    /\ head_ \in Slots /\ tail_ \in Slots /\ held \in Slots \union {NoSlot}
    /\ worker \in {"idle", "find"} \union Parsing
    /\ worker = "idle" <=> held = NoSlot
    /\ worker \in Parsing => p \in msg + 1 .. End - 1 /\ p % SlotSize # 0
    /\ crc \in Bytes \union {Nothing}
    /\ sent \in [Slots -> Lines \union {Nothing}]
    /\ overrun \in BOOLEAN

(* A slot that has been written begins with a '$', and has the terminator  *)
(* of a sentence that fits: only terminators are ever written over it, and *)
(* none over its first byte.  A slot that was never written has no star.   *)
SlotsInv ==
    \A slot \in Slots :
        IF sent[slot] = Nothing
        THEN /\ slot \notin Waiting \union {held}
             /\ \A n \in 1 .. SlotSize : buf_[slot][n] # Byte("*")
        ELSE /\ buf_[slot][1] = Byte("$")
             /\ Fits(sent[slot]) => buf_[slot][Len(sent[slot]) + 1] = NUL

(* A sentence that waits is as it was put, unless it has been cut.         *)
WaitingInv ==
    /\ \A slot \in Waiting \ cut : buf_[slot] = Terminated(sent[slot])
    /\ ~overrun => held \notin Waiting

(* So is the one whose star is looked for.  A star found in another slot   *)
(* has a '$' before it, which no text has.                                 *)
FoundInv ==
    ~overrun /\ held # NoSlot =>
        /\ worker \in {"find", "cut"} /\ held \notin cut =>
             buf_[held] = Terminated(sent[held])
        /\ worker \in Parsing =>
             IF SlotOf(p) = held THEN worker # "cut" => At(p) = NUL
             ELSE /\ ~Fits(sent[held])
                  /\ \E at \in msg + 1 .. p - 1 :
                       /\ At(at) = Byte("$")
                       /\ \A b \in msg .. at - 1 : At(b) # NUL

(* A whole sentence that fits gives its own text and checksum, and what is *)
(* handled gives the text of some sentence.                                *)
TextInv ==
    ~overrun /\ held # NoSlot =>
        /\ \A text \in Texts :
             /\ worker \in Parsing /\ held \notin cut
             /\ sent[held] = Sentence(text) /\ Fits(sent[held])
             => /\ p = msg + Len(text) + 1 /\ crc = Crc(text)
                /\ worker # "cut" => Says(buf_[held], text)
        /\ worker = "handle" => \E text \in Texts : Says(buf_[held], text)

(* The strengthening that every step keeps.                                *)
IInv == Types /\ SlotsInv /\ WaitingInv /\ FoundInv /\ TextInv
-----------------------------------------------------------------------------
(* Bytes.                                                                  *)

(* The bytes that mean something differ from each other and from those of  *)
(* texts, and a checksum tells its text.                                   *)
LEMMA BytesDiffer ==
  /\ Byte("$") # Byte("*") /\ Byte("$") # NUL /\ Byte("*") # NUL
  /\ {Byte("$"), Byte("*"), NUL} \subseteq Bytes
  /\ \A ch \in Chars : Byte(ch) \notin {Byte("$"), Byte("*"), NUL}
  /\ \A text, other : Crc(text) = Crc(other) => text = other
  /\ \A ch, text : Byte(ch) # Crc(text) /\ Nothing # Crc(text)
<1>1. \A ch, other : Byte(ch) = Byte(other) => ch = other
  BY DEF Byte
<1>2. \A text, other : Crc(text) = Crc(other) => text = other
  BY DEF Crc
<1>3. \A ch, text : Byte(ch) # Crc(text)
  <2>1. \A ch : Len(Byte(ch)) = 1
    BY DEF Byte
  <2>2. \A text : Len(Crc(text)) = 2
    BY DEF Crc
  <2>3. QED
    BY <2>1, <2>2
<1>4. \A text : Nothing # Crc(text)
  BY DEF Nothing, Crc
<1>5. "$" # "*" /\ "$" # "NUL" /\ "*" # "NUL"
  OBVIOUS
<1>6. Byte("$") # Byte("*") /\ Byte("$") # NUL /\ Byte("*") # NUL
  BY <1>1, <1>5 DEF NUL
<1>7. {Byte("$"), Byte("*"), NUL} \subseteq Bytes
  BY DEF NUL, Bytes
<1>8. \A ch \in Chars : Byte(ch) \notin {Byte("$"), Byte("*"), NUL}
  BY <1>1, TextsAssumption DEF NUL
<1>9. QED
  BY <1>2, <1>3, <1>4, <1>6, <1>7, <1>8

(* A checksum among the bytes of the ring is that of a text.               *)
LEMMA ChecksumIsOfText ==
  ASSUME NEW text, Crc(text) \in Bytes
  PROVE  text \in Texts
<1>1. \A ch : Crc(text) # Byte(ch)
  BY BytesDiffer
<1>2. Crc(text) \in Digits
  BY <1>1 DEF Bytes
<1>3. PICK other \in Texts : Crc(text) = Crc(other)
  BY <1>2 DEF Digits
<1>4. QED
  BY <1>3, BytesDiffer

(* A text has no '$', no star and no terminator.                           *)
LEMMA TextBytes ==
  ASSUME NEW text \in Texts
  PROVE  /\ Len(text) \in Nat /\ text = [n \in 1 .. Len(text) |-> text[n]]
         /\ \A n \in 1 .. Len(text) :
              /\ text[n] \in Bytes
              /\ text[n] \notin {Byte("$"), Byte("*"), NUL}
<1>1. text \in Seq({Byte(ch) : ch \in Chars})
  BY TextsAssumption
<1>2. /\ Len(text) \in Nat /\ text = [n \in 1 .. Len(text) |-> text[n]]
      /\ \A n \in 1 .. Len(text) : text[n] \in {Byte(ch) : ch \in Chars}
  BY <1>1
<1>3. {Byte(ch) : ch \in Chars} \subseteq Bytes
  BY DEF Bytes
<1>4. QED
  BY <1>2, <1>3, BytesDiffer

(* The bytes of a whole sentence.                                          *)
LEMMA SentenceBytes ==
  ASSUME NEW text \in Texts
  PROVE  LET line == Sentence(text)
             len == Len(text)
         IN /\ line \in Seq(Bytes) /\ len \in Nat /\ Len(line) = len + 3
            /\ line[1] = Byte("$")
            /\ \A n \in 1 .. len : line[n + 1] = text[n]
            /\ line[len + 2] = Byte("*") /\ line[len + 3] = Crc(text)
<1>1. Len(text) \in Nat /\ text \in Seq(Bytes)
  <2>1. text \in Seq({Byte(ch) : ch \in Chars})
    BY TextsAssumption
  <2>2. {Byte(ch) : ch \in Chars} \subseteq Bytes
    BY DEF Bytes
  <2>3. QED
    BY <2>1, <2>2
<1>2. Crc(text) \in Bytes /\ Byte("$") \in Bytes /\ Byte("*") \in Bytes
  BY BytesDiffer DEF Bytes, Digits
<1> DEFINE first == <<Byte("$")>>
           last == <<Byte("*"), Crc(text)>>
<1>3. /\ first \in Seq(Bytes) /\ Len(first) = 1 /\ first[1] = Byte("$")
      /\ last \in Seq(Bytes) /\ Len(last) = 2
      /\ last[1] = Byte("*") /\ last[2] = Crc(text)
  BY <1>2
<1>4. Sentence(text) = (first \o text) \o last
  BY DEF Sentence
<1> HIDE DEF first, last
<1> DEFINE begin == first \o text
<1>5. /\ begin \in Seq(Bytes) /\ Len(begin) = Len(text) + 1
      /\ begin[1] = Byte("$")
      /\ \A n \in 1 .. Len(text) : begin[n + 1] = text[n]
  <2>1. /\ begin \in Seq(Bytes) /\ Len(begin) = Len(first) + Len(text)
        /\ \A n \in 1 .. Len(first) + Len(text) :
             begin[n] = IF n <= Len(first) THEN first[n] ELSE text[n - Len(first)]
    BY <1>1, <1>3, ConcatProperties, Zenon
  <2>2. QED
    BY <1>1, <1>3, <2>1
<1> HIDE DEF begin
<1>6. /\ begin \o last \in Seq(Bytes) /\ Len(begin \o last) = Len(text) + 3
      /\ \A n \in 1 .. Len(text) + 1 : (begin \o last)[n] = begin[n]
      /\ (begin \o last)[Len(text) + 2] = last[1]
      /\ (begin \o last)[Len(text) + 3] = last[2]
  <2> DEFINE line == begin \o last
  <2>1. /\ line \in Seq(Bytes) /\ Len(line) = Len(begin) + Len(last)
        /\ \A n \in 1 .. Len(begin) + Len(last) :
             line[n] = IF n <= Len(begin) THEN begin[n] ELSE last[n - Len(begin)]
    BY <1>3, <1>5, ConcatProperties, Zenon
  <2> HIDE DEF line
  <2> DEFINE len == Len(text)
  <2>2. len \in Nat /\ Len(begin) = len + 1 /\ Len(last) = 2
    BY <1>1, <1>3, <1>5
  <2> HIDE DEF len, last
  <2>3. /\ line \in Seq(Bytes) /\ Len(line) = len + 3
        /\ \A n \in 1 .. len + 1 : line[n] = begin[n]
        /\ line[len + 2] = last[1] /\ line[len + 3] = last[2]
    BY <2>1, <2>2
  <2>4. QED
    BY <2>3 DEF line, len
<1>7. QED
  BY <1>1, <1>3, <1>4, <1>5, <1>6 DEF begin

(* What the receiver sends begins with a '$', and in a slot too, where one *)
(* that fits has its terminator behind it.                                 *)
LEMMA LineBytes ==
  ASSUME NEW line \in Lines
  PROVE  /\ line # Nothing /\ Len(line) \in Nat \ {0}
         /\ Terminated(line) \in [1 .. SlotSize -> Bytes]
         /\ Terminated(line)[1] = Byte("$")
         /\ Fits(line) => Terminated(line)[Len(line) + 1] = NUL
<1>1. line \in Seq(Bytes) /\ Len(line) > 0 /\ line[1] = Byte("$")
  <2>1. CASE line \in Damaged
    BY <2>1, DamagedAssumption
  <2>2. CASE line \in Whole
    BY <2>2, SentenceBytes DEF Whole
  <2>3. QED
    BY <2>1, <2>2 DEF Lines
<1>2. Len(line) \in Nat \ {0} /\ \A n \in 1 .. Len(line) : line[n] \in Bytes
  BY <1>1
<1>3. line # Nothing
  BY <1>1 DEF Nothing
<1>4. Terminated(line) \in [1 .. SlotSize -> Bytes]
  BY <1>2, MemoryAssumption, BytesDiffer DEF Terminated
<1>5. SlotSize \in Nat \ {0}
  BY SlotsAssumption
<1>6. Terminated(line)[1] = Byte("$")
  BY <1>1, <1>2, <1>5 DEF Terminated
<1>7. Fits(line) => Terminated(line)[Len(line) + 1] = NUL
  BY <1>2, <1>5 DEF Terminated, Fits
<1>8. QED
  BY <1>2, <1>3, <1>4, <1>6, <1>7
-----------------------------------------------------------------------------
(* Addresses.                                                              *)

(* The k-th byte of a slot.                                                *)
LEMMA AddressInSlot ==
  ASSUME NEW slot \in Slots, NEW k \in 0 .. SlotSize - 1
  PROVE  LET at == slot * SlotSize + k
         IN /\ at \in Nat /\ at < End
            /\ SlotOf(at) = slot /\ at % SlotSize = k
<1>1. SlotSize \in Nat \ {0} /\ Size \in Nat /\ slot \in Nat /\ slot + 1 <= Size
  BY SlotsAssumption DEF Slots
<1> DEFINE base == slot * SlotSize
           at == base + k
<1>2. base \in Nat /\ (slot + 1) * SlotSize = base + SlotSize
  BY <1>1, SMTT(20)
<1>3. (slot + 1) * SlotSize <= Size * SlotSize
  BY <1>1, SMTT(20)
<1>4. at \in Nat /\ at < End
  BY <1>1, <1>2, <1>3 DEF End
<1>5. at \div SlotSize = slot /\ at % SlotSize = k
  BY <1>1, SMTT(20)
<1>6. QED
  BY <1>4, <1>5 DEF SlotOf

(* Every address is that of a byte of a slot.                              *)
LEMMA AddressSplits ==
  ASSUME NEW at \in 0 .. End - 1
  PROVE  /\ SlotOf(at) \in Slots /\ at % SlotSize \in 0 .. SlotSize - 1
         /\ at = SlotOf(at) * SlotSize + (at % SlotSize)
<1>1. SlotSize \in Nat \ {0} /\ Size \in Nat
  BY SlotsAssumption
<1> DEFINE q == at \div SlotSize
           r == at % SlotSize
<1>2. End = Size * SlotSize /\ End \in Nat
  BY <1>1 DEF End
<1>3. at \in Nat /\ at < Size * SlotSize
  BY <1>2
<1>4. q \in Int /\ r \in 0 .. SlotSize - 1 /\ at = q * SlotSize + r
  BY <1>1, <1>3, SMTT(20)
<1> HIDE DEF q, r
<1>5. q >= 0
  <2>1. q <= -1 => q * SlotSize <= - SlotSize
    BY <1>1, <1>4, SMTT(20)
  <2>2. QED
    BY <1>1, <1>3, <1>4, <2>1
<1>6. q < Size
  <2>1. q >= Size => q * SlotSize >= Size * SlotSize
    BY <1>1, <1>4, SMTT(20)
  <2>2. QED
    BY <1>1, <1>3, <1>4, <2>1
<1>7. q \in Slots
  BY <1>1, <1>4, <1>5, <1>6 DEF Slots
<1>8. q = SlotOf(at) /\ r = at % SlotSize
  BY DEF q, r, SlotOf
<1>9. QED
  BY <1>4, <1>7, <1>8

(* A slot's addresses lie together, and after those of the slots before.   *)
LEMMA SlotsInOrder ==
  ASSUME NEW slot \in Slots, NEW at \in 0 .. End - 1
  PROVE  /\ SlotOf(at) = slot <=> /\ slot * SlotSize <= at
                                  /\ at < slot * SlotSize + SlotSize
         /\ SlotOf(at) > slot <=> at >= slot * SlotSize + SlotSize
         /\ slot * SlotSize \in Nat
<1>1. SlotSize \in Nat \ {0} /\ slot \in Nat
  BY SlotsAssumption DEF Slots
<1>2. SlotOf(at) \in Nat
  BY AddressSplits DEF Slots
<1> DEFINE q == SlotOf(at)
           r == at % SlotSize
<1>3. r \in 0 .. SlotSize - 1 /\ at = q * SlotSize + r
  BY AddressSplits, Zenon
<1> HIDE DEF q, r
<1>4. q \in Nat
  BY <1>2 DEF q
<1>5. q > slot => q * SlotSize >= slot * SlotSize + SlotSize
  <2>1. q >= slot + 1 => q * SlotSize >= (slot + 1) * SlotSize
    BY <1>1, <1>4, SMTT(20)
  <2>2. (slot + 1) * SlotSize = slot * SlotSize + SlotSize
    BY <1>1, SMTT(20)
  <2>3. QED
    BY <1>1, <1>4, <2>1, <2>2
<1>6. q < slot => q * SlotSize + SlotSize <= slot * SlotSize
  <2>1. q + 1 <= slot => (q + 1) * SlotSize <= slot * SlotSize
    BY <1>1, <1>4, SMTT(20)
  <2>2. (q + 1) * SlotSize = q * SlotSize + SlotSize
    BY <1>1, <1>4, SMTT(20)
  <2>3. QED
    BY <1>1, <1>4, <2>1, <2>2
<1>7. slot * SlotSize \in Nat /\ q * SlotSize \in Nat
  BY <1>1, <1>4
<1>8. QED
  BY <1>1, <1>3, <1>4, <1>5, <1>6, <1>7 DEF q
-----------------------------------------------------------------------------
(* Searches.                                                               *)

(* A set of numbers has a least one.                                       *)
LEMMA LeastNatural ==
  ASSUME NEW T \in SUBSET Nat, T # {}
  PROVE  \E n \in T : \A m \in T : n <= m
<1> DEFINE Upto == {1 .. n : n \in T}
           R == StrictSubsetOrdering(Nat)
<1>1. Upto \subseteq FiniteSubsetsOf(Nat) /\ Upto # {}
  <2>1. \A n \in T : IsFiniteSet(1 .. n) /\ 1 .. n \subseteq Nat
    BY FS_Interval
  <2>2. QED
    BY <2>1 DEF FiniteSubsetsOf
<1>2. IsWellFoundedOn(R, FiniteSubsetsOf(Nat))
  BY FS_StrictSubsetOrderingWellFounded
<1> HIDE DEF R, Upto
<1>3. PICK x \in Upto : \A y \in Upto : <<y, x>> \notin R
  BY <1>1, <1>2, WFMin
<1>4. PICK n \in T : x = 1 .. n
  BY DEF Upto
<1>5. ASSUME NEW m \in T, m < n
      PROVE  FALSE
  <2>1. 1 .. m \subseteq 1 .. n /\ n \in 1 .. n /\ n \notin 1 .. m
    BY <1>5
  <2>2. 1 .. m \in Upto /\ 1 .. m \in SUBSET Nat /\ 1 .. n \in SUBSET Nat
    BY DEF Upto
  <2>3. <<1 .. m, x>> \in R
    BY <1>4, <2>1, <2>2 DEF R, StrictSubsetOrdering
  <2>4. QED
    BY <1>3, <2>2, <2>3
<1>6. QED
  BY <1>5

(* What is found is the first of the bytes looked for: the terminator that *)
(* is taken to be behind the ring ends every search.                       *)
LEMMA FirstGives ==
  ASSUME NEW at \in 0 .. End, NEW bytes, NUL \in bytes
  PROVE  LET first == First(at, bytes)
         IN /\ first \in at .. End /\ At(first) \in bytes
            /\ \A b \in at .. first - 1 : At(b) \notin bytes
<1>1. End \in Nat
  BY SlotsAssumption DEF End
<1> DEFINE Found == {b \in at .. End : At(b) \in bytes}
<1>2. Found \subseteq Nat /\ End \in Found
  BY <1>1 DEF At
<1> HIDE DEF Found
<1>3. PICK first \in Found : \A b \in Found : first <= b
  BY <1>2, LeastNatural
<1>4. first \in at .. End /\ At(first) \in bytes
  BY <1>3 DEF Found
<1>5. ASSUME NEW b \in at .. first - 1
      PROVE  At(b) \notin bytes
  <2>1. b \in at .. End /\ ~(first <= b)
    BY <1>1, <1>4
  <2>2. QED
    BY <1>3, <2>1 DEF Found
<1>6. \E b \in at .. End : /\ At(b) \in bytes
                           /\ \A c \in at .. b - 1 : At(c) \notin bytes
  BY <1>4, <1>5
<1>7. QED
  BY <1>6 DEF First

(* Nothing else is the first of them.                                      *)
LEMMA FirstIs ==
  ASSUME NEW at \in 0 .. End, NEW bytes, NEW b \in at .. End,
         At(b) \in bytes, \A c \in at .. b - 1 : At(c) \notin bytes
  PROVE  First(at, bytes) = b
<1>1. End \in Nat
  BY SlotsAssumption DEF End
<1> DEFINE IsFirst(d) == /\ At(d) \in bytes
                         /\ \A c \in at .. d - 1 : At(c) \notin bytes
<1>2. First(at, bytes) = CHOOSE d \in at .. End : IsFirst(d)
  BY DEF First
<1>3. IsFirst(b)
  OBVIOUS
<1>4. ASSUME NEW d \in at .. End, IsFirst(d)
      PROVE  d = b
  <2>1. d < b => d \in at .. b - 1
    BY <1>1
  <2>2. b < d => b \in at .. d - 1
    BY <1>1
  <2>3. QED
    BY <1>1, <1>3, <1>4, <2>1, <2>2
<1> HIDE DEF IsFirst
<1>5. QED
  BY <1>2, <1>3, <1>4

(* The byte of an address, and those of the slot that is parsed.           *)
LEMMA ByteAt ==
  ASSUME NEW slot \in Slots, NEW k \in 0 .. SlotSize - 1
  PROVE  /\ At(slot * SlotSize + k) = buf_[slot][k + 1]
         /\ slot * SlotSize + k \in 0 .. End - 1
<1> DEFINE at == slot * SlotSize + k
<1>1. at \in Nat /\ at < End /\ SlotOf(at) = slot /\ at % SlotSize = k
  BY AddressInSlot
<1>2. End \in Nat
  BY SlotsAssumption DEF End
<1> HIDE DEF at
<1>3. ~(at >= End) /\ at \in 0 .. End - 1
  BY <1>1, <1>2
<1>4. At(at) = buf_[slot][k + 1]
  BY <1>1, <1>3 DEF At
<1>5. QED
  BY <1>3, <1>4 DEF at

LEMMA HeldBytes ==
  ASSUME held \in Slots
  PROVE  /\ msg \in Nat /\ SlotSize \in Nat \ {0} /\ End \in Nat
         /\ msg + SlotSize <= End
         /\ \A n \in 1 .. SlotSize : At(msg + n - 1) = buf_[held][n]
<1>1. SlotSize \in Nat \ {0} /\ held \in Nat /\ End \in Nat
  BY SlotsAssumption DEF Slots, End
<1>2. msg \in Nat /\ msg = held * SlotSize
  BY <1>1 DEF msg
<1>3. msg + SlotSize <= End
  <2>1. msg + (SlotSize - 1) < End
    BY <1>1, <1>2, AddressInSlot
  <2>2. QED
    BY <1>1, <1>2, <2>1
<1>4. ASSUME NEW n \in 1 .. SlotSize
      PROVE  At(msg + n - 1) = buf_[held][n]
  <2>1. n - 1 \in 0 .. SlotSize - 1
    BY <1>1
  <2>2. At(msg + (n - 1)) = buf_[held][(n - 1) + 1]
    BY <1>2, <2>1, ByteAt
  <2>3. msg + (n - 1) = msg + n - 1 /\ (n - 1) + 1 = n
    BY <1>1, <1>2
  <2>4. QED
    BY <2>2, <2>3
<1>5. QED
  BY <1>1, <1>2, <1>3, <1>4

(* A slot that says a text gives it to the checksum and the handler.       *)
LEMMA SaysGives ==
  ASSUME held \in Slots, NEW text \in Texts, Says(buf_[held], text)
  PROVE  /\ StringAt(msg + 1) = text
         /\ StringAt(msg) = <<Byte("$")>> \o text
<1> DEFINE len == Len(text)
           end == msg + len + 1
<1>1. /\ msg \in Nat /\ len \in Nat /\ len + 2 <= SlotSize /\ SlotSize \in Nat
      /\ msg + SlotSize <= End /\ End \in Nat
  BY HeldBytes, TextBytes DEF Says
<1>2. /\ At(msg) = Byte("$") /\ At(end) = NUL
      /\ \A n \in 1 .. len : At(msg + n) = text[n]
  <2>1. At(msg + 1 - 1) = Byte("$") /\ At(msg + (len + 2) - 1) = NUL
    BY <1>1, HeldBytes DEF Says
  <2>2. msg + 1 - 1 = msg /\ msg + (len + 2) - 1 = end
    BY <1>1
  <2>3. ASSUME NEW n \in 1 .. len
        PROVE  At(msg + n) = text[n]
    <3>1. n + 1 \in 1 .. SlotSize /\ msg + (n + 1) - 1 = msg + n
      BY <1>1
    <3>2. At(msg + (n + 1) - 1) = buf_[held][n + 1]
      BY <3>1, HeldBytes
    <3>3. QED
      BY <3>1, <3>2 DEF Says
  <2>4. QED
    BY <2>1, <2>2, <2>3
<1> HIDE DEF len
<1>3. \A b \in msg .. end - 1 : At(b) \notin {NUL}
  <2> SUFFICES ASSUME NEW b \in msg .. end - 1
               PROVE  At(b) # NUL
    OBVIOUS
  <2>1. CASE b = msg
    BY <1>2, <2>1, BytesDiffer
  <2>2. CASE b # msg
    <3>1. b - msg \in 1 .. len /\ msg + (b - msg) = b
      BY <1>1, <2>2
    <3>2. At(b) = text[b - msg]
      BY <1>2, <3>1
    <3>3. text[b - msg] # NUL
      BY <3>1, TextBytes DEF len
    <3>4. QED
      BY <3>2, <3>3
  <2>3. QED
    BY <2>1, <2>2
<1>4. /\ end \in msg .. End /\ end \in msg + 1 .. End
      /\ msg \in 0 .. End /\ msg + 1 \in 0 .. End
  BY <1>1
<1>5. First(msg, {NUL}) = end /\ First(msg + 1, {NUL}) = end
  <2>1. \A b \in msg + 1 .. end - 1 : At(b) \notin {NUL}
    BY <1>1, <1>3
  <2>2. QED
    BY <1>2, <1>3, <1>4, <2>1, FirstIs
<1>6. end - msg = len + 1 /\ end - (msg + 1) = len
  BY <1>1
<1> HIDE DEF end
<1>7. StringAt(msg + 1) = text
  <2>1. StringAt(msg + 1) = [n \in 1 .. len |-> At((msg + 1) + n - 1)]
    BY <1>5, <1>6 DEF StringAt
  <2>2. \A n \in 1 .. len : At((msg + 1) + n - 1) = text[n]
    <3> SUFFICES ASSUME NEW n \in 1 .. len
                 PROVE  At((msg + 1) + n - 1) = text[n]
      OBVIOUS
    <3>1. (msg + 1) + n - 1 = msg + n
      BY <1>1
    <3>2. QED
      BY <1>2, <3>1
  <2>3. text = [n \in 1 .. len |-> text[n]]
    BY TextBytes DEF len
  <2>4. QED
    BY <2>1, <2>2, <2>3
<1>8. StringAt(msg) = <<Byte("$")>> \o text
  <2> DEFINE string == [n \in 1 .. len + 1 |-> At(msg + n - 1)]
  <2>1. StringAt(msg) = string
    BY <1>5, <1>6 DEF StringAt
  <2>2. /\ string[1] = Byte("$")
        /\ \A n \in 1 .. len : string[n + 1] = text[n]
    <3>1. msg + 1 - 1 = msg /\ 1 \in 1 .. len + 1
      BY <1>1
    <3>2. ASSUME NEW n \in 1 .. len
          PROVE  string[n + 1] = text[n]
      <4>1. msg + (n + 1) - 1 = msg + n /\ n + 1 \in 1 .. len + 1
        BY <1>1
      <4>2. QED
        BY <1>2, <4>1
    <3>3. QED
      BY <1>2, <3>1, <3>2
  <2>3. text \in Seq(Bytes)
    <3>1. text = [n \in 1 .. len |-> text[n]]
      BY TextBytes DEF len
    <3>2. \A n \in 1 .. len : text[n] \in Bytes
      BY TextBytes DEF len
    <3>3. QED
      BY <1>1, <3>1, <3>2, IsASeq
  <2> DEFINE whole == <<Byte("$")>> \o text
  <2>4. /\ whole \in Seq(Bytes) /\ Len(whole) = len + 1
        /\ whole[1] = Byte("$")
        /\ \A n \in 1 .. len : whole[n + 1] = text[n]
    <3> DEFINE first == <<Byte("$")>>
    <3>1. first \in Seq(Bytes) /\ Len(first) = 1 /\ first[1] = Byte("$")
      BY BytesDiffer
    <3> HIDE DEF first
    <3>2. /\ first \o text \in Seq(Bytes)
          /\ Len(first \o text) = Len(first) + Len(text)
          /\ \A n \in 1 .. Len(first) + Len(text) :
               (first \o text)[n] = IF n <= Len(first) THEN first[n]
                                    ELSE text[n - Len(first)]
      BY <2>3, <3>1, ConcatProperties
    <3>3. whole = first \o text
      BY DEF first
    <3> HIDE DEF whole
    <3>4. QED
      BY <1>1, <3>1, <3>2, <3>3 DEF len
  <2> HIDE DEF whole
  <2>5. whole = [n \in 1 .. len + 1 |-> whole[n]]
    BY <1>1, <2>4
  <2>6. \A n \in 1 .. len + 1 : whole[n] = string[n]
    <3> SUFFICES ASSUME NEW n \in 1 .. len + 1
                 PROVE  whole[n] = string[n]
      OBVIOUS
    <3> HIDE DEF string
    <3>1. CASE n = 1
      BY <2>2, <2>4, <3>1
    <3>2. CASE n # 1
      <4>1. n - 1 \in 1 .. len /\ n = (n - 1) + 1
        BY <1>1, <3>2
      <4>2. QED
        BY <2>2, <2>4, <4>1
    <3>3. QED
      BY <3>1, <3>2
  <2>7. string = [n \in 1 .. len + 1 |-> string[n]]
    OBVIOUS
  <2> HIDE DEF string
  <2>8. string = whole
    BY <2>5, <2>6, <2>7
  <2>9. QED
    BY <2>1, <2>8 DEF whole
<1>9. QED
  BY <1>7, <1>8

(* A text between the first byte and a terminator in the slot is what the  *)
(* slot says.                                                              *)
LEMMA StringIsSaid ==
  ASSUME held \in Slots, buf_[held][1] = Byte("$"),
         First(msg + 1, {NUL}) \in msg + 1 .. msg + SlotSize - 1,
         NEW text \in Texts, text = StringAt(msg + 1)
  PROVE  Says(buf_[held], text)
<1> DEFINE end == First(msg + 1, {NUL})
           len == end - (msg + 1)
<1>1. msg \in Nat /\ SlotSize \in Nat \ {0} /\ msg + SlotSize <= End /\ End \in Nat
  BY HeldBytes
<1>2. end \in msg + 1 .. msg + SlotSize - 1
  OBVIOUS
<1>3. At(end) = NUL
  <2>1. msg + 1 \in 0 .. End
    BY <1>1, <1>2
  <2>2. At(end) \in {NUL}
    BY <2>1, FirstGives
  <2>3. QED
    BY <2>2
<1>4. text = [n \in 1 .. len |-> At((msg + 1) + n - 1)]
  BY DEF StringAt
<1> HIDE DEF end
<1>5. len \in Nat /\ len + 2 <= SlotSize
  BY <1>1, <1>2
<1>6. Len(text) = len
  <2>1. /\ Len(text) \in Nat /\ DOMAIN text = 1 .. Len(text)
    BY TextBytes
  <2>2. DOMAIN text = 1 .. len
    BY <1>4
  <2>3. QED
    BY <1>5, <2>1, <2>2
<1>7. buf_[held][len + 2] = NUL
  <2>1. len + 2 \in 1 .. SlotSize /\ msg + (len + 2) - 1 = end
    BY <1>1, <1>2, <1>5
  <2>2. At(msg + (len + 2) - 1) = buf_[held][len + 2]
    BY <2>1, HeldBytes
  <2>3. QED
    BY <1>3, <2>1, <2>2
<1>8. ASSUME NEW n \in 1 .. len
      PROVE  buf_[held][n + 1] = text[n]
  <2>1. n + 1 \in 1 .. SlotSize /\ msg + (n + 1) - 1 = (msg + 1) + n - 1
    BY <1>1, <1>5
  <2>2. At(msg + (n + 1) - 1) = buf_[held][n + 1]
    BY <2>1, HeldBytes
  <2>3. QED
    BY <1>4, <2>1, <2>2
<1> HIDE DEF len
<1>9. QED
  BY <1>5, <1>6, <1>7, <1>8 DEF Says
-----------------------------------------------------------------------------
(* The ring.                                                               *)

(* The slot after another is the next one, and the first after the last.   *)
LEMMA SlotAfter ==
  ASSUME NEW slot \in Slots
  PROVE  Ring!After(slot) = IF slot + 1 = Size THEN 0 ELSE slot + 1
<1>1. Size \in Nat /\ Size > 1 /\ slot \in Nat /\ slot < Size
  BY SlotsAssumption DEF Slots
<1>2. slot + 1 # Size => (slot + 1) % Size = slot + 1
  BY <1>1, SMTT(20)
<1>3. Size % Size = 0
  BY <1>1, SMTT(20)
<1>4. QED
  BY <1>1, <1>2, <1>3 DEF Ring!After

(* A put writes the slot at head_, which waits from then on; no other slot *)
(* begins to wait.                                                         *)
LEMMA PutWaits ==
  ASSUME Types, NEW bytes, Ring!Put(bytes)
  PROVE  /\ head_' \in Slots /\ tail_' \in Slots /\ held' = held
         /\ buf_' = [buf_ EXCEPT ![head_] = bytes]
         /\ Waiting' \subseteq Waiting \union {head_}
<1>1. Size \in Nat /\ Size > 1 /\ head_ \in Slots /\ tail_ \in Slots
  BY SlotsAssumption DEF Types
<1>2. /\ head_' = IF head_ + 1 = Size THEN 0 ELSE head_ + 1
      /\ tail_' = IF head_' = tail_
                  THEN IF tail_ + 1 = Size THEN 0 ELSE tail_ + 1 ELSE tail_
      /\ held' = held /\ buf_' = [buf_ EXCEPT ![head_] = bytes]
  BY <1>1, SlotAfter DEF Ring!Put
<1>3. head_' \in Slots /\ tail_' \in Slots
  BY <1>1, <1>2 DEF Slots
<1>4. ASSUME NEW slot \in Waiting', slot # head_
      PROVE  slot \in Waiting
  BY <1>1, <1>2, <1>4 DEF Waiting, Slots
<1>5. QED
  BY <1>2, <1>3, <1>4

(* A get hands out a slot that waited and does not any more.               *)
LEMMA GetTakes ==
  ASSUME Types, head_ # tail_, Ring!Get
  PROVE  /\ head_' = head_ /\ tail_' \in Slots /\ buf_' = buf_
         /\ held' = tail_ /\ tail_ \in Waiting
         /\ Waiting' \subseteq Waiting \ {tail_}
<1>1. Size \in Nat /\ Size > 1 /\ head_ \in Slots /\ tail_ \in Slots
  BY SlotsAssumption DEF Types
<1>2. /\ tail_' = IF tail_ + 1 = Size THEN 0 ELSE tail_ + 1
      /\ head_' = head_ /\ held' = tail_ /\ buf_' = buf_
  BY <1>1, SlotAfter DEF Ring!Get
<1>3. tail_' \in Slots /\ tail_ \in Waiting
  BY <1>1, <1>2 DEF Slots, Waiting
<1>4. ASSUME NEW slot \in Waiting'
      PROVE  slot \in Waiting \ {tail_}
  BY <1>1, <1>2, <1>4 DEF Waiting, Slots
<1>5. QED
  BY <1>2, <1>3, <1>4

(* Every address has a byte.                                               *)
LEMMA AtIsByte ==
  ASSUME Types, NEW at \in Nat
  PROVE  At(at) \in Bytes
<1>1. End \in Nat
  BY SlotsAssumption DEF End
<1>2. CASE at >= End
  BY <1>2, BytesDiffer DEF At
<1>3. CASE at < End
  <2>1. at \in 0 .. End - 1
    BY <1>1, <1>3
  <2>2. SlotOf(at) \in Slots /\ (at % SlotSize) \in 0 .. SlotSize - 1
    BY <2>1, AddressSplits
  <2>3. (at % SlotSize) + 1 \in 1 .. SlotSize
    BY <2>2, SlotsAssumption
  <2>4. At(at) = buf_[SlotOf(at)][(at % SlotSize) + 1]
    BY <1>1, <2>1 DEF At
  <2>5. \A slot \in Slots, n \in 1 .. SlotSize : buf_[slot][n] \in Bytes
    BY DEF Types
  <2>6. QED
    BY <2>2, <2>3, <2>4, <2>5, Zenon
<1>4. QED
  BY <1>1, <1>2, <1>3

-----------------------------------------------------------------------------
(* Every step keeps the invariant: one lemma for each action.              *)

(* A finished sentence leaves the ring as it is.                           *)
LEMMA FinishStep ==
  ASSUME IInv, NEW from, NEW text, Finish(from, text)
  PROVE  IInv'
<1>1. /\ UNCHANGED <<buf_, head_, tail_, sent, overrun, cut>>
      /\ held' = NoSlot /\ worker' = "idle" /\ crc' = Nothing
  BY DEF Finish, Step
<1>2. Waiting' = Waiting
  BY <1>1 DEF Waiting
<1>3. NoSlot \notin Slots
  BY DEF NoSlot, Ring!NoSlot, Slots
<1>4. Types'
  BY <1>1 DEF IInv, Types, Parsing
<1>5. SlotsInv'
  BY <1>1, <1>2, <1>3 DEF IInv, SlotsInv, Fits
<1>6. WaitingInv'
  <2>1. NoSlot \notin Waiting
    BY <1>3 DEF Waiting
  <2>2. QED
    BY <1>1, <1>2, <2>1 DEF IInv, WaitingInv, Terminated
<1>7. FoundInv' /\ TextInv'
  BY <1>1 DEF FoundInv, TextInv
<1>8. QED
  BY <1>4, <1>5, <1>6, <1>7 DEF IInv

(* The sentence that is taken has not been overrun yet.                    *)
LEMMA TakeStep ==
  ASSUME IInv, Take
  PROVE  IInv'
<1> USE DEF IInv
<1>1. /\ worker = "idle" /\ worker' = "find" /\ overrun' = FALSE
      /\ UNCHANGED <<p, crc, sent, cut>>
      /\ head_ # tail_ /\ Ring!Get
  BY DEF Take
<1>2. /\ head_' = head_ /\ tail_' \in Slots /\ buf_' = buf_
      /\ held' = tail_ /\ tail_ \in Waiting
      /\ Waiting' \subseteq Waiting \ {tail_}
  BY <1>1, GetTakes
<1>3. tail_ \in Slots /\ NoSlot \notin Slots
  BY DEF Types, NoSlot, Ring!NoSlot, Slots
<1>4. Types'
  BY <1>1, <1>2, <1>3 DEF Types, Parsing
<1>5. SlotsInv'
  <2>1. Waiting' \union {held'} \subseteq Waiting \union {held}
    BY <1>2
  <2>2. QED
    BY <1>1, <1>2, <2>1 DEF SlotsInv, Fits
<1>6. WaitingInv'
  BY <1>1, <1>2 DEF WaitingInv, Terminated
<1>7. FoundInv' /\ TextInv'
  BY <1>1, <1>2 DEF FoundInv, TextInv, WaitingInv, Parsing, Terminated
<1>8. QED
  BY <1>4, <1>5, <1>6, <1>7

(* Where a star is found: behind the first byte of its slot, and in        *)
(* another slot than the one parsed only when the sentence does not fit.   *)
LEMMA StarIsPlaced ==
  ASSUME IInv, held \in Slots,
         NEW star, star = First(msg, {Byte("*"), NUL}), At(star) # NUL
  PROVE  /\ At(star) = Byte("*")
         /\ star \in msg + 1 .. End - 1 /\ (star % SlotSize) # 0
         /\ SlotOf(star) # held =>
              /\ ~Fits(sent[held])
              /\ \E at \in msg + 1 .. star - 1 :
                   /\ At(at) = Byte("$")
                   /\ \A b \in msg .. at - 1 : At(b) # NUL
<1> USE DEF IInv
<1>1. /\ msg \in Nat /\ SlotSize \in Nat \ {0} /\ End \in Nat
      /\ msg + SlotSize <= End
  BY HeldBytes
<1>2. /\ star \in msg .. End /\ At(star) \in {Byte("*"), NUL}
      /\ \A b \in msg .. star - 1 : At(b) \notin {Byte("*"), NUL}
  <2>1. msg \in 0 .. End
    BY <1>1
  <2>2. QED
    BY <2>1, FirstGives
<1>3. At(star) = Byte("*")
  BY <1>2
<1>4. star \in 0 .. End - 1
  <2>1. star # End
    BY <1>1 DEF At
  <2>2. QED
    BY <1>1, <1>2, <2>1
<1> DEFINE slot == SlotOf(star)
           k == star % SlotSize
<1>5. /\ slot \in Slots /\ k \in 0 .. SlotSize - 1
      /\ star = slot * SlotSize + k
  BY <1>4, AddressSplits
<1>6. At(star) = buf_[slot][k + 1]
  BY <1>1, <1>4 DEF At
<1> HIDE DEF slot, k
<1>7. sent[slot] # Nothing
  <2>1. k + 1 \in 1 .. SlotSize
    BY <1>1, <1>5
  <2>2. QED
    BY <1>3, <1>5, <1>6, <2>1 DEF SlotsInv
<1>8. buf_[slot][1] = Byte("$")
  BY <1>5, <1>7 DEF SlotsInv
<1>9. k # 0
  BY <1>3, <1>6, <1>8, BytesDiffer
<1>10. star # msg
  <2>1. sent[held] # Nothing
    BY DEF SlotsInv
  <2>2. At(msg + 1 - 1) = buf_[held][1] /\ msg + 1 - 1 = msg
    BY <1>1, HeldBytes
  <2>3. buf_[held][1] = Byte("$")
    BY <2>1 DEF SlotsInv
  <2>4. QED
    BY <1>3, <2>2, <2>3, BytesDiffer
<1>11. ASSUME slot # held
       PROVE  /\ ~Fits(sent[held])
              /\ \E at \in msg + 1 .. star - 1 :
                   /\ At(at) = Byte("$")
                   /\ \A b \in msg .. at - 1 : At(b) # NUL
  <2>1. star >= msg + SlotSize
    BY <1>1, <1>2, <1>4, <1>11, SlotsInOrder DEF slot, msg
  <2>2. ~Fits(sent[held])
    <3> SUFFICES ASSUME Fits(sent[held])
                 PROVE  FALSE
      OBVIOUS
    <3> DEFINE n == Len(sent[held]) + 1
    <3>1. sent[held] # Nothing /\ sent[held] \in Lines
      BY DEF SlotsInv, Types
    <3>2. n \in 1 .. SlotSize /\ buf_[held][n] = NUL
      BY <1>1, <3>1, LineBytes DEF SlotsInv, Fits
    <3> HIDE DEF n
    <3>3. At(msg + n - 1) = NUL /\ msg + n - 1 \in msg .. star - 1
      BY <1>1, <1>4, <2>1, <3>2, HeldBytes
    <3>4. QED
      BY <1>2, <3>3
  <2> DEFINE at == slot * SlotSize
  <2>3. at \in Nat /\ at + 0 = at /\ At(at + 0) = buf_[slot][0 + 1]
    BY <1>1, <1>5, ByteAt, SlotsInOrder, <1>4
  <2> HIDE DEF at
  <2>4. At(at) = Byte("$")
    BY <1>8, <2>3
  <2>5. star = at + k
    BY <1>5 DEF at
  <2>6. at \in msg + 1 .. star - 1
    <3>1. at < star
      BY <1>5, <1>9, <2>3, <2>5
    <3>2. at >= msg + SlotSize
      <4>1. slot > held
        BY <1>4, <2>1, SlotsInOrder DEF slot, msg
      <4>2. at \in 0 .. End - 1 /\ SlotOf(at) = slot
        <5>1. slot * SlotSize + 0 \in 0 .. End - 1
              /\ SlotOf(slot * SlotSize + 0) = slot
          BY <1>1, <1>5, AddressInSlot, ByteAt
        <5>2. slot * SlotSize + 0 = at
          BY <2>3 DEF at
        <5>3. QED
          BY <5>1, <5>2
      <4>3. QED
        BY <4>1, <4>2, SlotsInOrder DEF msg
    <3>3. QED
      BY <1>1, <1>4, <2>3, <3>1, <3>2
  <2>7. \A b \in msg .. at - 1 : At(b) # NUL
    <3>1. msg .. at - 1 \subseteq msg .. star - 1
      BY <1>1, <1>4, <2>6
    <3>2. QED
      BY <1>2, <3>1
  <2>8. QED
    BY <2>2, <2>4, <2>6, <2>7
<1>12. star \in msg + 1 .. End - 1
  BY <1>1, <1>2, <1>4, <1>10
<1>13. QED
  BY <1>3, <1>9, <1>11, <1>12 DEF slot, k
-----------------------------------------------------------------------------
(* The star found in a whole sentence that fits is its own, and its        *)
(* checksum and terminator are behind it.                                  *)
LEMMA OwnStar ==
  ASSUME IInv, worker = "find", held \in Slots \ cut, ~overrun,
         NEW text \in Texts, sent[held] = Sentence(text), Fits(sent[held])
  PROVE  LET star == msg + Len(text) + 1
         IN /\ First(msg, {Byte("*"), NUL}) = star /\ At(star) = Byte("*")
            /\ At(star + 1) = Crc(text) /\ At(star + 2) = NUL
<1> DEFINE line == Sentence(text)
           len == Len(text)
<1>1. /\ len \in Nat /\ Len(line) = len + 3 /\ line[1] = Byte("$")
      /\ \A n \in 1 .. len : line[n + 1] = text[n]
      /\ line[len + 2] = Byte("*") /\ line[len + 3] = Crc(text)
  BY SentenceBytes
<1>2. /\ msg \in Nat /\ SlotSize \in Nat \ {0} /\ End \in Nat /\ msg + SlotSize <= End
      /\ \A n \in 1 .. SlotSize : At(msg + n - 1) = Terminated(line)[n]
  BY HeldBytes DEF IInv, FoundInv, NoSlot, Ring!NoSlot, Slots
<1> HIDE DEF line, len
<1>3. len + 4 <= SlotSize
  BY <1>1, <1>2 DEF Fits, line
<1>4. \A n \in 1 .. len + 3 : At(msg + n - 1) = line[n]
  BY <1>1, <1>2, <1>3 DEF Terminated
<1>5. At(msg + (len + 4) - 1) = NUL
  <2>1. len + 4 \in 1 .. SlotSize /\ len + 4 = Len(line) + 1
    BY <1>1, <1>2, <1>3
  <2>2. Terminated(line)[len + 4] = NUL
    BY <1>1, <2>1 DEF Terminated
  <2>3. QED
    BY <1>2, <2>1, <2>2
<1> DEFINE at == msg + len + 1
<1>6. /\ At(at) = Byte("*") /\ At(at + 1) = Crc(text) /\ At(at + 2) = NUL
  <2>1. /\ msg + (len + 2) - 1 = at /\ msg + (len + 3) - 1 = at + 1
        /\ msg + (len + 4) - 1 = at + 2
        /\ len + 2 \in 1 .. len + 3 /\ len + 3 \in 1 .. len + 3
    BY <1>1, <1>2
  <2>2. /\ At(msg + (len + 2) - 1) = line[len + 2]
        /\ At(msg + (len + 3) - 1) = line[len + 3]
    BY <1>4, <2>1
  <2>3. QED
    BY <1>1, <1>5, <2>1, <2>2
<1>7. ASSUME NEW b \in msg .. at - 1
      PROVE  At(b) \notin {Byte("*"), NUL}
  <2> DEFINE n == b - msg + 1
  <2>1. n \in 1 .. len + 1 /\ n \in 1 .. len + 3 /\ msg + n - 1 = b
    BY <1>1, <1>2
  <2> HIDE DEF n
  <2>2. At(b) = line[n]
    BY <1>4, <2>1
  <2>3. CASE n = 1
    BY <1>1, <2>2, <2>3, BytesDiffer
  <2>4. CASE n # 1
    <3>1. n - 1 \in 1 .. len /\ n = (n - 1) + 1
      BY <1>1, <2>1, <2>4
    <3>2. line[n] = text[n - 1]
      BY <1>1, <3>1
    <3>3. text[n - 1] \notin {Byte("*"), NUL}
      BY <3>1, TextBytes DEF len
    <3>4. QED
      BY <2>2, <3>2, <3>3
  <2>5. QED
    BY <2>3, <2>4
<1>8. msg \in 0 .. End /\ at \in msg .. End
  BY <1>1, <1>2, <1>3
<1> HIDE DEF at
<1>9. First(msg, {Byte("*"), NUL}) = at
  <2>1. At(at) \in {Byte("*"), NUL}
    BY <1>6
  <2>2. QED
    BY <1>7, <1>8, <2>1, FirstIs
<1>10. QED
  BY <1>6, <1>9 DEF at, len

(* strstr finds a star that is not the first byte of a slot; of a whole    *)
(* sentence that fits it is the sentence's own, and so is the checksum.    *)
LEMMA FindStep ==
  ASSUME IInv, FindStar
  PROVE  IInv'
<1> USE DEF IInv
<1> DEFINE star == First(msg, {Byte("*"), NUL})
<1>1. /\ worker = "find" /\ worker' = "cut" /\ At(star) # NUL /\ p' = star
      /\ crc' = IF At(star + 2) \in Digits THEN Nothing ELSE At(star + 1)
      /\ UNCHANGED <<buf_, head_, tail_, held, sent, overrun, cut>>
  BY DEF FindStar, Step
<1>2. held \in Slots /\ held # NoSlot
  BY <1>1 DEF Types, NoSlot, Ring!NoSlot, Slots
<1>3. /\ star \in msg + 1 .. End - 1 /\ (star % SlotSize) # 0
      /\ SlotOf(star) # held =>
           /\ ~Fits(sent[held])
           /\ \E at \in msg + 1 .. star - 1 :
                /\ At(at) = Byte("$")
                /\ \A b \in msg .. at - 1 : At(b) # NUL
  BY <1>1, <1>2, StarIsPlaced
<1>4. msg \in Nat /\ msg' = msg /\ Waiting' = Waiting
  BY <1>1, <1>2, HeldBytes DEF msg, Waiting
<1>5. \A at : At(at)' = At(at)
  BY <1>1 DEF At
<1>6. Types'
  <2>1. star + 1 \in Nat
    BY <1>3, <1>4
  <2>2. At(star + 1) \in Bytes
    BY <2>1, AtIsByte
  <2> HIDE DEF star
  <2>3. QED
    BY <1>1, <1>3, <1>4, <2>2 DEF Types, Parsing
<1>7. SlotsInv' /\ WaitingInv'
  BY <1>1, <1>4 DEF SlotsInv, WaitingInv, Fits, Terminated
<1>8. FoundInv'
  <2> HIDE DEF star
  <2> SUFFICES ASSUME ~overrun
               PROVE  FoundInv'
    BY <1>1 DEF FoundInv
  <2>1. held \notin cut => buf_[held] = Terminated(sent[held])
    BY <1>1, <1>2 DEF FoundInv
  <2>2. QED
    BY <1>1, <1>3, <1>4, <1>5, <2>1 DEF FoundInv, Fits, Terminated
<1>9. ASSUME ~overrun, NEW text \in Texts, held \notin cut,
             sent[held] = Sentence(text), Fits(sent[held])
      PROVE  star = msg + Len(text) + 1 /\ crc' = Crc(text)
  <2>1. NUL \notin Digits
    BY BytesDiffer DEF Digits, NUL
  <2>2. /\ star = msg + Len(text) + 1 /\ At(star + 1) = Crc(text)
        /\ At(star + 2) = NUL
    BY <1>1, <1>2, <1>9, OwnStar
  <2>3. QED
    BY <1>1, <2>1, <2>2
<1>10. TextInv'
  <2> HIDE DEF star
  <2> SUFFICES ASSUME ~overrun
               PROVE  TextInv'
    BY <1>1 DEF TextInv
  <2>1. \A text \in Texts :
          held \notin cut /\ sent[held] = Sentence(text) /\ Fits(sent[held])
            => p' = msg' + Len(text) + 1 /\ crc' = Crc(text)
    BY <1>1, <1>4, <1>9
  <2>2. QED
    BY <1>1, <2>1 DEF TextInv, Fits
<1>11. QED
  BY <1>6, <1>7, <1>8, <1>10

(* What cutting a sentence off does to the bytes.                          *)
LEMMA CutBytes ==
  ASSUME IInv, Cut
  PROVE  /\ held \in Slots /\ msg' = msg /\ Waiting' = Waiting
         /\ p \in 0 .. End - 1 /\ SlotOf(p) \in Slots
         /\ (p % SlotSize) + 1 \in 2 .. SlotSize
         /\ buf_' \in [Slots -> [1 .. SlotSize -> Bytes]]
         /\ \A slot \in Slots \ {SlotOf(p)} : buf_'[slot] = buf_[slot]
         /\ \A n \in 1 .. SlotSize :
              buf_'[SlotOf(p)][n] = IF n = (p % SlotSize) + 1 THEN NUL
                                    ELSE buf_[SlotOf(p)][n]
         /\ \A at \in 0 .. End - 1 : At(at)' = IF at = p THEN NUL ELSE At(at)
<1>1. /\ worker = "cut"
      /\ buf_' = [buf_ EXCEPT ![SlotOf(p)][(p % SlotSize) + 1] = NUL]
      /\ UNCHANGED <<head_, tail_, held>>
  BY DEF Cut, Step
<1>2. held \in Slots /\ p \in msg + 1 .. End - 1 /\ (p % SlotSize) # 0
  BY <1>1 DEF IInv, Types, Parsing, NoSlot, Ring!NoSlot, Slots
<1>3. msg \in Nat /\ End \in Nat /\ SlotSize \in Nat \ {0}
  BY <1>2, HeldBytes
<1>4. p \in 0 .. End - 1
  BY <1>2, <1>3
<1> DEFINE slot == SlotOf(p)
           k == p % SlotSize
<1>5. slot \in Slots /\ k \in 0 .. SlotSize - 1 /\ p = slot * SlotSize + k
  BY <1>4, AddressSplits
<1>6. k # 0
  BY <1>2
<1>7. buf_' = [buf_ EXCEPT ![slot][k + 1] = NUL]
  BY <1>1
<1>8. buf_ \in [Slots -> [1 .. SlotSize -> Bytes]]
  BY DEF IInv, Types
<1> HIDE DEF slot, k
<1>9. k + 1 \in 2 .. SlotSize
  BY <1>3, <1>5, <1>6
<1>10. /\ buf_' \in [Slots -> [1 .. SlotSize -> Bytes]]
       /\ \A s \in Slots \ {slot} : buf_'[s] = buf_[s]
       /\ \A n \in 1 .. SlotSize :
            buf_'[slot][n] = IF n = k + 1 THEN NUL ELSE buf_[slot][n]
  BY <1>5, <1>7, <1>8, <1>9, BytesDiffer
<1>11. ASSUME NEW at \in 0 .. End - 1
       PROVE  At(at)' = IF at = p THEN NUL ELSE At(at)
  <2> DEFINE s == SlotOf(at)
             n == at % SlotSize
  <2>1. s \in Slots /\ n \in 0 .. SlotSize - 1 /\ at = s * SlotSize + n
    BY AddressSplits
  <2>2. At(at) = buf_[s][n + 1] /\ At(at)' = buf_'[s][n + 1]
    BY <1>3 DEF At
  <2>3. at = p <=> s = slot /\ n = k
    BY <1>5, <2>1 DEF slot, k
  <2> HIDE DEF s, n
  <2>4. n + 1 \in 1 .. SlotSize
    BY <1>3, <2>1
  <2>5. n = k <=> n + 1 = k + 1
    BY <1>5, <2>1
  <2>6. QED
    BY <1>10, <2>1, <2>2, <2>3, <2>4, <2>5
<1>12. msg' = msg /\ Waiting' = Waiting
  BY <1>1 DEF msg, Waiting
<1>13. QED
  BY <1>2, <1>4, <1>5, <1>9, <1>10, <1>11, <1>12 DEF slot, k

(* Cutting writes a terminator: over the star of the sentence parsed, or   *)
(* in a slot that is then known as cut.                                    *)
LEMMA CutStep ==
  ASSUME IInv, Cut
  PROVE  IInv'
<1> USE DEF IInv
<1>1. /\ worker = "cut" /\ worker' = "check"
      /\ UNCHANGED <<head_, tail_, held, p, crc, sent, overrun>>
      /\ cut' = cut \union IF overrun \/ ~Fits(sent[held]) THEN {SlotOf(p)} ELSE {}
  BY DEF Cut, Step
<1>2. /\ held \in Slots /\ msg' = msg /\ Waiting' = Waiting
      /\ p \in 0 .. End - 1 /\ SlotOf(p) \in Slots
      /\ (p % SlotSize) + 1 \in 2 .. SlotSize
      /\ buf_' \in [Slots -> [1 .. SlotSize -> Bytes]]
      /\ \A slot \in Slots \ {SlotOf(p)} : buf_'[slot] = buf_[slot]
      /\ \A n \in 1 .. SlotSize :
           buf_'[SlotOf(p)][n] = IF n = (p % SlotSize) + 1 THEN NUL
                                 ELSE buf_[SlotOf(p)][n]
      /\ \A at \in 0 .. End - 1 : At(at)' = IF at = p THEN NUL ELSE At(at)
  BY CutBytes
<1>3. /\ msg \in Nat /\ SlotSize \in Nat \ {0} /\ End \in Nat
  BY <1>2, HeldBytes
<1>4. Types'
  BY <1>1, <1>2 DEF Types, Parsing
<1> DEFINE k == p % SlotSize
<1> HIDE DEF k
<1>5. /\ k + 1 \in 2 .. SlotSize
      /\ \A n \in 1 .. SlotSize :
           buf_'[SlotOf(p)][n] = IF n = k + 1 THEN NUL ELSE buf_[SlotOf(p)][n]
  BY <1>2 DEF k
<1>6. SlotsInv'
  <2> SUFFICES ASSUME NEW slot \in Slots
               PROVE  IF sent[slot] = Nothing
                      THEN /\ slot \notin Waiting \union {held}
                           /\ \A n \in 1 .. SlotSize : buf_'[slot][n] # Byte("*")
                      ELSE /\ buf_'[slot][1] = Byte("$")
                           /\ Fits(sent[slot]) =>
                                buf_'[slot][Len(sent[slot]) + 1] = NUL
    BY <1>1, <1>2 DEF SlotsInv, Fits
  <2>1. CASE slot # SlotOf(p)
    BY <1>2, <2>1 DEF SlotsInv
  <2>2. CASE slot = SlotOf(p) /\ sent[slot] = Nothing
    BY <1>5, <2>2, BytesDiffer DEF SlotsInv
  <2>3. CASE slot = SlotOf(p) /\ sent[slot] # Nothing
    <3>1. buf_'[slot][1] = Byte("$")
      <4>1. 1 \in 1 .. SlotSize /\ 1 # k + 1
        BY <1>3, <1>5
      <4>2. QED
        BY <1>5, <2>3, <4>1 DEF SlotsInv
    <3>2. ASSUME Fits(sent[slot])
          PROVE  buf_'[slot][Len(sent[slot]) + 1] = NUL
      <4>1. sent[slot] \in Lines
        BY <2>3 DEF Types
      <4>2. Len(sent[slot]) + 1 \in 1 .. SlotSize
        BY <1>3, <3>2, <4>1, LineBytes DEF Fits
      <4>3. QED
        BY <1>5, <2>3, <3>2, <4>2 DEF SlotsInv
    <3>3. QED
      BY <2>3, <3>1, <3>2
  <2>4. QED
    BY <2>1, <2>2, <2>3
<1>7. WaitingInv'
  <2>1. ASSUME NEW slot \in Waiting, slot \notin cut'
        PROVE  buf_'[slot] = Terminated(sent[slot])
    <3>1. slot \in Slots /\ slot \notin cut
      BY <1>1, <2>1 DEF Waiting
    <3>2. slot # SlotOf(p)
      <4> SUFFICES ASSUME slot = SlotOf(p)
                   PROVE  FALSE
        OBVIOUS
      <4>1. ~overrun /\ Fits(sent[held])
        BY <1>1, <2>1
      <4>2. SlotOf(p) = held
        BY <1>1, <1>2, <4>1 DEF FoundInv, Parsing, Types
      <4>3. QED
        BY <2>1, <4>1, <4>2 DEF WaitingInv
    <3>3. QED
      BY <1>2, <2>1, <3>1, <3>2 DEF WaitingInv
  <2>2. QED
    BY <1>1, <1>2, <2>1 DEF WaitingInv, Terminated
<1>8. FoundInv'
  <2> SUFFICES ASSUME ~overrun
               PROVE  IF SlotOf(p) = held THEN At(p)' = NUL
                      ELSE /\ ~Fits(sent[held])
                           /\ \E at \in msg + 1 .. p - 1 :
                                /\ At(at)' = Byte("$")
                                /\ \A b \in msg .. at - 1 : At(b)' # NUL
    BY <1>1, <1>2 DEF FoundInv, Fits, SlotOf
  <2>1. CASE SlotOf(p) = held
    BY <1>1, <1>2, <2>1 DEF At, SlotOf
  <2>2. CASE SlotOf(p) # held
    <3>1. ~Fits(sent[held])
      BY <1>1, <1>2, <2>2 DEF FoundInv, Parsing, Types
    <3>2. PICK at \in msg + 1 .. p - 1 :
            At(at) = Byte("$") /\ \A b \in msg .. at - 1 : At(b) # NUL
      BY <1>1, <1>2, <2>2 DEF FoundInv, Parsing, Types
    <3>3. at \in 0 .. End - 1 /\ at # p
      BY <1>2, <1>3, <3>2
    <3>4. \A b \in msg .. at - 1 : b \in 0 .. End - 1 /\ b # p
      BY <1>2, <1>3, <3>2
    <3>5. QED
      BY <1>2, <2>2, <3>1, <3>2, <3>3, <3>4
  <2>3. QED
    BY <2>1, <2>2
<1>9. TextInv'
  <2>1. ASSUME ~overrun, NEW text \in Texts, held \notin cut',
               sent[held] = Sentence(text), Fits(sent[held])
        PROVE  p = msg + Len(text) + 1 /\ crc = Crc(text)
               /\ Says(buf_'[held], text)
    <3> DEFINE line == Sentence(text)
               len == Len(text)
    <3>1. held \notin cut /\ held # NoSlot
      BY <1>1, <1>2, <2>1 DEF Types
    <3>2. p = msg + Len(text) + 1 /\ crc = Crc(text)
      BY <1>1, <2>1, <3>1 DEF TextInv, Parsing
    <3>3. SlotOf(p) = held /\ buf_[held] = Terminated(line)
      BY <1>1, <2>1, <3>1 DEF FoundInv, Parsing
    <3>4. /\ len \in Nat /\ Len(line) = len + 3 /\ line[1] = Byte("$")
          /\ \A n \in 1 .. len : line[n + 1] = text[n]
      BY SentenceBytes
    <3> HIDE DEF line, len
    <3>5. len + 4 <= SlotSize
      BY <1>3, <2>1, <3>4 DEF Fits, line
    <3>6. k = len + 1
      <4>1. len + 1 \in 0 .. SlotSize - 1
        BY <1>3, <3>4, <3>5
      <4>2. (held * SlotSize + (len + 1)) % SlotSize = len + 1
        BY <1>2, <4>1, AddressInSlot
      <4>3. p = held * SlotSize + (len + 1)
        <5>1. msg = held * SlotSize /\ msg + len + 1 = msg + (len + 1)
          BY <1>3, <3>4 DEF msg
        <5>2. QED
          BY <3>2, <5>1 DEF len
      <4>4. QED
        BY <4>2, <4>3 DEF k
    <3>7. \A n \in 1 .. len + 1 : buf_'[held][n] = line[n]
      BY <1>3, <1>5, <3>3, <3>4, <3>5, <3>6 DEF Terminated
    <3>8. buf_'[held][len + 2] = NUL
      <4>1. len + 2 \in 1 .. SlotSize /\ len + 2 = k + 1
        BY <1>3, <3>4, <3>5, <3>6
      <4>2. QED
        BY <1>5, <3>3, <4>1
    <3>9. Says(buf_'[held], text)
      <4>1. buf_'[held][1] = Byte("$")
        <5>1. 1 \in 1 .. len + 1
          BY <3>4
        <5>2. QED
          BY <3>4, <3>7, <5>1
      <4>2. ASSUME NEW n \in 1 .. len
            PROVE  buf_'[held][n + 1] = text[n]
        <5>1. n + 1 \in 1 .. len + 1
          BY <3>4
        <5>2. QED
          BY <3>4, <3>7, <5>1
      <4>3. len + 2 <= SlotSize
        BY <1>3, <3>4, <3>5
      <4>4. QED
        BY <3>8, <4>1, <4>2, <4>3 DEF Says, len
    <3>10. QED
      BY <3>2, <3>9
  <2>2. QED
    BY <1>1, <1>2, <2>1 DEF TextInv, Fits
<1>10. QED
  BY <1>4, <1>6, <1>7, <1>8, <1>9

(* A checksum that agrees is that of a text, and a text has no '$': the    *)
(* terminator is in the slot, whatever slot the star was found in.         *)
LEMMA PassStep ==
  ASSUME IInv, PassCheck
  PROVE  IInv'
<1> USE DEF IInv
<1>1. /\ worker = "check" /\ worker' = "handle"
      /\ UNCHANGED <<buf_, head_, tail_, held, p, crc, sent, overrun, cut>>
      /\ crc = Crc(StringAt(msg + 1))
  BY DEF PassCheck, Step, Checksum
<1>2. held \in Slots
  BY <1>1 DEF Types, NoSlot, Ring!NoSlot, Slots
<1>3. /\ msg \in Nat /\ SlotSize \in Nat \ {0} /\ End \in Nat
      /\ msg + SlotSize <= End
  BY <1>2, HeldBytes
<1>4. Waiting' = Waiting /\ msg' = msg /\ \A at : At(at)' = At(at)
  BY <1>1 DEF Waiting, msg, At
<1>5. Types'
  BY <1>1, <1>4 DEF Types, Parsing
<1>6. SlotsInv' /\ WaitingInv'
  BY <1>1, <1>4 DEF SlotsInv, WaitingInv, Fits, Terminated
<1>7. FoundInv'
  BY <1>1, <1>4 DEF FoundInv, Fits, Terminated, Parsing
<1>8. ASSUME ~overrun
      PROVE  \E text \in Texts : Says(buf_[held], text)
  <2> DEFINE text == StringAt(msg + 1)
             first == First(msg + 1, {NUL})
  <2>1. text \in Texts
    <3>1. crc \in Bytes
      BY <1>1, BytesDiffer DEF Types
    <3>2. QED
      BY <1>1, <3>1, ChecksumIsOfText
  <2>2. p \in msg + 1 .. End - 1
    BY <1>1 DEF Types, Parsing
  <2>3. /\ first \in msg + 1 .. End /\ At(first) = NUL
        /\ \A b \in msg + 1 .. first - 1 : At(b) # NUL
    <3>1. msg + 1 \in 0 .. End
      BY <1>3, <2>2
    <3>2. /\ first \in msg + 1 .. End /\ At(first) \in {NUL}
          /\ \A b \in msg + 1 .. first - 1 : At(b) \notin {NUL}
      BY <3>1, FirstGives
    <3>3. QED
      BY <3>2
  <2>4. text = [n \in 1 .. first - (msg + 1) |-> At((msg + 1) + n - 1)]
    BY DEF StringAt
  <2> HIDE DEF text, first
  <2>5. first \in msg + 1 .. msg + SlotSize - 1
    <3>1. CASE SlotOf(p) = held
      <4>1. At(p) = NUL
        BY <1>1, <1>2, <1>8, <3>1 DEF FoundInv, Parsing, Types
      <4>2. first <= p
        <5>1. ~(first <= p) => p \in msg + 1 .. first - 1
          BY <1>3, <2>2, <2>3
        <5>2. QED
          BY <2>3, <4>1, <5>1
      <4>3. p < msg + SlotSize
        <5>1. p \in 0 .. End - 1
          BY <1>3, <2>2
        <5>2. QED
          BY <1>2, <3>1, <5>1, SlotsInOrder DEF msg
      <4>4. QED
        BY <1>3, <2>2, <2>3, <4>2, <4>3
    <3>2. CASE SlotOf(p) # held
      <4>1. PICK at \in msg + 1 .. p - 1 :
              At(at) = Byte("$") /\ \A b \in msg .. at - 1 : At(b) # NUL
        BY <1>1, <1>2, <1>8, <3>2 DEF FoundInv, Parsing, Types
      <4>2. at < first
        <5>1. first < at => first \in msg .. at - 1
          BY <1>3, <2>2, <2>3, <4>1
        <5>2. first # at
          BY <2>3, <4>1, BytesDiffer
        <5>3. QED
          BY <1>3, <2>2, <2>3, <4>1, <5>1, <5>2
      <4> DEFINE n == at - msg
      <4>3. n \in 1 .. first - (msg + 1) /\ (msg + 1) + n - 1 = at
        BY <1>3, <2>2, <2>3, <4>1, <4>2
      <4> HIDE DEF n
      <4>4. text[n] = Byte("$")
        BY <2>4, <4>1, <4>3
      <4>5. n \in 1 .. Len(text)
        <5>1. Len(text) \in Nat /\ DOMAIN text = 1 .. Len(text)
          BY <2>1, TextBytes
        <5>2. DOMAIN text = 1 .. first - (msg + 1)
          BY <2>4
        <5>3. QED
          BY <4>3, <5>1, <5>2
      <4>6. QED
        BY <2>1, <4>4, <4>5, TextBytes
    <3>3. QED
      BY <3>1, <3>2
  <2>6. buf_[held][1] = Byte("$")
    BY <1>2 DEF SlotsInv
  <2>7. Says(buf_[held], text)
    BY <1>2, <2>1, <2>5, <2>6, StringIsSaid DEF text, first
  <2>8. QED
    BY <2>1, <2>7
<1>9. TextInv'
  BY <1>1, <1>4, <1>8 DEF TextInv, Fits, Parsing
<1>10. QED
  BY <1>5, <1>6, <1>7, <1>9

(* What a put does to the bytes.                                           *)
LEMMA PutBytes ==
  ASSUME IInv, NEW line \in Lines, EndSentence(line)
  PROVE  /\ head_ \in Slots /\ head_' \in Slots /\ tail_' \in Slots
         /\ held' = held /\ msg' = msg
         /\ Waiting' \subseteq Waiting \union {head_}
         /\ buf_' \in [Slots -> [1 .. SlotSize -> Bytes]]
         /\ buf_'[head_] = Terminated(line)
         /\ \A slot \in Slots \ {head_} : buf_'[slot] = buf_[slot]
         /\ \A at \in 0 .. End - 1 :
              IF SlotOf(at) # head_ THEN At(at)' = At(at)
              ELSE at = head_ * SlotSize => At(at)' = Byte("$")
<1> USE DEF IInv
<1>1. /\ head_' \in Slots /\ tail_' \in Slots /\ held' = held
      /\ buf_' = [buf_ EXCEPT ![head_] = Terminated(line)]
      /\ Waiting' \subseteq Waiting \union {head_}
  BY PutWaits DEF EndSentence
<1>2. head_ \in Slots /\ buf_ \in [Slots -> [1 .. SlotSize -> Bytes]]
  BY DEF Types
<1>3. /\ Terminated(line) \in [1 .. SlotSize -> Bytes]
      /\ Terminated(line)[1] = Byte("$")
  BY LineBytes
<1>4. /\ buf_' \in [Slots -> [1 .. SlotSize -> Bytes]]
      /\ buf_'[head_] = Terminated(line)
      /\ \A slot \in Slots \ {head_} : buf_'[slot] = buf_[slot]
  BY <1>1, <1>2, <1>3
<1>5. ASSUME NEW at \in 0 .. End - 1
      PROVE  IF SlotOf(at) # head_ THEN At(at)' = At(at)
             ELSE at = head_ * SlotSize => At(at)' = Byte("$")
  <2>1. End \in Nat /\ SlotSize \in Nat \ {0}
    BY SlotsAssumption DEF End
  <2>2. /\ At(at) = buf_[SlotOf(at)][(at % SlotSize) + 1]
        /\ At(at)' = buf_'[SlotOf(at)][(at % SlotSize) + 1]
    BY <2>1 DEF At, SlotOf
  <2>3. CASE SlotOf(at) # head_
    <3>1. SlotOf(at) \in Slots
      BY AddressSplits
    <3>2. QED
      BY <1>4, <2>2, <2>3, <3>1
  <2>4. CASE SlotOf(at) = head_ /\ at = head_ * SlotSize
    <3>1. (head_ * SlotSize + 0) % SlotSize = 0
      BY <1>2, <2>1, AddressInSlot
    <3>2. head_ * SlotSize + 0 = at
      BY <2>1, <2>4
    <3>3. (at % SlotSize) + 1 = 1
      BY <3>1, <3>2
    <3>4. At(at)' = Terminated(line)[1]
      BY <1>4, <2>2, <2>4, <3>3
    <3>5. QED
      BY <1>3, <2>4, <3>4
  <2>5. QED
    BY <2>3, <2>4
<1>6. msg' = msg
  BY <1>1 DEF msg
<1>7. QED
  BY <1>1, <1>2, <1>4, <1>5, <1>6

(* A put that does not overrun leaves the sentence parsed as it is; what   *)
(* the search passed in the slots behind it begins with a '$' again.       *)
LEMMA PutStep ==
  ASSUME IInv, NEW line \in Lines, EndSentence(line)
  PROVE  IInv'
<1> USE DEF IInv
<1>1. /\ sent' = [sent EXCEPT ![head_] = line]
      /\ overrun' = (overrun \/ held = head_)
      /\ cut' = cut \ {head_}
      /\ UNCHANGED <<worker, p, crc>>
  BY DEF EndSentence, parseVars
<1>2. /\ head_ \in Slots /\ head_' \in Slots /\ tail_' \in Slots
      /\ held' = held /\ msg' = msg
      /\ Waiting' \subseteq Waiting \union {head_}
      /\ buf_' \in [Slots -> [1 .. SlotSize -> Bytes]]
      /\ buf_'[head_] = Terminated(line)
      /\ \A slot \in Slots \ {head_} : buf_'[slot] = buf_[slot]
      /\ \A at \in 0 .. End - 1 :
           IF SlotOf(at) # head_ THEN At(at)' = At(at)
           ELSE at = head_ * SlotSize => At(at)' = Byte("$")
  BY PutBytes
<1>3. /\ line # Nothing /\ Terminated(line)[1] = Byte("$")
      /\ Fits(line) => Terminated(line)[Len(line) + 1] = NUL
  BY LineBytes
<1>4. /\ sent'[head_] = line
      /\ \A slot \in Slots \ {head_} : sent'[slot] = sent[slot]
  BY <1>1, <1>2 DEF Types
<1>5. Types'
  BY <1>1, <1>2 DEF Types, Parsing
<1>6. SlotsInv'
  <2> SUFFICES ASSUME NEW slot \in Slots
               PROVE  IF sent'[slot] = Nothing
                      THEN /\ slot \notin Waiting' \union {held}
                           /\ \A n \in 1 .. SlotSize : buf_'[slot][n] # Byte("*")
                      ELSE /\ buf_'[slot][1] = Byte("$")
                           /\ Fits(sent'[slot]) =>
                                buf_'[slot][Len(sent'[slot]) + 1] = NUL
    BY <1>2 DEF SlotsInv, Fits
  <2>1. CASE slot = head_
    BY <1>2, <1>3, <1>4, <2>1
  <2>2. CASE slot # head_
    BY <1>2, <1>4, <2>2 DEF SlotsInv
  <2>3. QED
    BY <2>1, <2>2
<1>7. WaitingInv'
  <2>1. ASSUME NEW slot \in Waiting', slot \notin cut'
        PROVE  buf_'[slot] = Terminated(sent'[slot])
    <3>1. CASE slot = head_
      BY <1>2, <1>4, <3>1
    <3>2. CASE slot # head_
      <4>1. slot \in Waiting \ cut /\ slot \in Slots
        BY <1>1, <1>2, <2>1, <3>2 DEF Waiting
      <4>2. QED
        BY <1>2, <1>4, <3>2, <4>1 DEF WaitingInv
    <3>3. QED
      BY <3>1, <3>2
  <2>2. ~overrun' => held \notin Waiting'
    BY <1>1, <1>2 DEF WaitingInv
  <2>3. QED
    BY <1>2, <2>1, <2>2 DEF WaitingInv, Terminated
<1>8. SUFFICES ASSUME ~overrun', held # NoSlot
               PROVE  FoundInv' /\ TextInv'
  <2>1. overrun' \/ held = NoSlot => FoundInv' /\ TextInv'
    BY <1>2 DEF FoundInv, TextInv
  <2>2. QED
    BY <1>5, <1>6, <1>7, <1>8, <2>1
<1>9. /\ ~overrun /\ held \in Slots /\ held # head_
      /\ buf_'[held] = buf_[held] /\ sent'[held] = sent[held]
      /\ held \in cut' <=> held \in cut
  BY <1>1, <1>2, <1>4, <1>8 DEF Types
<1>10. /\ msg \in Nat /\ SlotSize \in Nat \ {0} /\ End \in Nat
       /\ msg + SlotSize <= End
  BY <1>9, HeldBytes
<1>11. ASSUME worker \in Parsing
       PROVE  IF SlotOf(p) = held THEN worker # "cut" => At(p)' = NUL
              ELSE /\ ~Fits(sent[held])
                   /\ \E at \in msg + 1 .. p - 1 :
                        /\ At(at)' = Byte("$")
                        /\ \A b \in msg .. at - 1 : At(b)' # NUL
  <2>1. p \in msg + 1 .. End - 1 /\ p \in 0 .. End - 1
    BY <1>10, <1>11 DEF Types
  <2>2. CASE SlotOf(p) = held
    <3>1. worker # "cut" => At(p) = NUL
      BY <1>8, <1>9, <1>11, <2>2 DEF FoundInv
    <3>2. At(p)' = At(p)
      <4>1. SlotOf(p) # head_
        BY <1>9, <2>2
      <4>2. ~(p >= End)
        BY <1>10, <2>1
      <4>3. QED
        BY <1>1, <1>9, <2>2, <4>2 DEF At, SlotOf
    <3>3. QED
      BY <2>2, <3>1, <3>2
  <2>3. CASE SlotOf(p) # held
    <3>1. ~Fits(sent[held])
      BY <1>8, <1>9, <1>11, <2>3 DEF FoundInv
    <3>2. PICK at \in msg + 1 .. p - 1 :
            At(at) = Byte("$") /\ \A b \in msg .. at - 1 : At(b) # NUL
      BY <1>8, <1>9, <1>11, <2>3 DEF FoundInv
    <3>0. PICK new : new = head_ * SlotSize
      OBVIOUS
    <3>3. new \in 0 .. End - 1 /\ SlotOf(new) = head_ /\ new # msg
      <4>1. /\ new + 0 = new /\ new + 0 \in 0 .. End - 1
            /\ SlotOf(new + 0) = head_
        BY <1>2, <1>10, <3>0, AddressInSlot, ByteAt
      <4>2. held * SlotSize + 0 = msg /\ SlotOf(held * SlotSize + 0) = held
        BY <1>9, <1>10, AddressInSlot DEF msg
      <4>3. QED
        BY <1>9, <4>1, <4>2
    <3>4. CASE new \in msg + 1 .. at
      <4>1. At(new)' = Byte("$")
        BY <1>2, <3>0, <3>3
      <4>2. \A b \in msg .. new - 1 : At(b)' # NUL
        <5> SUFFICES ASSUME NEW b \in msg .. new - 1
                     PROVE  At(b)' # NUL
          OBVIOUS
        <5>1. b \in msg .. at - 1 /\ b \in 0 .. End - 1 /\ b < new
          BY <1>10, <2>1, <3>2, <3>3, <3>4
        <5>2. SlotOf(b) # head_
          BY <1>2, <3>0, <5>1, SlotsInOrder
        <5>3. QED
          BY <1>2, <3>2, <5>1, <5>2
      <4>3. new \in msg + 1 .. p - 1
        BY <1>10, <2>1, <3>2, <3>4
      <4>4. QED
        BY <2>3, <3>1, <4>1, <4>2, <4>3
    <3>5. CASE new \notin msg + 1 .. at
      <4>1. ASSUME NEW b \in msg .. at
            PROVE  At(b)' = At(b)
        <5>1. b \in 0 .. End - 1
          BY <1>10, <2>1, <3>2
        <5>2. SlotOf(b) # head_
          <6> SUFFICES ASSUME SlotOf(b) = head_
                       PROVE  FALSE
            OBVIOUS
          <6>1. new <= b /\ b < new + SlotSize
            BY <1>2, <3>0, <5>1, SlotsInOrder
          <6>2. new < msg
            BY <1>10, <2>1, <3>2, <3>3, <3>5, <6>1
          <6>3. SlotOf(new) < held /\ head_ < held
            <7>1. ~(SlotOf(new) = held) /\ ~(SlotOf(new) > held)
              BY <1>9, <1>10, <3>3, <6>2, SlotsInOrder DEF msg
            <7>2. held \in Int /\ head_ \in Int
              BY <1>2, <1>9 DEF Slots
            <7>3. QED
              BY <3>3, <7>1, <7>2
          <6>4. b >= held * SlotSize
            BY DEF msg
          <6>5. msg < End /\ msg \in 0 .. End - 1
            BY <1>10
          <6>6. SlotOf(b) = held \/ SlotOf(b) > held
            <7>1. held * SlotSize \in Nat
              BY <1>10 DEF msg
            <7>2. b < held * SlotSize + SlotSize \/ b >= held * SlotSize + SlotSize
              BY <1>10, <5>1, <7>1
            <7>3. QED
              BY <1>9, <5>1, <6>4, <7>2, SlotsInOrder
          <6>7. held \in Int /\ head_ \in Int
            BY <1>2, <1>9 DEF Slots
          <6>8. QED
            BY <6>3, <6>6, <6>7
        <5>3. QED
          BY <1>2, <5>1, <5>2
      <4>2. at \in msg .. at /\ \A b \in msg .. at - 1 : b \in msg .. at
        BY <1>10, <2>1, <3>2
      <4>3. QED
        BY <2>3, <3>1, <3>2, <4>1, <4>2
    <3>6. QED
      BY <3>4, <3>5
  <2>4. QED
    BY <2>2, <2>3
<1>12. FoundInv'
  <2>1. worker \in {"find", "cut"} /\ held \notin cut =>
          buf_[held] = Terminated(sent[held])
    BY <1>8, <1>9 DEF FoundInv
  <2>2. SlotOf(p)' = SlotOf(p)
    BY <1>1 DEF SlotOf
  <2>3. QED
    BY <1>1, <1>2, <1>9, <1>11, <2>1, <2>2 DEF FoundInv, Fits, Terminated, Parsing
<1>13. TextInv'
  BY <1>1, <1>2, <1>8, <1>9 DEF TextInv, Fits, Parsing
<1>14. QED
  BY <1>12, <1>13

-----------------------------------------------------------------------------
(* The types, the slots, the sentences that wait and what is known of the  *)
(* one parsed agree in every state.                                        *)
THEOREM Invariant == Spec => []IInv
<1>1. Init => IInv
  <2> SUFFICES ASSUME Init
               PROVE  IInv
    OBVIOUS
  <2>1. /\ buf_ \in [Slots -> Fresh] /\ head_ = 0 /\ tail_ = 0
        /\ held = NoSlot /\ worker = "idle" /\ p = 0 /\ crc = Nothing
        /\ sent = [slot \in Slots |-> Nothing] /\ overrun = FALSE /\ cut = {}
    BY DEF Init, Ring!RingInit, Ring!Slots, Slots, NoSlot
  <2>2. 0 \in Slots /\ NoSlot \notin Slots /\ Waiting = {}
    BY <2>1, SlotsAssumption DEF Slots, NoSlot, Ring!NoSlot, Waiting
  <2>3. \A slot \in Slots : buf_[slot] \in Fresh
    BY <2>1
  <2>4. Types
    <3>1. Fresh \subseteq [1 .. SlotSize -> Bytes]
      BY MemoryAssumption
    <3>2. QED
      BY <2>1, <2>2, <3>1 DEF Types, Parsing
  <2>5. SlotsInv
    BY <2>1, <2>2, <2>3, MemoryAssumption DEF SlotsInv
  <2>6. WaitingInv /\ FoundInv /\ TextInv
    BY <2>1, <2>2 DEF WaitingInv, FoundInv, TextInv
  <2>7. QED
    BY <2>4, <2>5, <2>6 DEF IInv
<1>2. IInv /\ [Next]_vars => IInv'
  <2> SUFFICES ASSUME IInv, [Next]_vars
               PROVE  IInv'
    OBVIOUS
  <2>1. ASSUME NEW line \in Whole \union Damaged, EndSentence(line)
        PROVE  IInv'
    BY <2>1, PutStep DEF Lines
  <2>2. CASE Take
    BY <2>2, TakeStep
  <2>3. CASE FindStar
    BY <2>3, FindStep
  <2>4. CASE NoStar
    BY <2>4, FinishStep DEF NoStar
  <2>5. CASE Cut
    BY <2>5, CutStep
  <2>6. CASE PassCheck
    BY <2>6, PassStep
  <2>7. CASE FailCheck
    BY <2>7, FinishStep DEF FailCheck
  <2>8. CASE Handle
    BY <2>8, FinishStep DEF Handle
  <2>9. CASE UNCHANGED vars
    <3>1. UNCHANGED <<buf_, head_, tail_, held, worker, p, crc, sent, overrun, cut>>
      BY <2>9 DEF vars, ringVars, parseVars, historyVars
    <3>2. Waiting' = Waiting /\ msg' = msg /\ SlotOf(p)' = SlotOf(p)
          /\ \A at : At(at)' = At(at)
      BY <3>1 DEF Waiting, msg, SlotOf, At
    <3>3. At(p)' = At(p)
      BY <3>1 DEF At, SlotOf
    <3>4. QED
      BY <3>1, <3>2, <3>3 DEF IInv, Types, SlotsInv, WaitingInv, FoundInv, TextInv,
                              Fits, Terminated, Parsing
  <2>10. QED
    BY <2>1, <2>2, <2>3, <2>4, <2>5, <2>6, <2>7, <2>8, <2>9
    DEF Next, NMEA_ReaderParse
<1>3. QED
  BY <1>1, <1>2, PTL DEF Spec

-----------------------------------------------------------------------------
(* What a sentence says is all of it but the star and the checksum.        *)
LEMMA SentenceBegins ==
  ASSUME NEW text \in Texts
  PROVE  SubSeq(Sentence(text), 1, Len(Sentence(text)) - 2) = <<Byte("$")>> \o text
<1> DEFINE line == Sentence(text)
           len == Len(text)
           first == <<Byte("$")>>
           said == first \o text
<1>1. /\ line \in Seq(Bytes) /\ len \in Nat /\ Len(line) = len + 3
      /\ line[1] = Byte("$") /\ \A n \in 1 .. len : line[n + 1] = text[n]
  BY SentenceBytes
<1>2. text \in Seq(Bytes) /\ first \in Seq(Bytes) /\ Len(first) = 1
      /\ first[1] = Byte("$")
  <2>1. text \in Seq({Byte(ch) : ch \in Chars})
    BY TextsAssumption
  <2>2. {Byte(ch) : ch \in Chars} \subseteq Bytes /\ Byte("$") \in Bytes
    BY BytesDiffer DEF Bytes
  <2>3. QED
    BY <2>1, <2>2
<1> HIDE DEF line, len, first
<1>3. /\ said \in Seq(Bytes) /\ Len(said) = Len(first) + Len(text)
      /\ \A n \in 1 .. Len(first) + Len(text) :
           said[n] = IF n <= Len(first) THEN first[n] ELSE text[n - Len(first)]
  BY <1>2, ConcatProperties, Zenon
<1> HIDE DEF said
<1>4. said \in Seq(Bytes) /\ Len(said) = len + 1
      /\ \A n \in 1 .. len + 1 : said[n] = line[n]
  <2>1. Len(said) = len + 1
    BY <1>1, <1>2, <1>3 DEF len
  <2>2. ASSUME NEW n \in 1 .. len + 1
        PROVE  said[n] = line[n]
    <3>1. CASE n = 1
      BY <1>1, <1>2, <1>3, <3>1 DEF len
    <3>2. CASE n # 1
      <4>1. n - 1 \in 1 .. len /\ n = (n - 1) + 1
        BY <1>1, <3>2
      <4>2. said[n] = text[n - 1]
        BY <1>1, <1>2, <1>3, <3>2, <4>1 DEF len
      <4>3. QED
        BY <1>1, <4>1, <4>2
    <3>3. QED
      BY <3>1, <3>2
  <2>3. QED
    BY <1>3, <2>1, <2>2
<1> DEFINE begin == SubSeq(line, 1, len + 1)
<1>5. begin \in Seq(Bytes) /\ Len(begin) = len + 1
      /\ \A n \in 1 .. len + 1 : begin[n] = line[n]
  BY <1>1
<1> HIDE DEF begin
<1>6. begin = said
  BY <1>4, <1>5, SeqEqual
<1>7. Len(line) - 2 = len + 1
  BY <1>1
<1>8. QED
  BY <1>6, <1>7 DEF begin, line, said, first

(* Only these actions end a parse.                                         *)
LEMMA OnlyFinishes ==
  ASSUME Next, Finishes
  PROVE  NoStar \/ FailCheck \/ Handle
BY DEF Next, NMEA_ReaderParse, Finishes, EndSentence, parseVars, Take, FindStar, Cut,
       PassCheck, Step

-----------------------------------------------------------------------------
(* What is handled says what a sentence of the receiver said: a text       *)
(* passes its checksum only as the whole text of a sentence, in the slot.  *)
THEOREM HandledIsSent == Spec => HandledIsIntact
<1> DEFINE A == Finishes =>
                  handled' \in {Dropped} \union {<<Byte("$")>> \o text : text \in Texts}
<1>1. IInv /\ [Next]_vars => [A]_vars
  <2> SUFFICES ASSUME IInv, Next, Finishes
               PROVE  A
    OBVIOUS
  <2>1. CASE NoStar \/ FailCheck
    BY <2>1 DEF NoStar, FailCheck, Finish
  <2>2. CASE Handle
    <3>1. worker = "handle" /\ handled' = StringAt(msg) /\ ~overrun
      BY <2>2 DEF Handle, Finish, Finishes
    <3>2. held \in Slots /\ held # NoSlot
      BY <3>1 DEF IInv, Types
    <3>3. PICK text \in Texts : Says(buf_[held], text)
      BY <3>1, <3>2 DEF IInv, TextInv
    <3>4. handled' = <<Byte("$")>> \o text
      BY <3>1, <3>2, <3>3, SaysGives
    <3>5. QED
      BY <3>4
  <2>3. QED
    BY <2>1, <2>2, OnlyFinishes
<1>2. QED
  BY <1>1, Invariant, PTL DEF Spec, HandledIsIntact

(* A whole sentence that fits is handled as what it says: its star is      *)
(* found, its checksum agrees, and the handler has its text.               *)
THEOREM FittingAreHandled == Spec => FittingIsHandled
<1> DEFINE A == Finishes /\ held \notin cut /\ sent[held] \in Whole /\ Fits(sent[held])
                  => handled' = SubSeq(sent[held], 1, Len(sent[held]) - 2)
<1>1. IInv /\ [Next]_vars => [A]_vars
  <2> SUFFICES ASSUME IInv, Next, Finishes, held \notin cut,
                      sent[held] \in Whole, Fits(sent[held])
               PROVE  handled' = SubSeq(sent[held], 1, Len(sent[held]) - 2)
    OBVIOUS
  <2>1. PICK text \in Texts : sent[held] = Sentence(text)
    BY DEF Whole
  <2>2. held \in Slots /\ held # NoSlot /\ ~overrun
    BY DEF IInv, Types, Finishes
  <2>3. CASE NoStar
    <3>1. worker = "find" /\ At(First(msg, {Byte("*"), NUL})) = NUL
      BY <2>3 DEF NoStar
    <3>2. At(First(msg, {Byte("*"), NUL})) = Byte("*")
      BY <2>1, <2>2, <3>1, OwnStar
    <3>3. QED
      BY <3>1, <3>2, BytesDiffer
  <2>4. ASSUME worker \in {"check", "handle"}
        PROVE  /\ crc = Crc(text) /\ StringAt(msg + 1) = text
               /\ StringAt(msg) = SubSeq(sent[held], 1, Len(sent[held]) - 2)
    <3>1. crc = Crc(text) /\ Says(buf_[held], text)
      BY <2>1, <2>2, <2>4 DEF IInv, TextInv, Parsing
    <3>2. StringAt(msg + 1) = text /\ StringAt(msg) = <<Byte("$")>> \o text
      BY <2>2, <3>1, SaysGives
    <3>3. QED
      BY <2>1, <3>1, <3>2, SentenceBegins
  <2>5. CASE FailCheck
    BY <2>4, <2>5 DEF FailCheck, Checksum
  <2>6. CASE Handle
    BY <2>4, <2>6 DEF Handle, Finish
  <2>7. QED
    BY <2>3, <2>5, <2>6, OnlyFinishes
<1>2. QED
  BY <1>1, Invariant, PTL DEF Spec, FittingIsHandled
=============================================================================
