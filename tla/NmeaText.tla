------------------------------- MODULE NmeaText -------------------------------
(***************************************************************************)
(* A NMEA sentence as a C string in the ring: the reader ends it in its    *)
(* own buffer, put() copies SlotSize bytes of that, and NMEA_ReaderParse   *)
(* looks in the slot for the '*' and writes a terminator over it.  A       *)
(* sentence of SlotSize bytes or more has no terminator in its slot, and   *)
(* the slots lie one after another.  The heap behind the last one is taken *)
(* to begin with a terminator.                                             *)
(***************************************************************************)
EXTENDS Integers, Sequences, FiniteSets

CONSTANTS Size,      \* slots of the ring, 32 in the code
          SlotSize,  \* mNmeaBufferSize, 128 in the code
          Chars,     \* the characters of sentences but for '$' and '*'
          Texts,     \* what sentences may say between '$' and '*'
          Damaged,   \* what the line may make of them
          Fresh,     \* what slots may hold before they are first used
          Junk       \* bytes of the reader's buffer behind a sentence

ASSUME SlotsAssumption == Size \in Nat /\ Size > 1 /\ SlotSize \in Nat \ {0}

(* A checksum stands for the text it is of: a damaged text that has the    *)
(* checksum it had before is left out.                                     *)
Byte(ch) == <<ch>>
Crc(text) == <<"crc", text>>
NUL == Byte("NUL")
Digits == {Crc(text) : text \in Texts}
Bytes == {Byte(ch) : ch \in Chars \union {"$", "*", "NUL"}} \union Digits

Sentence(text) == <<Byte("$")>> \o text \o <<Byte("*"), Crc(text)>>
Whole == {Sentence(text) : text \in Texts}

ASSUME TextsAssumption ==
    /\ {"$", "*", "NUL"} \intersect Chars = {}
    /\ Texts \subseteq Seq({Byte(ch) : ch \in Chars})

(* The reader begins a sentence with a '$' and takes any byte after it.    *)
ASSUME DamagedAssumption ==
    /\ Damaged \subseteq Seq(Bytes)
    /\ \A line \in Damaged : Len(line) > 0 /\ line[1] = Byte("$")

(* put() copies what is behind the sentence too.  The memory of the ring,  *)
(* which is not initialised, is taken to have no star in it.               *)
ASSUME MemoryAssumption ==
    /\ Fresh \subseteq [1 .. SlotSize -> Bytes \ {Byte("*")}]
    /\ Junk \in [1 .. SlotSize -> Bytes]

VARIABLES buf_, head_, tail_, held,
          worker,     \* where NMEA_ReaderParse is
          p, crc,     \* its local variables
          handled,    \* what the last sentence was handled as, or Dropped
          sent,       \* history: what the receiver sent, of each slot
          overrun,    \* history: the slot was written since it was taken
          cut         \* history: slots not written since NMEA_ReaderParse cut
                      \* them behind a sentence that does not fit, or that an
                      \* overrun took away

Ring == INSTANCE CircularBuffer WITH Values <- Fresh

ringVars == <<buf_, head_, tail_, held>>
parseVars == <<worker, p, crc, handled>>
historyVars == <<sent, overrun, cut>>
vars == <<ringVars, parseVars, historyVars>>

NoSlot == Ring!NoSlot
Nothing == <<>>
Dropped == <<>>
Fits(line) == Len(line) < SlotSize

Init ==
    /\ Ring!RingInit
    /\ worker = "idle" /\ p = 0 /\ crc = Nothing /\ handled = Dropped
    /\ sent = [slot \in Ring!Slots |-> Nothing]
    /\ overrun = FALSE /\ cut = {}

-----------------------------------------------------------------------------
(* A sentence that is stored without its end.                              *)
Unterminated(line) ==
    [n \in 1 .. SlotSize |-> IF n <= Len(line) THEN line[n] ELSE Junk[n]]

(* What put() copies: the sentence, its end, and what longer ones left in  *)
(* the reader's buffer.                                                    *)
Terminated(line) ==
    [n \in 1 .. SlotSize |-> IF n <= Len(line) THEN line[n]
                             ELSE IF n = Len(line) + 1 THEN NUL
                             ELSE Junk[n]]

EndSentence(line) ==
    /\ Ring!Put(Terminated(line))
    /\ sent' = [sent EXCEPT ![head_] = line]
    /\ overrun' = (overrun \/ held = head_)
    /\ cut' = cut \ {head_}
    /\ UNCHANGED parseVars

-----------------------------------------------------------------------------
(* Addresses of bytes in the ring.                                         *)
End == Size * SlotSize
SlotOf(at) == at \div SlotSize
At(at) == IF at >= End THEN NUL ELSE buf_[SlotOf(at)][(at % SlotSize) + 1]
msg == held * SlotSize

(* The first of some bytes from an address on, and the string up to it.    *)
First(at, bytes) ==
    CHOOSE b \in at .. End : /\ At(b) \in bytes
                             /\ \A c \in at .. b - 1 : At(c) \notin bytes
StringAt(at) ==
    [n \in 1 .. First(at, {NUL}) - at |-> At(at + n - 1)]

Step(from, to) ==
    /\ worker = from /\ worker' = to
    /\ UNCHANGED <<head_, tail_, sent>>

Finish(from, text) ==
    /\ Step(from, "idle")
    /\ handled' = text
    /\ held' = NoSlot /\ p' = 0 /\ crc' = Nothing
    /\ UNCHANGED <<buf_, overrun, cut>>

(* The worker's unlocked look at the ring is WorkerThread's matter.        *)
Take ==
    /\ worker = "idle" /\ worker' = "find"
    /\ head_ # tail_
    /\ Ring!Get
    /\ overrun' = FALSE /\ handled' = Dropped
    /\ UNCHANGED <<p, crc, sent, cut>>

(* strstr and strtol: a digit more makes another number.                   *)
FindStar ==
    LET star == First(msg, {Byte("*"), NUL})
    IN /\ Step("find", "cut")
       /\ At(star) # NUL
       /\ p' = star
       /\ crc' = IF At(star + 2) \in Digits THEN Nothing ELSE At(star + 1)
       /\ UNCHANGED <<buf_, held, handled, overrun, cut>>

NoStar ==
    /\ worker = "find" /\ At(First(msg, {Byte("*"), NUL})) = NUL
    /\ Finish("find", Dropped)

Cut ==
    /\ Step("cut", "check")
    /\ buf_' = [buf_ EXCEPT ![SlotOf(p)][(p % SlotSize) + 1] = NUL]
    /\ cut' = cut \union IF overrun \/ ~Fits(sent[held]) THEN {SlotOf(p)} ELSE {}
    /\ UNCHANGED <<held, p, crc, handled, overrun>>

(* A test that looks for a checksum of any text.                           *)
ChecksumAny(text) == crc \in Digits

Checksum(text) == crc = Crc(text)

PassCheck ==
    /\ Step("check", "handle")
    /\ Checksum(StringAt(msg + 1))
    /\ UNCHANGED <<buf_, held, p, crc, handled, overrun, cut>>

FailCheck ==
    /\ worker = "check" /\ ~Checksum(StringAt(msg + 1))
    /\ Finish("check", Dropped)

(* The client has had the raw sentence; a handler copies the string first. *)
Handle == worker = "handle" /\ Finish("handle", StringAt(msg))

NMEA_ReaderParse ==
    Take \/ FindStar \/ NoStar \/ Cut \/ PassCheck \/ FailCheck \/ Handle

Next ==
    \/ \E line \in Whole \union Damaged : EndSentence(line)
    \/ NMEA_ReaderParse

Spec == Init /\ [][Next]_vars

-----------------------------------------------------------------------------
Finishes == worker # "idle" /\ worker' = "idle" /\ ~overrun

(* What is handled says what some sentence of the receiver said, however   *)
(* sentences were damaged or run into each other in the ring; only a ring  *)
(* that overruns the slot being parsed may put in something else between   *)
(* the checksum and the handler.                                           *)
HandledIsIntact ==
    [][Finishes => handled' \in {Dropped} \union
                                {<<Byte("$")>> \o text : text \in Texts}]_vars

(* A whole sentence that fits its slot is handled as what it says, with    *)
(* whatever bytes of longer ones behind it in the reader's buffer.  Only   *)
(* the parsing of a sentence that does not fit or was overrun may cut it   *)
(* while it waits.                                                         *)
FittingIsHandled ==
    [][Finishes /\ held \notin cut /\ sent[held] \in Whole
       /\ Fits(sent[held])
         => handled' = SubSeq(sent[held], 1, Len(sent[held]) - 2)]_vars
=============================================================================
