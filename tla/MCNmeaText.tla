------------------------------ MODULE MCNmeaText ------------------------------
(***************************************************************************)
(* Values for model checking NmeaText with slots of five bytes: sentences  *)
(* that leave room for their end, fill the slot, and lose their checksum   *)
(* or also their '*' to the end of the slot.                               *)
(***************************************************************************)
EXTENDS NmeaText

x == Byte("x")
y == Byte("y")

MCTexts == {<<x>>, <<y>>, <<x, y>>, <<x, y, x>>, <<y, x, x, x>>}

(* A changed byte, and two sentences made one.                             *)
MCDamaged ==
    {<<Byte("$"), x, Byte("*"), Crc(<<y>>)>>,
     Sentence(<<x>>) \o Tail(Sentence(<<y>>))}

(* Slots never used, and what sentences have left in the reader's buffer.  *)
MCFresh == {[n \in 1 .. SlotSize |-> byte] : byte \in {Crc(<<x>>), NUL}}
MCJunk == [n \in 1 .. SlotSize |-> IF n % 2 = 0 THEN Byte("*") ELSE Crc(<<x>>)]
=============================================================================
