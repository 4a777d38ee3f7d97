---------------------------- MODULE CircularBuffer ----------------------------
(***************************************************************************)
(* circular_buffer.h: a ring of Size slots of which Size - 1 hold          *)
(* messages.  put and get run under the ring's mutex, empty() does not.    *)
(* get() returns a pointer into the ring and frees the slot at once; held  *)
(* is the slot the caller still reads.                                     *)
(***************************************************************************)
EXTENDS Integers, Sequences

CONSTANTS Size,    \* size_: 32 for the NMEA and the UBX ring
          Values   \* the messages

ASSUME SizeAssumption == Size \in Nat /\ Size > 1

VARIABLES buf_, head_, tail_,
          held     \* the slot returned by get(), or NoSlot (nullptr)

ringVars == <<buf_, head_, tail_, held>>

Slots == 0 .. Size - 1
NoSlot == -1

RingTypeOK ==
    /\ buf_ \in [Slots -> Values]
    /\ head_ \in Slots
    /\ tail_ \in Slots
    /\ held \in Slots \union {NoSlot}

(* The slots are not initialised.                                          *)
RingInit ==
    /\ buf_ \in [Slots -> Values]
    /\ head_ = 0
    /\ tail_ = 0
    /\ held = NoSlot

After(i) == (i + 1) % Size

(* put without its test for a full ring.                                   *)
PutKeepingTail(v) ==
    /\ buf_' = [buf_ EXCEPT ![head_] = v]
    /\ head_' = After(head_)
    /\ UNCHANGED <<tail_, held>>

Put(v) ==
    /\ buf_' = [buf_ EXCEPT ![head_] = v]
    /\ head_' = After(head_)
    /\ tail_' = IF After(head_) = tail_ THEN After(tail_) ELSE tail_
    /\ UNCHANGED held

(* get that hands out a slot and leaves the message in the ring.           *)
GetKeepingTail ==
    /\ held' = IF head_ = tail_ THEN NoSlot ELSE tail_
    /\ UNCHANGED <<buf_, head_, tail_>>

Get ==
    /\ held' = IF head_ = tail_ THEN NoSlot ELSE tail_
    /\ tail_' = IF head_ = tail_ THEN tail_ ELSE After(tail_)
    /\ UNCHANGED <<buf_, head_>>

(* How many messages are between tail t and head h, the slot of the i-th   *)
(* after the oldest, and the messages of ring b, oldest first.             *)
CountOf(h, t) == IF t <= h THEN h - t ELSE h - t + Size
SlotOf(t, i) == IF t + i < Size THEN t + i ELSE t + i - Size
ContentsOf(b, h, t) == [i \in 1 .. CountOf(h, t) |-> b[SlotOf(t, i - 1)]]

Count == CountOf(head_, tail_)
Contents == ContentsOf(buf_, head_, tail_)
=============================================================================
