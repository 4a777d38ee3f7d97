------------------------------ MODULE LossyFifo ------------------------------
(***************************************************************************)
(* What the ring between the reader of the tty and a worker thread         *)
(* promises: messages are taken in the order they came, a message that     *)
(* finds Capacity others waiting displaces the oldest, and the message     *)
(* being worked on changes only under such an overrun.                     *)
(***************************************************************************)
EXTENDS Integers, Sequences

CONSTANTS Values,    \* the messages
          Capacity,  \* how many may wait
          NoValue    \* no message is being worked on

VARIABLES waiting,   \* messages waiting, oldest first
          current    \* the message the worker works on

Init ==
    /\ waiting = <<>>
    /\ current = NoValue

Arrive(v) ==
    /\ Len(waiting) < Capacity
    /\ waiting' = Append(waiting, v)
    /\ UNCHANGED current

(* The reader does not wait for the worker: the oldest message goes, and   *)
(* the message being worked on may turn into the new one.                  *)
Overrun(v) ==
    /\ Len(waiting) = Capacity
    /\ waiting' = Append(Tail(waiting), v)
    /\ current' = current \/ (current # NoValue /\ current' = v)

Take ==
    /\ current = NoValue
    /\ waiting # <<>>
    /\ current' = Head(waiting)
    /\ waiting' = Tail(waiting)

Finish ==
    /\ current # NoValue
    /\ current' = NoValue
    /\ UNCHANGED waiting

Next == Take \/ Finish \/ \E v \in Values : Arrive(v) \/ Overrun(v)

Spec == Init /\ [][Next]_<<waiting, current>>
=============================================================================
