---------------------------- MODULE GnssMeasQueue ----------------------------
(***************************************************************************)
(* The queue of parsed UBX messages between the UBX thread, which pushes,  *)
(* and the measurement callback thread, which pops (GnssMeasQueue.cpp).    *)
(* Every operation runs under mLock, so each is one action here.  The      *)
(* object is a singleton: it outlives every measurement session.           *)
(***************************************************************************)
EXTENDS Integers, Sequences

CONSTANTS Kinds,   \* the kinds of message a report needs one of each of
          MaxSize  \* mMaxSize, 100 in the code

ASSUME KindsAssumption == Kinds # {}
ASSUME MaxSizeAssumption == MaxSize \in Nat \ {0}

VARIABLES mState,  \* the queue accepts messages
          mQueue   \* the parsers waiting, oldest first

queueVars == <<mState, mQueue>>

(* A parser object: which message it holds, whether the message passed the *)
(* parser's own checks, and its place in the order of arrival.             *)
Message == [kind : Kinds, valid : BOOLEAN, seq : Nat]

QueueTypeOK ==
    /\ mState \in BOOLEAN
    /\ mQueue \in Seq(Message)

QueueInit ==
    /\ mState = FALSE
    /\ mQueue = <<>>

(* push without its test of mState.                                        *)
PushWhileOff(m) ==
    /\ mQueue' = IF Len(mQueue) < MaxSize THEN Append(mQueue, m) ELSE mQueue
    /\ UNCHANGED mState

Push(m) ==
    /\ mQueue' = IF mState /\ Len(mQueue) < MaxSize
                 THEN Append(mQueue, m)
                 ELSE mQueue
    /\ UNCHANGED mState

Empty == mQueue = <<>>

(* pop() of a queue that holds something; the nullptr it returns for an    *)
(* empty one leaves the queue alone.                                       *)
Pop ==
    /\ mQueue' = IF Empty THEN mQueue ELSE Tail(mQueue)
    /\ UNCHANGED mState

SetState(on) ==
    /\ mState' = on
    /\ mQueue' = IF on THEN mQueue ELSE <<>>

(* An off queue holds nothing, so a session never starts with the messages *)
(* of an earlier one, and a full queue drops the newest message.           *)
QueueOffIsEmpty == ~mState => Empty
QueueBounded == Len(mQueue) <= MaxSize
QueueLimits == QueueOffIsEmpty /\ QueueBounded
=============================================================================
