----------------------------- MODULE WorkerThread -----------------------------
(***************************************************************************)
(* The thread that reads the tty fills a ring, a worker (NMEA_Thread or    *)
(* UBX_Thread) empties it.  The worker looks at the ring without its       *)
(* mutex, and waits on a condition variable without a predicate.  The      *)
(* process never leaves joinRpcThreadpool(), so the flag that would end    *)
(* the worker stays unset.                                                 *)
(***************************************************************************)
EXTENDS CircularBuffer

CONSTANT NoValue  \* what the worker works on when it holds no slot

ASSUME NoValueAssumption == NoValue \notin Values

VARIABLES worker,  \* where the worker is
          seen,    \* what empty() has loaded so far: which index, its value
          reader   \* where the tty thread is

vars == <<ringVars, worker, seen, reader>>

WorkerPoints == {"empty", "loaded", "get", "parse", "lock", "wait"}
Indices == {"head_", "tail_"}

(* head_ and tail_ of circular_buffer.h stay inside the ring, and so does  *)
(* the slot the worker holds.                                              *)
TypeOK ==
    /\ RingTypeOK
    /\ worker \in WorkerPoints
    /\ seen \in Indices \X Slots
    /\ reader \in {"put", "notify"}

Init ==
    /\ RingInit
    /\ worker = "empty"
    /\ seen = <<"head_", 0>>
    /\ reader = "put"

(* empty() loads both indices with nothing to order them against put().    *)
Value(index) == IF index = "head_" THEN head_ ELSE tail_

LoadOne ==
    /\ worker = "empty"
    /\ worker' = "loaded"
    /\ \E index \in Indices : seen' = <<index, Value(index)>>
    /\ UNCHANGED <<ringVars, reader>>

LoadOther ==
    /\ worker = "loaded"
    /\ \E index \in Indices \ {seen[1]} :
         worker' = IF Value(index) = seen[2] THEN "lock" ELSE "get"
    /\ UNCHANGED <<ringVars, seen, reader>>

GetMessage ==
    /\ worker = "get"
    /\ worker' = "parse"
    /\ Get
    /\ UNCHANGED <<seen, reader>>

(* The parser has read the slot for the last time.                         *)
ParseMessage ==
    /\ worker = "parse"
    /\ worker' = "empty"
    /\ held' = NoSlot
    /\ UNCHANGED <<buf_, head_, tail_, seen, reader>>

BeginWait ==
    /\ worker = "lock"
    /\ worker' = "wait"
    /\ UNCHANGED <<ringVars, seen, reader>>

(* A condition variable may wake a thread for no reason.                   *)
SpuriousWakeup ==
    /\ worker = "wait"
    /\ worker' = "empty"
    /\ UNCHANGED <<ringVars, seen, reader>>

PutMessage(v) ==
    /\ reader = "put"
    /\ reader' = "notify"
    /\ Put(v)
    /\ UNCHANGED <<worker, seen>>

(* A notification only for the message that ends an empty ring.            *)
NotifyFirst ==
    /\ reader = "notify"
    /\ reader' = "put"
    /\ worker' = IF worker = "wait" /\ Count = 1 THEN "empty" ELSE worker
    /\ UNCHANGED <<ringVars, seen>>

(* notify_all() without the mutex of the wait: lost on a worker that has   *)
(* seen an empty ring and does not wait yet.                               *)
Notify ==
    /\ reader = "notify"
    /\ reader' = "put"
    /\ worker' = IF worker = "wait" THEN "empty" ELSE worker
    /\ UNCHANGED <<ringVars, seen>>

WorkerStep == LoadOne \/ LoadOther \/ GetMessage \/ ParseMessage \/ BeginWait
ReaderStep == (\E v \in Values : PutMessage(v)) \/ Notify

Next == WorkerStep \/ ReaderStep \/ SpuriousWakeup

(* Both threads run, and the receiver goes on sending.                     *)
Fairness == WF_vars(WorkerStep) /\ WF_vars(ReaderStep)

Spec == Init /\ [][Next]_vars
FairSpec == Spec /\ Fairness

-----------------------------------------------------------------------------
(* empty() is unlocked and separate from get(), yet get() never returns    *)
(* nullptr, which the worker would use without a look at it.               *)
ParseHasMessage == worker = "parse" => held # NoSlot

(* The ring is a bounded FIFO that drops its oldest message, and the slot  *)
(* a parser reads is only written by a put that finds the ring full.       *)
Fifo == INSTANCE LossyFifo WITH
            Capacity <- Size - 1,
            waiting <- Contents,
            current <- IF held = NoSlot THEN NoValue ELSE buf_[held]
FifoSpec == Fifo!Spec

(* A notification may be lost, but never so that the worker sleeps on      *)
(* while messages go on arriving.  Only a reader that fills the whole ring *)
(* between two loads of empty(), again and again, could keep it from one.  *)
WorkerGoesOn ==
    []<>(worker = "parse") \/ []<>(worker = "loaded" /\ Count = Size - 1)
=============================================================================
