------------------------ MODULE GnssMeasurementProofs ------------------------
(***************************************************************************)
(* The safety properties of measurement sessions, proved for every queue   *)
(* size, set of kinds, number of events, and any number of sessions and    *)
(* messages.                                                               *)
(***************************************************************************)
EXTENDS GnssMeasurement, SequenceTheorems, TLAPS

(***************************************************************************)
(* The inductive invariant, in parts.                                      *)
(***************************************************************************)

(* The binder and callback threads never meet out of step: the callback    *)
(* thread exists exactly from the spawn to the join, it only ends on a     *)
(* mThreadExit that close() set, and the queue is on while it loops.       *)
StepsAgree ==
    /\ cb # NoCb => cb = session
    /\ binder = "sc_set" => cb = NoCb /\ thread = "none"
    /\ binder = "sc_spawn" => cb # NoCb /\ thread = "none"
    /\ binder = "cl_null" => cb # NoCb /\ thread # "none" /\ ~mThreadExit
    /\ binder = "cl_exit" => cb = NoCb /\ thread # "none" /\ ~mThreadExit
    /\ binder \in {"cl_notify", "cl_join"} => cb = NoCb /\ thread # "none"
    /\ binder = "idle" /\ cb = NoCb => thread = "none"
    /\ binder = "idle" /\ cb # NoCb => thread # "none" /\ ~mThreadExit
    /\ thread \in {"off", "done"} => binder \in {"cl_notify", "cl_join"}
    /\ mState <=> thread \notin {"none", "start", "done"}
    /\ thread = "pop" => ~Empty
    /\ thread = "call" => target = session /\ flagReady = Kinds

(* Messages are queued in their order of arrival, newer than everything    *)
(* merged or reported; what is merged is valid and of this session.        *)
QueueInOrder ==
    \A i, j \in 1 .. Len(mQueue) : i < j => mQueue[i].seq < mQueue[j].seq

QueueIsNew ==
    \A i \in 1 .. Len(mQueue) :
        /\ mQueue[i].seq > firstSeq /\ mQueue[i].seq <= arrived
        /\ \A m \in lastReport \union data : m.seq < mQueue[i].seq

DataIsNew ==
    /\ firstSeq <= arrived
    /\ thread \in {"none", "start", "off", "done"} => data = {}
    /\ \A m \in lastReport : m.seq <= arrived
    /\ \A m \in data : m.valid /\ m.seq > firstSeq /\ m.seq <= arrived
    /\ \A k \in flagReady : \E m \in data : m.kind = k
    /\ thread \in {"check", "pop", "test", "call"} =>
         \A m \in data, n \in lastReport : m.seq > n.seq

(* The gate is never lower than what the session owes, through every step  *)
(* of UpdateStatus, and a location sent early leaves no second one behind. *)
InSession == binder \notin Closing
             /\ (cb # NoCb \/ binder \in {"sc_set", "sc_spawn"})

GateInv ==
    InSession =>
        /\ mEventsToWait >= EventsNum - reports
        /\ thread = "load" => mEventsToWait >= EventsNum - reports + 1
        /\ thread = "store" => tmpEventsNum >= EventsNum - reports

EarlyInv ==
    /\ early <= 1
    /\ InSession /\ reports < EventsNum /\ early = 1 => nmea = "idle"

IInv ==
    /\ TypeOK
    /\ QueueOffIsEmpty
    /\ QueueBounded
    /\ up => /\ StepsAgree
             /\ QueueInOrder
             /\ QueueIsNew
             /\ DataIsNew
             /\ GateInv
    /\ EarlyInv

(* The messages of a queue have numbers to compare.                        *)
LEMMA QueueSeqs ==
    ASSUME TypeOK
    PROVE  \A i \in 1 .. Len(mQueue) : mQueue[i] \in Message
                                         /\ mQueue[i].seq \in Nat
<1>1. \A i \in 1 .. Len(mQueue) : mQueue[i] \in Message
  BY DEF TypeOK, QueueTypeOK
<1>2. \A m \in Message : m.seq \in Nat
  BY DEF Message
<1>. QED
  BY <1>1, <1>2

(* Every step keeps the types.                                             *)
LEMMA TypeStep ==
    ASSUME TypeOK, [Next]_vars
    PROVE  TypeOK'
<1>. USE DEF sessionVars, batchVars, historyVars, locVars, queueVars, TypeOK,
             QueueTypeOK, SyncTypeOK, BinderPoints, ThreadPoints, NoCb
<1>1. CASE SetCallbackGate
  BY <1>1, EventsNumAssumption DEF SetCallbackGate, SetEventsToWait,
         NonNegative
<1>2. CASE SetCallbackStore  BY <1>2 DEF SetCallbackStore
<1>3. CASE SetCallbackSpawn  BY <1>3 DEF SetCallbackSpawn
<1>4. CASE CloseGate  BY <1>4 DEF CloseGate, SetEventsToWait, NonNegative
<1>5. CASE CloseNull  BY <1>5 DEF CloseNull
<1>6. CASE CloseExit  BY <1>6 DEF CloseExit
<1>7. CASE CloseNotify  BY <1>7 DEF CloseNotify
<1>8. CASE CloseJoin  BY <1>8 DEF CloseJoin
<1>9. CASE ThreadStart  BY <1>9 DEF ThreadStart, SetState
<1>10. CASE Loop  BY <1>10 DEF Loop
<1>11. CASE CheckQueue  BY <1>11 DEF CheckQueue, Empty
<1>12. CASE PopMessage
  <2>1. mQueue' \in Seq(Message)
    BY <1>12 DEF PopMessage, Pop, Empty, TypeOK, QueueTypeOK
  <2>2. CASE Empty
    BY <1>12, <2>1, <2>2 DEF PopMessage, Pop, TypeOK, QueueTypeOK, SyncTypeOK,
         BinderPoints, ThreadPoints
  <2>3. CASE ~Empty
    <3>1. Head(mQueue) \in Message
      BY <2>3 DEF Empty, TypeOK, QueueTypeOK
    <3>2. Head(mQueue).kind \in Kinds
      BY <3>1 DEF Message
    <3>3. flagReady' \subseteq Kinds /\ data' \subseteq Message
      BY <1>12, <2>3, <3>1, <3>2 DEF PopMessage, TypeOK
    <3>. QED
      BY <1>12, <2>1, <2>3, <3>3 DEF PopMessage, Pop, TypeOK, QueueTypeOK,
           SyncTypeOK, BinderPoints, ThreadPoints
  <2>. QED
    BY <2>2, <2>3
<1>13. CASE TestReady  BY <1>13 DEF TestReady, Ready
<1>14. CASE CallClient  BY <1>14 DEF CallClient
<1>15. CASE UpdateStatus1  BY <1>15 DEF UpdateStatus1, UpdateStatusLoad
<1>16. CASE UpdateStatus2
  BY <1>16 DEF UpdateStatus2, UpdateStatusStore, NonNegative
<1>17. CASE BeginWait  BY <1>17 DEF BeginWait
<1>18. CASE WaitTimeout  BY <1>18 DEF WaitTimeout
<1>19. CASE ThreadEnd
  <2>1. mQueue' \in Seq(Message) /\ mState' \in BOOLEAN
    BY <1>19, EmptySeq DEF ThreadEnd, SetState
  <2>. QED
    BY <1>19, <2>1 DEF ThreadEnd, TypeOK, QueueTypeOK, SyncTypeOK, ThreadPoints
<1>20. CASE \E k \in Kinds, v \in BOOLEAN : PushMessage(k, v)
  <2>1. PICK k \in Kinds, v \in BOOLEAN : PushMessage(k, v)
    BY <1>20
  <2>2. [kind |-> k, valid |-> v, seq |-> arrived + 1] \in Message
    BY DEF Message, TypeOK
  <2>3. mQueue' \in Seq(Message)
    BY <2>1, <2>2 DEF PushMessage, Push, TypeOK, QueueTypeOK
  <2>. QED
    BY <2>1, <2>3 DEF PushMessage, Push, TypeOK, QueueTypeOK, SyncTypeOK
<1>21. CASE LocationGate  BY <1>21 DEF LocationGate, WaitToSend
<1>22. CASE LocationSend  BY <1>22 DEF LocationSend, Owed
<1>23. CASE CallReleased  BY <1>23 DEF CallReleased
<1>24. CASE Restart
  <2>1. mQueue' \in Seq(Message) /\ mState' \in BOOLEAN
    BY <1>24, EmptySeq DEF Restart
  <2>2. binder' \in BinderPoints /\ thread' \in ThreadPoints /\ cb' \in Nat
        /\ target' \in Nat
    BY <1>24 DEF Restart, BinderPoints, ThreadPoints, NoCb
  <2>3. up' \in BOOLEAN /\ mThreadExit' \in BOOLEAN
        /\ flagReady' \subseteq Kinds /\ data' \subseteq Message
        /\ nmea' \in {"idle", "send"}
    BY <1>24 DEF Restart
  <2>5. mEventsToWait' \in Nat /\ tmpEventsNum' \in Int
    BY <1>24 DEF Restart
  <2>4. session' \in Nat /\ arrived' \in Nat /\ firstSeq' \in Nat
        /\ reports' \in Nat /\ lastReport' \subseteq Message /\ early' \in Nat
    BY <1>24 DEF Restart, TypeOK
  <2>. QED
    BY <2>1, <2>2, <2>3, <2>4, <2>5 DEF TypeOK, QueueTypeOK, SyncTypeOK
<1>25. CASE UNCHANGED vars  BY <1>25 DEF vars
<1>. QED
  BY <1>1, <1>2, <1>3, <1>4, <1>5, <1>6, <1>7, <1>8, <1>9, <1>10,
     <1>11, <1>12, <1>13, <1>14, <1>15, <1>16, <1>17, <1>18, <1>19, <1>20,
     <1>21, <1>22, <1>23, <1>24, <1>25
     DEF Next, SetCallback, Close, CallbackThread, Environment

(* The threads stay in step. *)
LEMMA StepsAgreeStep ==
    ASSUME TypeOK, up => StepsAgree, up', [Next]_vars
    PROVE  StepsAgree'
<1>. USE DEF sessionVars, batchVars, historyVars, locVars, queueVars,
             StepsAgree, TypeOK, QueueTypeOK, BinderPoints, ThreadPoints,
             NoCb, Empty
<1>1. CASE SetCallbackGate
  BY <1>1 DEF SetCallbackGate, SetEventsToWait, NonNegative
<1>2. CASE SetCallbackStore  BY <1>2 DEF SetCallbackStore
<1>3. CASE SetCallbackSpawn  BY <1>3 DEF SetCallbackSpawn
<1>4. CASE CloseGate  BY <1>4 DEF CloseGate, SetEventsToWait, NonNegative
<1>5. CASE CloseNull  BY <1>5 DEF CloseNull
<1>6. CASE CloseExit  BY <1>6 DEF CloseExit
<1>7. CASE CloseNotify  BY <1>7 DEF CloseNotify
<1>8. CASE CloseJoin  BY <1>8 DEF CloseJoin
<1>9. CASE ThreadStart  BY <1>9 DEF ThreadStart, SetState
<1>10. CASE Loop  BY <1>10 DEF Loop
<1>11. CASE CheckQueue  BY <1>11 DEF CheckQueue
<1>12. CASE PopMessage  BY <1>12 DEF PopMessage, Pop
<1>13. CASE TestReady  BY <1>13 DEF TestReady, Ready
<1>14. CASE CallClient  BY <1>14 DEF CallClient
<1>15. CASE UpdateStatus1  BY <1>15 DEF UpdateStatus1, UpdateStatusLoad
<1>16. CASE UpdateStatus2
  BY <1>16 DEF UpdateStatus2, UpdateStatusStore, NonNegative
<1>17. CASE BeginWait  BY <1>17 DEF BeginWait
<1>18. CASE WaitTimeout  BY <1>18 DEF WaitTimeout
<1>19. CASE ThreadEnd  BY <1>19 DEF ThreadEnd, SetState
<1>20. CASE \E k \in Kinds, v \in BOOLEAN : PushMessage(k, v)
  BY <1>20 DEF PushMessage, Push
<1>21. CASE LocationGate  BY <1>21 DEF LocationGate, WaitToSend
<1>22. CASE LocationSend  BY <1>22 DEF LocationSend, Owed
<1>23. CASE CallReleased  BY <1>23 DEF CallReleased
<1>24. CASE Restart  BY <1>24 DEF Restart
<1>25. CASE UNCHANGED vars  BY <1>25 DEF vars
<1>. QED
  BY <1>1, <1>2, <1>3, <1>4, <1>5, <1>6, <1>7, <1>8, <1>9, <1>10,
     <1>11, <1>12, <1>13, <1>14, <1>15, <1>16, <1>17, <1>18, <1>19, <1>20,
     <1>21, <1>22, <1>23, <1>24, <1>25
     DEF Next, SetCallback, Close, CallbackThread, Environment

(* The queue keeps its limits. *)
LEMMA QueueLimitsStep ==
    ASSUME TypeOK, QueueOffIsEmpty, QueueBounded,
           [Next]_vars
    PROVE  QueueOffIsEmpty' /\ QueueBounded'
<1>. USE DEF sessionVars, batchVars, historyVars, locVars, queueVars,
             QueueOffIsEmpty, QueueBounded, TypeOK, QueueTypeOK, Empty
<1>1. CASE SetCallbackGate
  BY <1>1 DEF SetCallbackGate, SetEventsToWait, NonNegative
<1>2. CASE SetCallbackStore  BY <1>2 DEF SetCallbackStore
<1>3. CASE SetCallbackSpawn  BY <1>3 DEF SetCallbackSpawn
<1>4. CASE CloseGate  BY <1>4 DEF CloseGate, SetEventsToWait, NonNegative
<1>5. CASE CloseNull  BY <1>5 DEF CloseNull
<1>6. CASE CloseExit  BY <1>6 DEF CloseExit
<1>7. CASE CloseNotify  BY <1>7 DEF CloseNotify
<1>8. CASE CloseJoin  BY <1>8 DEF CloseJoin
<1>9. CASE ThreadStart  BY <1>9 DEF ThreadStart, SetState
<1>10. CASE Loop  BY <1>10 DEF Loop
<1>11. CASE CheckQueue  BY <1>11 DEF CheckQueue
<1>12. CASE PopMessage
  <2>1. CASE Empty
    BY <1>12, <2>1 DEF PopMessage, Pop, QueueOffIsEmpty, QueueBounded, Empty
  <2>2. CASE ~Empty
    <3>1. Len(mQueue') = Len(mQueue) - 1 /\ mState' = mState
      BY <1>12, <2>2 DEF PopMessage, Pop, Empty, TypeOK, QueueTypeOK
    <3>2. Len(mQueue) \in Nat /\ mState
      BY <2>2 DEF QueueOffIsEmpty, TypeOK, QueueTypeOK
    <3>. QED
      BY <3>1, <3>2, MaxSizeAssumption DEF QueueOffIsEmpty, QueueBounded
  <2>. QED
    BY <2>1, <2>2
<1>13. CASE TestReady  BY <1>13 DEF TestReady, Ready
<1>14. CASE CallClient  BY <1>14 DEF CallClient
<1>15. CASE UpdateStatus1  BY <1>15 DEF UpdateStatus1, UpdateStatusLoad
<1>16. CASE UpdateStatus2
  BY <1>16 DEF UpdateStatus2, UpdateStatusStore, NonNegative
<1>17. CASE BeginWait  BY <1>17 DEF BeginWait
<1>18. CASE WaitTimeout  BY <1>18 DEF WaitTimeout
<1>19. CASE ThreadEnd  BY <1>19, MaxSizeAssumption DEF ThreadEnd, SetState
<1>20. CASE \E k \in Kinds, v \in BOOLEAN : PushMessage(k, v)
  BY <1>20, MaxSizeAssumption DEF PushMessage, Push
<1>21. CASE LocationGate  BY <1>21 DEF LocationGate, WaitToSend
<1>22. CASE LocationSend  BY <1>22 DEF LocationSend, Owed
<1>23. CASE CallReleased  BY <1>23 DEF CallReleased
<1>24. CASE Restart  BY <1>24, MaxSizeAssumption DEF Restart
<1>25. CASE UNCHANGED vars  BY <1>25 DEF vars
<1>. QED
  BY <1>1, <1>2, <1>3, <1>4, <1>5, <1>6, <1>7, <1>8, <1>9, <1>10,
     <1>11, <1>12, <1>13, <1>14, <1>15, <1>16, <1>17, <1>18, <1>19, <1>20,
     <1>21, <1>22, <1>23, <1>24, <1>25
     DEF Next, SetCallback, Close, CallbackThread, Environment

(* The queue stays in the order of arrival. *)
LEMMA QueueInOrderStep ==
    ASSUME TypeOK,
           up => StepsAgree /\ QueueInOrder /\ QueueIsNew, up', [Next]_vars
    PROVE  QueueInOrder'
<1>. USE DEF sessionVars, batchVars, historyVars, locVars, queueVars,
             QueueInOrder, TypeOK, QueueTypeOK, Empty
<1>1. CASE SetCallbackGate
  BY <1>1 DEF SetCallbackGate, SetEventsToWait, NonNegative
<1>2. CASE SetCallbackStore  BY <1>2 DEF SetCallbackStore
<1>3. CASE SetCallbackSpawn  BY <1>3 DEF SetCallbackSpawn
<1>4. CASE CloseGate  BY <1>4 DEF CloseGate, SetEventsToWait, NonNegative
<1>5. CASE CloseNull  BY <1>5 DEF CloseNull
<1>6. CASE CloseExit  BY <1>6 DEF CloseExit
<1>7. CASE CloseNotify  BY <1>7 DEF CloseNotify
<1>8. CASE CloseJoin  BY <1>8 DEF CloseJoin
<1>9. CASE ThreadStart  BY <1>9 DEF ThreadStart, SetState
<1>10. CASE Loop  BY <1>10 DEF Loop
<1>11. CASE CheckQueue  BY <1>11 DEF CheckQueue
<1>12. CASE PopMessage  BY <1>12 DEF PopMessage, Pop
<1>13. CASE TestReady  BY <1>13 DEF TestReady, Ready
<1>14. CASE CallClient  BY <1>14 DEF CallClient
<1>15. CASE UpdateStatus1  BY <1>15 DEF UpdateStatus1, UpdateStatusLoad
<1>16. CASE UpdateStatus2
  BY <1>16 DEF UpdateStatus2, UpdateStatusStore, NonNegative
<1>17. CASE BeginWait  BY <1>17 DEF BeginWait
<1>18. CASE WaitTimeout  BY <1>18 DEF WaitTimeout
<1>19. CASE ThreadEnd  BY <1>19 DEF ThreadEnd, SetState
<1>20. CASE \E k \in Kinds, v \in BOOLEAN : PushMessage(k, v)
  <2>1. PICK k \in Kinds, v \in BOOLEAN : PushMessage(k, v)
    BY <1>20
  <2>2. CASE mQueue' = mQueue
    BY <2>1, <2>2 DEF PushMessage, QueueInOrder
  <2>3. CASE mQueue' = Append(mQueue,
                              [kind |-> k, valid |-> v, seq |-> arrived + 1])
    <3>. DEFINE m == [kind |-> k, valid |-> v, seq |-> arrived + 1]
    <3>1. /\ Len(mQueue') = Len(mQueue) + 1
          /\ \A i \in 1 .. Len(mQueue) : mQueue'[i] = mQueue[i]
          /\ mQueue'[Len(mQueue) + 1] = m
      BY <2>3 DEF TypeOK, QueueTypeOK
    <3>2. m.seq = arrived + 1 /\ arrived \in Nat /\ Len(mQueue) \in Nat
      BY DEF TypeOK, QueueTypeOK
    <3>3. up /\ QueueInOrder
          /\ \A i \in 1 .. Len(mQueue) : mQueue[i].seq <= arrived
      BY <2>1 DEF PushMessage, QueueIsNew
    <3>. HIDE DEF m
    <3>4. SUFFICES ASSUME NEW i \in 1 .. Len(mQueue'),
                          NEW j \in 1 .. Len(mQueue'), i < j
                   PROVE  mQueue'[i].seq < mQueue'[j].seq
      BY DEF QueueInOrder
    <3>5. i \in 1 .. Len(mQueue) /\ mQueue[i].seq \in Nat
      BY <3>1, <3>2, <3>4, QueueSeqs
    <3>6. CASE j = Len(mQueue) + 1
      BY <3>1, <3>2, <3>3, <3>5, <3>6
    <3>7. CASE j # Len(mQueue) + 1
      <4>1. j \in 1 .. Len(mQueue)
        BY <3>1, <3>2, <3>7
      <4>. QED
        BY <3>1, <3>3, <3>4, <3>5, <4>1 DEF QueueInOrder
    <3>. QED
      BY <3>6, <3>7
  <2>. QED
    BY <2>1, <2>2, <2>3 DEF PushMessage, Push
<1>21. CASE LocationGate  BY <1>21 DEF LocationGate, WaitToSend
<1>22. CASE LocationSend  BY <1>22 DEF LocationSend, Owed
<1>23. CASE CallReleased  BY <1>23 DEF CallReleased
<1>24. CASE Restart  BY <1>24 DEF Restart
<1>25. CASE UNCHANGED vars  BY <1>25 DEF vars
<1>. QED
  BY <1>1, <1>2, <1>3, <1>4, <1>5, <1>6, <1>7, <1>8, <1>9, <1>10,
     <1>11, <1>12, <1>13, <1>14, <1>15, <1>16, <1>17, <1>18, <1>19, <1>20,
     <1>21, <1>22, <1>23, <1>24, <1>25
     DEF Next, SetCallback, Close, CallbackThread, Environment

(* The gate keeps count. *)
LEMMA GateStep ==
    ASSUME TypeOK, up => StepsAgree /\ GateInv, up',
           [Next]_vars
    PROVE  GateInv'
<1>. USE DEF sessionVars, batchVars, historyVars, locVars, queueVars,
             GateInv, InSession, StepsAgree, TypeOK, SyncTypeOK, QueueTypeOK,
             Closing, NoCb
<1>1. CASE SetCallbackGate
  BY <1>1, EventsNumAssumption DEF SetCallbackGate, SetEventsToWait,
         NonNegative
<1>2. CASE SetCallbackStore  BY <1>2 DEF SetCallbackStore
<1>3. CASE SetCallbackSpawn  BY <1>3 DEF SetCallbackSpawn
<1>4. CASE CloseGate  BY <1>4 DEF CloseGate, SetEventsToWait, NonNegative
<1>5. CASE CloseNull  BY <1>5 DEF CloseNull
<1>6. CASE CloseExit  BY <1>6 DEF CloseExit
<1>7. CASE CloseNotify  BY <1>7 DEF CloseNotify
<1>8. CASE CloseJoin  BY <1>8 DEF CloseJoin
<1>9. CASE ThreadStart  BY <1>9 DEF ThreadStart, SetState
<1>10. CASE Loop  BY <1>10 DEF Loop
<1>11. CASE CheckQueue  BY <1>11 DEF CheckQueue, Empty
<1>12. CASE PopMessage  BY <1>12 DEF PopMessage, Pop, Empty
<1>13. CASE TestReady  BY <1>13 DEF TestReady, Ready
<1>14. CASE CallClient  BY <1>14, EventsNumAssumption DEF CallClient
<1>15. CASE UpdateStatus1
  BY <1>15, EventsNumAssumption DEF UpdateStatus1, UpdateStatusLoad
<1>16. CASE UpdateStatus2
  BY <1>16, EventsNumAssumption DEF UpdateStatus2, UpdateStatusStore,
         NonNegative
<1>17. CASE BeginWait  BY <1>17 DEF BeginWait
<1>18. CASE WaitTimeout  BY <1>18 DEF WaitTimeout
<1>19. CASE ThreadEnd  BY <1>19 DEF ThreadEnd, SetState
<1>20. CASE \E k \in Kinds, v \in BOOLEAN : PushMessage(k, v)
  BY <1>20 DEF PushMessage, Push
<1>21. CASE LocationGate  BY <1>21 DEF LocationGate, WaitToSend
<1>22. CASE LocationSend  BY <1>22 DEF LocationSend, Owed
<1>23. CASE CallReleased  BY <1>23 DEF CallReleased
<1>24. CASE Restart  BY <1>24 DEF Restart
<1>25. CASE UNCHANGED vars  BY <1>25 DEF vars
<1>. QED
  BY <1>1, <1>2, <1>3, <1>4, <1>5, <1>6, <1>7, <1>8, <1>9, <1>10,
     <1>11, <1>12, <1>13, <1>14, <1>15, <1>16, <1>17, <1>18, <1>19, <1>20,
     <1>21, <1>22, <1>23, <1>24, <1>25
     DEF Next, SetCallback, Close, CallbackThread, Environment

(* At most one early location. *)
LEMMA EarlyStep ==
    ASSUME TypeOK, up => StepsAgree /\ GateInv, EarlyInv,
           [Next]_vars
    PROVE  EarlyInv'
<1>. USE DEF sessionVars, batchVars, historyVars, locVars, queueVars,
             EarlyInv, GateInv, InSession, StepsAgree, TypeOK, SyncTypeOK,
             QueueTypeOK, Closing, NoCb
<1>1. CASE SetCallbackGate
  BY <1>1, EventsNumAssumption DEF SetCallbackGate, SetEventsToWait,
         NonNegative
<1>2. CASE SetCallbackStore  BY <1>2 DEF SetCallbackStore
<1>3. CASE SetCallbackSpawn  BY <1>3 DEF SetCallbackSpawn
<1>4. CASE CloseGate  BY <1>4 DEF CloseGate, SetEventsToWait, NonNegative
<1>5. CASE CloseNull  BY <1>5 DEF CloseNull
<1>6. CASE CloseExit  BY <1>6 DEF CloseExit
<1>7. CASE CloseNotify  BY <1>7 DEF CloseNotify
<1>8. CASE CloseJoin  BY <1>8 DEF CloseJoin
<1>9. CASE ThreadStart  BY <1>9 DEF ThreadStart, SetState
<1>10. CASE Loop  BY <1>10 DEF Loop
<1>11. CASE CheckQueue  BY <1>11 DEF CheckQueue, Empty
<1>12. CASE PopMessage  BY <1>12 DEF PopMessage, Pop, Empty
<1>13. CASE TestReady  BY <1>13 DEF TestReady, Ready
<1>14. CASE CallClient  BY <1>14, EventsNumAssumption DEF CallClient
<1>15. CASE UpdateStatus1  BY <1>15 DEF UpdateStatus1, UpdateStatusLoad
<1>16. CASE UpdateStatus2
  BY <1>16 DEF UpdateStatus2, UpdateStatusStore, NonNegative
<1>17. CASE BeginWait  BY <1>17 DEF BeginWait
<1>18. CASE WaitTimeout  BY <1>18 DEF WaitTimeout
<1>19. CASE ThreadEnd  BY <1>19 DEF ThreadEnd, SetState
<1>20. CASE \E k \in Kinds, v \in BOOLEAN : PushMessage(k, v)
  BY <1>20 DEF PushMessage, Push
<1>21. CASE LocationGate
  BY <1>21, EventsNumAssumption DEF LocationGate, WaitToSend
<1>22. CASE LocationSend  BY <1>22 DEF LocationSend, Owed
<1>23. CASE CallReleased  BY <1>23 DEF CallReleased
<1>24. CASE Restart  BY <1>24 DEF Restart
<1>25. CASE UNCHANGED vars  BY <1>25 DEF vars
<1>. QED
  BY <1>1, <1>2, <1>3, <1>4, <1>5, <1>6, <1>7, <1>8, <1>9, <1>10,
     <1>11, <1>12, <1>13, <1>14, <1>15, <1>16, <1>17, <1>18, <1>19, <1>20,
     <1>21, <1>22, <1>23, <1>24, <1>25
     DEF Next, SetCallback, Close, CallbackThread, Environment

(* So do the messages that are merged and reported.                        *)
LEMMA BatchSeqs ==
    ASSUME TypeOK
    PROVE  /\ \A m \in data \union lastReport : m.seq \in Nat
           /\ arrived \in Nat /\ firstSeq \in Nat /\ Len(mQueue) \in Nat
  BY DEF TypeOK, QueueTypeOK, Message

(* A message stays newer than all that left the queue before it. *)
LEMMA QueueIsNewStep ==
    ASSUME TypeOK, QueueOffIsEmpty,
           up => StepsAgree /\ QueueInOrder /\ QueueIsNew /\ DataIsNew, up',
           [Next]_vars
    PROVE  QueueIsNew'
<1>. USE DEF sessionVars, batchVars, historyVars, locVars, queueVars,
             QueueIsNew, Empty
<1>1. CASE SetCallbackGate
  BY <1>1 DEF SetCallbackGate, SetEventsToWait, NonNegative
<1>2. CASE SetCallbackStore
  BY <1>2, BatchSeqs
     DEF SetCallbackStore, QueueIsNew, StepsAgree, QueueOffIsEmpty, Empty
<1>3. CASE SetCallbackSpawn  BY <1>3 DEF SetCallbackSpawn
<1>4. CASE CloseGate  BY <1>4 DEF CloseGate, SetEventsToWait, NonNegative
<1>5. CASE CloseNull  BY <1>5 DEF CloseNull
<1>6. CASE CloseExit  BY <1>6 DEF CloseExit
<1>7. CASE CloseNotify  BY <1>7 DEF CloseNotify
<1>8. CASE CloseJoin  BY <1>8 DEF CloseJoin
<1>9. CASE ThreadStart  BY <1>9 DEF ThreadStart, SetState
<1>10. CASE Loop  BY <1>10 DEF Loop
<1>11. CASE CheckQueue  BY <1>11 DEF CheckQueue
<1>12. CASE PopMessage
  <2>1. CASE Empty
    BY <1>12, <2>1 DEF PopMessage, Pop, QueueIsNew, Empty
  <2>2. CASE ~Empty
    <3>1. /\ up /\ arrived' = arrived /\ firstSeq' = firstSeq
          /\ lastReport' = lastReport
          /\ data' \subseteq data \union {mQueue[1]}
      BY <1>12, <2>2 DEF PopMessage, Empty
    <3>2. Len(mQueue) \in Nat \ {0} /\ Len(mQueue') = Len(mQueue) - 1
          /\ \A i \in 1 .. Len(mQueue') : mQueue'[i] = mQueue[i + 1]
      BY <1>12, <2>2 DEF PopMessage, Pop, Empty, TypeOK, QueueTypeOK
    <3>3. SUFFICES ASSUME NEW i \in 1 .. Len(mQueue')
                   PROVE  /\ mQueue[i + 1].seq > firstSeq
                          /\ mQueue[i + 1].seq <= arrived
                          /\ \A m \in data \union lastReport \union {mQueue[1]} :
                               m.seq < mQueue[i + 1].seq
      BY <3>1, <3>2 DEF QueueIsNew
    <3>4. 1 \in 1 .. Len(mQueue) /\ i + 1 \in 1 .. Len(mQueue) /\ 1 < i + 1
      BY <3>2
    <3>. QED
      BY <3>1, <3>4 DEF QueueIsNew, QueueInOrder
  <2>. QED
    BY <2>1, <2>2
<1>13. CASE TestReady  BY <1>13 DEF TestReady, Ready
<1>14. CASE CallClient  BY <1>14 DEF CallClient
<1>15. CASE UpdateStatus1  BY <1>15 DEF UpdateStatus1, UpdateStatusLoad
<1>16. CASE UpdateStatus2
  BY <1>16 DEF UpdateStatus2, UpdateStatusStore, NonNegative
<1>17. CASE BeginWait  BY <1>17 DEF BeginWait
<1>18. CASE WaitTimeout  BY <1>18 DEF WaitTimeout
<1>19. CASE ThreadEnd  BY <1>19 DEF ThreadEnd, SetState
<1>20. CASE \E k \in Kinds, v \in BOOLEAN : PushMessage(k, v)
  <2>1. PICK k \in Kinds, v \in BOOLEAN : PushMessage(k, v)
    BY <1>20
  <2>2. /\ up /\ arrived' = arrived + 1 /\ firstSeq' = firstSeq
        /\ lastReport' = lastReport /\ data' = data
    BY <2>1 DEF PushMessage
  <2>3. CASE mQueue' = mQueue
    BY <2>2, <2>3, QueueSeqs, BatchSeqs DEF QueueIsNew
  <2>4. CASE mQueue' = Append(mQueue,
                              [kind |-> k, valid |-> v, seq |-> arrived + 1])
    <3>. DEFINE m == [kind |-> k, valid |-> v, seq |-> arrived + 1]
    <3>1. /\ Len(mQueue') = Len(mQueue) + 1
          /\ \A i \in 1 .. Len(mQueue) : mQueue'[i] = mQueue[i]
          /\ mQueue'[Len(mQueue) + 1] = m
      BY <2>4 DEF TypeOK, QueueTypeOK
    <3>2. m.seq = arrived + 1
      OBVIOUS
    <3>. HIDE DEF m
    <3>3. m.seq > firstSeq /\ \A n \in lastReport \union data : n.seq < m.seq
      BY <2>2, <3>2, BatchSeqs DEF DataIsNew
    <3>4. SUFFICES ASSUME NEW i \in 1 .. Len(mQueue')
                   PROVE  /\ mQueue'[i].seq > firstSeq
                          /\ mQueue'[i].seq <= arrived + 1
                          /\ \A n \in lastReport \union data :
                               n.seq < mQueue'[i].seq
      BY <2>2 DEF QueueIsNew
    <3>5. CASE i = Len(mQueue) + 1
      BY <3>1, <3>2, <3>3, <3>5, BatchSeqs
    <3>6. CASE i # Len(mQueue) + 1
      <4>1. i \in 1 .. Len(mQueue) /\ mQueue[i].seq \in Nat
        BY <3>1, <3>6, BatchSeqs, QueueSeqs
      <4>. QED
        BY <2>2, <3>1, <4>1, BatchSeqs DEF QueueIsNew
    <3>. QED
      BY <3>5, <3>6
  <2>. QED
    BY <2>1, <2>3, <2>4 DEF PushMessage, Push
<1>21. CASE LocationGate  BY <1>21 DEF LocationGate, WaitToSend
<1>22. CASE LocationSend  BY <1>22 DEF LocationSend, Owed
<1>23. CASE CallReleased  BY <1>23 DEF CallReleased
<1>24. CASE Restart  BY <1>24 DEF Restart
<1>25. CASE UNCHANGED vars  BY <1>25 DEF vars
<1>. QED
  BY <1>1, <1>2, <1>3, <1>4, <1>5, <1>6, <1>7, <1>8, <1>9, <1>10,
     <1>11, <1>12, <1>13, <1>14, <1>15, <1>16, <1>17, <1>18, <1>19, <1>20,
     <1>21, <1>22, <1>23, <1>24, <1>25
     DEF Next, SetCallback, Close, CallbackThread, Environment

(* What is merged stays newer than what was reported. *)
LEMMA DataIsNewStep ==
    ASSUME TypeOK,
           up => StepsAgree /\ QueueIsNew /\ DataIsNew, up', [Next]_vars
    PROVE  DataIsNew'
<1>. USE DEF sessionVars, batchVars, historyVars, locVars, queueVars,
             DataIsNew
<1>1. CASE SetCallbackGate
  BY <1>1 DEF SetCallbackGate, SetEventsToWait, NonNegative
<1>2. CASE SetCallbackStore
  BY <1>2, BatchSeqs DEF SetCallbackStore, DataIsNew, StepsAgree
<1>3. CASE SetCallbackSpawn  BY <1>3 DEF SetCallbackSpawn
<1>4. CASE CloseGate  BY <1>4 DEF CloseGate, SetEventsToWait, NonNegative
<1>5. CASE CloseNull  BY <1>5 DEF CloseNull
<1>6. CASE CloseExit  BY <1>6 DEF CloseExit
<1>7. CASE CloseNotify  BY <1>7 DEF CloseNotify
<1>8. CASE CloseJoin  BY <1>8 DEF CloseJoin
<1>9. CASE ThreadStart  BY <1>9 DEF ThreadStart, SetState
<1>10. CASE Loop  BY <1>10 DEF Loop
<1>11. CASE CheckQueue  BY <1>11 DEF CheckQueue, Empty
<1>12. CASE PopMessage
  <2>1. CASE Empty
    BY <1>12, <2>1 DEF PopMessage, DataIsNew
  <2>2. CASE ~Empty
    <3>. DEFINE m == mQueue[1]
    <3>1. 1 \in 1 .. Len(mQueue)
      BY <2>2 DEF Empty, TypeOK, QueueTypeOK
    <3>2. /\ m.seq > firstSeq /\ m.seq <= arrived
          /\ \A n \in lastReport : n.seq < m.seq
      BY <1>12, <3>1 DEF PopMessage, QueueIsNew
    <3>3. /\ up /\ arrived' = arrived /\ firstSeq' = firstSeq
          /\ lastReport' = lastReport /\ thread = "pop" /\ thread' = "test"
          /\ \/ data' = data /\ flagReady' = flagReady
             \/ m.valid /\ data' = data \union {m}
                /\ flagReady' = flagReady \union {m.kind}
      BY <1>12, <2>2 DEF PopMessage
    <3>4. m.seq \in Nat
      BY <3>1, QueueSeqs
    <3>. HIDE DEF m
    <3>. QED
      BY <3>2, <3>3, <3>4, BatchSeqs DEF DataIsNew
  <2>. QED
    BY <2>1, <2>2
<1>13. CASE TestReady  BY <1>13 DEF TestReady, Ready
<1>14. CASE CallClient  BY <1>14, BatchSeqs DEF CallClient
<1>15. CASE UpdateStatus1  BY <1>15 DEF UpdateStatus1, UpdateStatusLoad
<1>16. CASE UpdateStatus2
  BY <1>16 DEF UpdateStatus2, UpdateStatusStore, NonNegative
<1>17. CASE BeginWait  BY <1>17 DEF BeginWait
<1>18. CASE WaitTimeout  BY <1>18 DEF WaitTimeout
<1>19. CASE ThreadEnd  BY <1>19 DEF ThreadEnd, SetState
<1>20. CASE \E k \in Kinds, v \in BOOLEAN : PushMessage(k, v)
  BY <1>20, BatchSeqs DEF PushMessage, Push
<1>21. CASE LocationGate  BY <1>21 DEF LocationGate, WaitToSend
<1>22. CASE LocationSend  BY <1>22 DEF LocationSend, Owed
<1>23. CASE CallReleased  BY <1>23 DEF CallReleased
<1>24. CASE Restart  BY <1>24, BatchSeqs DEF Restart
<1>25. CASE UNCHANGED vars  BY <1>25 DEF vars
<1>. QED
  BY <1>1, <1>2, <1>3, <1>4, <1>5, <1>6, <1>7, <1>8, <1>9, <1>10,
     <1>11, <1>12, <1>13, <1>14, <1>15, <1>16, <1>17, <1>18, <1>19, <1>20,
     <1>21, <1>22, <1>23, <1>24, <1>25
     DEF Next, SetCallback, Close, CallbackThread, Environment

(***************************************************************************)
(* The invariant holds, and with it the properties of the runs.            *)
(***************************************************************************)
LEMMA InitIInv == Init => IInv
<1>. SUFFICES ASSUME Init PROVE IInv
  OBVIOUS
<1>1. mQueue = <<>> /\ mQueue \in Seq(Message) /\ Len(mQueue) = 0
  BY EmptySeq DEF Init, QueueInit
<1>2. /\ mState = FALSE /\ mEventsToWait = 0 /\ up = TRUE
      /\ binder = "idle" /\ thread = "none" /\ cb = 0 /\ mThreadExit = FALSE
      /\ flagReady = {} /\ data = {} /\ target = 0 /\ tmpEventsNum = 0
      /\ nmea = "idle" /\ session = 0 /\ arrived = 0 /\ firstSeq = 0
      /\ reports = 0 /\ lastReport = {} /\ early = 0
  BY DEF Init, QueueInit, SyncInit, NoCb
<1>3. TypeOK
  <2>1. QueueTypeOK
    BY <1>1, <1>2 DEF QueueTypeOK
  <2>2. SyncTypeOK /\ binder \in BinderPoints /\ thread \in ThreadPoints
    BY <1>2 DEF SyncTypeOK, BinderPoints, ThreadPoints
  <2>. QED
    <3>1. up \in BOOLEAN /\ cb \in Nat /\ mThreadExit \in BOOLEAN
          /\ flagReady \subseteq Kinds /\ data \subseteq Message
      BY <1>2
    <3>2. target \in Nat /\ tmpEventsNum \in Int /\ nmea \in {"idle", "send"}
          /\ lastReport \subseteq Message
      BY <1>2
    <3>3. session \in Nat /\ arrived \in Nat /\ firstSeq \in Nat
          /\ reports \in Nat /\ early \in Nat
      BY <1>2
    <3>. QED
      BY <2>1, <2>2, <3>1, <3>2, <3>3 DEF TypeOK
<1>4. QueueOffIsEmpty /\ QueueBounded
  BY <1>1, MaxSizeAssumption DEF QueueOffIsEmpty, QueueBounded, Empty
<1>5. StepsAgree
  BY <1>2 DEF StepsAgree, NoCb
<1>6. QueueInOrder /\ QueueIsNew
  BY <1>1 DEF QueueInOrder, QueueIsNew
<1>7. DataIsNew /\ GateInv /\ EarlyInv
  BY <1>2 DEF DataIsNew, GateInv, EarlyInv, InSession, NoCb
<1>. QED
  BY <1>3, <1>4, <1>5, <1>6, <1>7 DEF IInv

LEMMA NextIInv == IInv /\ [Next]_vars => IInv'
<1>. SUFFICES ASSUME IInv, [Next]_vars PROVE IInv'
  OBVIOUS
<1>1. TypeOK'
  BY TypeStep DEF IInv
<1>2. QueueOffIsEmpty' /\ QueueBounded'
  BY QueueLimitsStep DEF IInv
<1>3. ASSUME up' PROVE StepsAgree'
  BY <1>3, StepsAgreeStep DEF IInv
<1>4. ASSUME up' PROVE QueueInOrder'
  BY <1>4, QueueInOrderStep DEF IInv
<1>5. ASSUME up' PROVE QueueIsNew'
  BY <1>5, QueueIsNewStep DEF IInv
<1>6. ASSUME up' PROVE DataIsNew'
  BY <1>6, DataIsNewStep DEF IInv
<1>7. ASSUME up' PROVE GateInv'
  BY <1>7, GateStep DEF IInv
<1>8. EarlyInv'
  BY EarlyStep DEF IInv
<1>. QED
  BY <1>1, <1>2, <1>3, <1>4, <1>5, <1>6, <1>7, <1>8 DEF IInv

(* The inductive invariant holds of every behaviour.                       *)
THEOREM Invariant == Spec => []IInv
<1>1. Init => IInv
  BY InitIInv
<1>2. IInv /\ [Next]_vars => IInv'
  BY NextIInv
<1>. QED
  BY <1>1, <1>2, PTL DEF Spec

(* Every variable keeps its type.                                          *)
THEOREM TypeCorrect == Spec => []TypeOK
<1>1. IInv => TypeOK
  BY DEF IInv
<1>. QED
  BY <1>1, Invariant, PTL

(* The queue of GnssMeasQueue.cpp never outgrows mMaxSize, and holds       *)
(* nothing while it is off.                                                *)
THEOREM QueueSafe == Spec => []QueueLimits
<1>1. IInv => QueueLimits
  BY DEF IInv, QueueLimits
<1>. QED
  BY <1>1, Invariant, PTL

(* close() leaves no thread and no message behind, whatever the threads    *)
(* were doing when it was called.                                          *)
THEOREM CloseLeavesQuiet == Spec => []ClosedIsQuiet
<1>1. IInv => ClosedIsQuiet
  BY DEF IInv, ClosedIsQuiet, StepsAgree, QueueOffIsEmpty, Empty
<1>. QED
  BY <1>1, Invariant, PTL

(* pop() in callbackThread never meets an empty queue, although empty()    *)
(* and pop() take the lock separately.                                     *)
THEOREM PopSafe == Spec => []PopFindsMessage
<1>1. IInv => PopFindsMessage
  BY DEF IInv, PopFindsMessage, StepsAgree
<1>. QED
  BY <1>1, Invariant, PTL

(* The gate of GnssMeasToLocSync.cpp never counts fewer reports than the   *)
(* open session owes, through the two accesses of UpdateStatus.            *)
THEOREM GateSafe == Spec => []GateCountsReports
<1>1. IInv => GateCountsReports
  BY DEF IInv, GateCountsReports, GateInv, InSession, Owed
<1>. QED
  BY <1>1, Invariant, PTL

(* No more than one location overtakes the reports of a session.           *)
THEOREM EarlySafe == Spec => []AtMostOneEarlyLocation
<1>1. IInv => AtMostOneEarlyLocation
  BY DEF IInv, AtMostOneEarlyLocation, EarlyInv
<1>. QED
  BY <1>1, Invariant, PTL

(* Only CallClient reports: every other step leaves reports alone or takes *)
(* it back to 0.                                                           *)
LEMMA OnlyCallReports ==
    ASSUME IInv, reports' > reports, [Next]_vars
    PROVE  CallClient
<1>. USE DEF sessionVars, batchVars, historyVars, locVars, queueVars, IInv,
             TypeOK
<1>1. CASE SetCallbackGate
  BY <1>1 DEF SetCallbackGate, SetEventsToWait, NonNegative
<1>2. CASE SetCallbackStore  BY <1>2 DEF SetCallbackStore
<1>3. CASE SetCallbackSpawn  BY <1>3 DEF SetCallbackSpawn
<1>4. CASE CloseGate  BY <1>4 DEF CloseGate, SetEventsToWait, NonNegative
<1>5. CASE CloseNull  BY <1>5 DEF CloseNull
<1>6. CASE CloseExit  BY <1>6 DEF CloseExit
<1>7. CASE CloseNotify  BY <1>7 DEF CloseNotify
<1>8. CASE CloseJoin  BY <1>8 DEF CloseJoin
<1>9. CASE ThreadStart  BY <1>9 DEF ThreadStart, SetState
<1>10. CASE Loop  BY <1>10 DEF Loop
<1>11. CASE CheckQueue  BY <1>11 DEF CheckQueue, Empty
<1>12. CASE PopMessage  BY <1>12 DEF PopMessage, Pop, Empty
<1>13. CASE TestReady  BY <1>13 DEF TestReady, Ready
<1>14. CASE CallClient  BY <1>14 DEF CallClient
<1>15. CASE UpdateStatus1  BY <1>15 DEF UpdateStatus1, UpdateStatusLoad
<1>16. CASE UpdateStatus2
  BY <1>16 DEF UpdateStatus2, UpdateStatusStore, NonNegative
<1>17. CASE BeginWait  BY <1>17 DEF BeginWait
<1>18. CASE WaitTimeout  BY <1>18 DEF WaitTimeout
<1>19. CASE ThreadEnd  BY <1>19 DEF ThreadEnd, SetState
<1>20. CASE \E k \in Kinds, v \in BOOLEAN : PushMessage(k, v)
  BY <1>20 DEF PushMessage, Push
<1>21. CASE LocationGate  BY <1>21 DEF LocationGate, WaitToSend
<1>22. CASE LocationSend  BY <1>22 DEF LocationSend, Owed
<1>23. CASE CallReleased  BY <1>23 DEF CallReleased
<1>24. CASE Restart  BY <1>24 DEF Restart
<1>25. CASE UNCHANGED vars  BY <1>25 DEF vars
<1>. QED
  BY <1>1, <1>2, <1>3, <1>4, <1>5, <1>6, <1>7, <1>8, <1>9, <1>10,
     <1>11, <1>12, <1>13, <1>14, <1>15, <1>16, <1>17, <1>18, <1>19, <1>20,
     <1>21, <1>22, <1>23, <1>24, <1>25
     DEF Next, SetCallback, Close, CallbackThread, Environment

(* Only the call through a released interface ends the process.            *)
LEMMA OnlyReleasedCrashes ==
    ASSUME IInv, up, ~up', [Next]_vars
    PROVE  CallReleased
<1>. USE DEF sessionVars, batchVars, historyVars, locVars, queueVars, IInv
<1>1. CASE SetCallbackGate
  BY <1>1 DEF SetCallbackGate, SetEventsToWait, NonNegative
<1>2. CASE SetCallbackStore  BY <1>2 DEF SetCallbackStore
<1>3. CASE SetCallbackSpawn  BY <1>3 DEF SetCallbackSpawn
<1>4. CASE CloseGate  BY <1>4 DEF CloseGate, SetEventsToWait, NonNegative
<1>5. CASE CloseNull  BY <1>5 DEF CloseNull
<1>6. CASE CloseExit  BY <1>6 DEF CloseExit
<1>7. CASE CloseNotify  BY <1>7 DEF CloseNotify
<1>8. CASE CloseJoin  BY <1>8 DEF CloseJoin
<1>9. CASE ThreadStart  BY <1>9 DEF ThreadStart, SetState
<1>10. CASE Loop  BY <1>10 DEF Loop
<1>11. CASE CheckQueue  BY <1>11 DEF CheckQueue, Empty
<1>12. CASE PopMessage  BY <1>12 DEF PopMessage, Pop, Empty
<1>13. CASE TestReady  BY <1>13 DEF TestReady, Ready
<1>14. CASE CallClient  BY <1>14 DEF CallClient
<1>15. CASE UpdateStatus1  BY <1>15 DEF UpdateStatus1, UpdateStatusLoad
<1>16. CASE UpdateStatus2
  BY <1>16 DEF UpdateStatus2, UpdateStatusStore, NonNegative
<1>17. CASE BeginWait  BY <1>17 DEF BeginWait
<1>18. CASE WaitTimeout  BY <1>18 DEF WaitTimeout
<1>19. CASE ThreadEnd  BY <1>19 DEF ThreadEnd, SetState
<1>20. CASE \E k \in Kinds, v \in BOOLEAN : PushMessage(k, v)
  BY <1>20 DEF PushMessage, Push
<1>21. CASE LocationGate  BY <1>21 DEF LocationGate, WaitToSend
<1>22. CASE LocationSend  BY <1>22 DEF LocationSend, Owed
<1>23. CASE CallReleased  BY <1>23 DEF CallReleased
<1>24. CASE Restart  BY <1>24 DEF Restart
<1>25. CASE UNCHANGED vars  BY <1>25 DEF vars
<1>. QED
  BY <1>1, <1>2, <1>3, <1>4, <1>5, <1>6, <1>7, <1>8, <1>9, <1>10,
     <1>11, <1>12, <1>13, <1>14, <1>15, <1>16, <1>17, <1>18, <1>19, <1>20,
     <1>21, <1>22, <1>23, <1>24, <1>25
     DEF Next, SetCallback, Close, CallbackThread, Environment

(* A report is complete, valid, of the open session, and newer than the    *)
(* report before it.                                                       *)
THEOREM ReportsAreFresh == Spec => ReportIsFresh
<1>. DEFINE A == reports' > reports =>
                   /\ \A k \in Kinds : \E m \in lastReport' : m.kind = k
                   /\ \A m \in lastReport' : m.valid /\ m.seq > firstSeq
                   /\ \A m \in lastReport', n \in lastReport : m.seq > n.seq
<1>1. IInv /\ [Next]_vars => [A]_vars
  <2>. SUFFICES ASSUME IInv, [Next]_vars, reports' > reports
                PROVE  A
    OBVIOUS
  <2>1. CallClient
    BY OnlyCallReports
  <2>. QED
    BY <2>1 DEF CallClient, IInv, StepsAgree, DataIsNew
<1>. QED
  BY <1>1, Invariant, PTL DEF Spec, ReportIsFresh

(* A report goes to the session that is open or being closed: none is made *)
(* after close() has returned.                                             *)
THEOREM ReportsReachOpenSession == Spec => ReportReachesOpenSession
<1>. DEFINE A == reports' > reports =>
                   /\ target = session
                   /\ cb = session \/ binder \in Closing
<1>1. IInv /\ [Next]_vars => [A]_vars
  <2>. SUFFICES ASSUME IInv, [Next]_vars, reports' > reports
                PROVE  A
    OBVIOUS
  <2>1. CallClient
    BY OnlyCallReports
  <2>. QED
    BY <2>1 DEF CallClient, IInv, TypeOK, BinderPoints, StepsAgree, Closing,
         NoCb
<1>. QED
  BY <1>1, Invariant, PTL DEF Spec, ReportReachesOpenSession

(* The call through a released interface needs a close() that is running.  *)
THEOREM CrashNeedsClose == Spec => CrashOnlyInClose
<1>. DEFINE A == up /\ ~up' => binder \in Closing
<1>1. IInv /\ [Next]_vars => [A]_vars
  <2>. SUFFICES ASSUME IInv, [Next]_vars, up, ~up'
                PROVE  binder \in Closing
    OBVIOUS
  <2>1. CallReleased
    BY OnlyReleasedCrashes
  <2>. QED
    BY <2>1 DEF CallReleased, IInv, TypeOK, BinderPoints, StepsAgree, Closing,
         NoCb
<1>. QED
  BY <1>1, Invariant, PTL DEF Spec, CrashOnlyInClose
=============================================================================
