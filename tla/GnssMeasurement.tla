--------------------------- MODULE GnssMeasurement ---------------------------
(***************************************************************************)
(* Measurement sessions (GnssMeasurement.cpp) over the message queue and   *)
(* the location gate.  Four threads take part:                             *)
(*   - the binder thread runs setCallback() and close(), one call at a     *)
(*     time (service.cpp gives the RPC pool one thread);                   *)
(*   - the callback thread, alive from setCallback() to close(), collects  *)
(*     one message of each kind into a GnssData and reports it;            *)
(*   - the UBX thread pushes the messages it parses;                       *)
(*   - the NMEA thread asks the gate before it sends a location.           *)
(* A step is one access to state another thread may change.                *)
(*                                                                         *)
(* A session is named by its number: cb holds the number of the session    *)
(* whose callback is set, NoCb when there is none.                         *)
(***************************************************************************)
EXTENDS GnssMeasQueue, GnssMeasToLocSync

CONSTANTS EventsNum,    \* measBeforeLocationEventsNum, 2 in the code
          MaxSessions,  \* bound: sessions opened in a behaviour
          MaxMessages   \* bound: messages the receiver sends in a behaviour

ASSUME EventsNumAssumption == EventsNum \in Nat \ {0}
ASSUME BoundsAssumption == MaxSessions \in Nat /\ MaxMessages \in Nat

VARIABLES up,           \* the service process runs
          binder,       \* where the binder thread is
          thread,       \* where the callback thread is
          cb,           \* sGnssMeasurementsCbIface
          mThreadExit,
          flagReady,    \* kinds collected by this turn of the loop
          data,         \* messages merged into this turn's GnssData
          target,       \* the callback the thread loaded to call
          tmpEventsNum, \* what UpdateStatus computed
          nmea,         \* where the NMEA thread is with a location
          session,      \* history: sessions opened so far
          arrived,      \* history: messages received so far
          firstSeq,     \* history: arrived when the session opened
          reports,      \* history: reports of the session
          lastReport,   \* history: messages of the last report
          early         \* history: locations sent while reports are owed

sessionVars == <<binder, thread, cb, mThreadExit>>
batchVars == <<flagReady, data, target, tmpEventsNum>>
historyVars == <<session, arrived, firstSeq, reports, lastReport>>
locVars == <<nmea, early>>
vars == <<up, sessionVars, batchVars, historyVars, locVars, queueVars,
          mEventsToWait>>

NoCb == 0

BinderPoints == {"idle", "sc_set", "sc_spawn",
                 "cl_null", "cl_exit", "cl_notify", "cl_join"}
Closing == {"cl_null", "cl_exit", "cl_notify", "cl_join"}
ThreadPoints == {"none", "start", "loop", "check", "pop", "test", "call",
                 "load", "store", "unlocked", "waiting", "off", "done"}

Ready == Kinds

Init ==
    /\ up = TRUE
    /\ QueueInit
    /\ SyncInit
    /\ binder = "idle" /\ thread = "none" /\ cb = NoCb /\ mThreadExit = FALSE
    /\ flagReady = {} /\ data = {} /\ target = NoCb /\ tmpEventsNum = 0
    /\ nmea = "idle"
    /\ session = 0 /\ arrived = 0 /\ firstSeq = 0
    /\ reports = 0 /\ lastReport = {} /\ early = 0

-----------------------------------------------------------------------------
(* The binder thread: setCallback().  A second call while a callback is    *)
(* set returns ERROR_ALREADY_INIT and changes nothing.                     *)

(* setCallback that forgets the gate.                                      *)
SetCallbackGateUnset ==
    /\ up /\ binder = "idle" /\ cb = NoCb /\ session < MaxSessions
    /\ binder' = "sc_set"
    /\ SetEventsToWait(0)
    /\ reports' = 0 /\ lastReport' = {} /\ early' = 0
    /\ UNCHANGED <<up, thread, cb, mThreadExit, batchVars, nmea, session,
                   arrived, firstSeq, queueVars>>

SetCallbackGate ==
    /\ up /\ binder = "idle" /\ cb = NoCb /\ session < MaxSessions
    /\ binder' = "sc_set"
    /\ SetEventsToWait(EventsNum)
    /\ reports' = 0 /\ lastReport' = {} /\ early' = 0
    /\ UNCHANGED <<up, thread, cb, mThreadExit, batchVars, nmea, session,
                   arrived, firstSeq, queueVars>>

SetCallbackStore ==
    /\ up /\ binder = "sc_set"
    /\ binder' = "sc_spawn"
    /\ session' = session + 1
    /\ cb' = session + 1
    /\ firstSeq' = arrived
    /\ UNCHANGED <<up, thread, mThreadExit, batchVars, arrived, reports,
                   lastReport, locVars, queueVars, mEventsToWait>>

SetCallbackSpawn ==
    /\ up /\ binder = "sc_spawn"
    /\ binder' = "idle"
    /\ mThreadExit' = FALSE
    /\ thread' = IF thread = "none" THEN "start" ELSE thread
    /\ UNCHANGED <<up, cb, batchVars, historyVars, locVars, queueVars,
                   mEventsToWait>>

-----------------------------------------------------------------------------
(* The binder thread: close().  Without a callback it returns at once.     *)

CloseGate ==
    /\ up /\ binder = "idle" /\ cb # NoCb
    /\ binder' = "cl_null"
    /\ SetEventsToWait(0)
    /\ UNCHANGED <<up, thread, cb, mThreadExit, batchVars, historyVars,
                   locVars, queueVars>>

CloseNull ==
    /\ up /\ binder = "cl_null"
    /\ binder' = "cl_exit"
    /\ cb' = NoCb
    /\ UNCHANGED <<up, thread, mThreadExit, batchVars, historyVars, locVars,
                   queueVars, mEventsToWait>>

(* close() that turns the queue off itself.                                *)
CloseExitQueueOff ==
    /\ up /\ binder = "cl_exit"
    /\ binder' = "cl_notify"
    /\ mThreadExit' = TRUE
    /\ SetState(FALSE)
    /\ UNCHANGED <<up, thread, cb, batchVars, historyVars, locVars,
                   mEventsToWait>>

CloseExit ==
    /\ up /\ binder = "cl_exit"
    /\ binder' = "cl_notify"
    /\ mThreadExit' = TRUE
    /\ UNCHANGED <<up, thread, cb, batchVars, historyVars, locVars, queueVars,
                   mEventsToWait>>

(* notify_one() without the mutex: it wakes a thread that waits and is     *)
(* lost on a thread that is about to.                                      *)
CloseNotify ==
    /\ up /\ binder = "cl_notify"
    /\ binder' = "cl_join"
    /\ thread' = IF thread = "waiting" THEN "loop" ELSE thread
    /\ UNCHANGED <<up, cb, mThreadExit, batchVars, historyVars, locVars,
                   queueVars, mEventsToWait>>

(* close() that does not join its thread.                                  *)
CloseWithoutJoin ==
    /\ up /\ binder = "cl_join"
    /\ binder' = "idle"
    /\ UNCHANGED <<up, thread, cb, mThreadExit, batchVars, historyVars,
                   locVars, queueVars, mEventsToWait>>

CloseJoin ==
    /\ up /\ binder = "cl_join" /\ thread = "done"
    /\ binder' = "idle"
    /\ thread' = "none"
    /\ UNCHANGED <<up, cb, mThreadExit, batchVars, historyVars, locVars,
                   queueVars, mEventsToWait>>

-----------------------------------------------------------------------------
(* The callback thread.                                                    *)

ThreadStart ==
    /\ up /\ thread = "start"
    /\ thread' = "loop"
    /\ SetState(TRUE)
    /\ UNCHANGED <<up, binder, cb, mThreadExit, batchVars, historyVars,
                   locVars, mEventsToWait>>

(* A turn that goes on with the GnssData of the turn before.               *)
LoopKeepingData ==
    /\ up /\ thread = "loop"
    /\ thread' = IF mThreadExit THEN "off" ELSE "check"
    /\ UNCHANGED <<up, binder, cb, mThreadExit, batchVars, historyVars,
                   locVars, queueVars, mEventsToWait>>

(* A turn of the loop: what the last turn collected and did not report is  *)
(* gone.                                                                   *)
Loop ==
    /\ up /\ thread = "loop"
    /\ thread' = IF mThreadExit THEN "off" ELSE "check"
    /\ flagReady' = {}
    /\ data' = {}
    /\ UNCHANGED <<up, binder, cb, mThreadExit, target, tmpEventsNum,
                   historyVars, locVars, queueVars, mEventsToWait>>

CheckQueue ==
    /\ up /\ thread = "check"
    /\ thread' = IF Empty THEN "unlocked" ELSE "pop"
    /\ UNCHANGED <<up, binder, cb, mThreadExit, batchVars, historyVars,
                   locVars, queueVars, mEventsToWait>>

(* pop() and retrieveSvInfo(): a message that failed its checks returns    *)
(* NotReady and leaves data alone.                                         *)
PopMessage ==
    /\ up /\ thread = "pop"
    /\ Pop
    /\ IF Empty
       THEN /\ thread' = "check"
            /\ UNCHANGED <<flagReady, data>>
       ELSE /\ thread' = "test"
            /\ IF Head(mQueue).valid
               THEN /\ flagReady' = flagReady \union {Head(mQueue).kind}
                    /\ data' = data \union {Head(mQueue)}
               ELSE UNCHANGED <<flagReady, data>>
    /\ UNCHANGED <<up, binder, cb, mThreadExit, target, tmpEventsNum,
                   historyVars, locVars, mEventsToWait>>

(* The test with UpdateStatus moved out of the if.                         *)
TestReadyUpdating ==
    /\ up /\ thread = "test"
    /\ IF cb # NoCb /\ flagReady = Ready
       THEN thread' = "call" /\ target' = cb
       ELSE thread' = "load" /\ UNCHANGED target
    /\ UNCHANGED <<up, binder, cb, mThreadExit, flagReady, data, tmpEventsNum,
                   historyVars, locVars, queueVars, mEventsToWait>>

(* if (sGnssMeasurementsCbIface != nullptr && Ready == flagReady): the     *)
(* pointer the call goes through is loaded here.                           *)
TestReady ==
    /\ up /\ thread = "test"
    /\ IF cb # NoCb /\ flagReady = Ready
       THEN thread' = "call" /\ target' = cb
       ELSE thread' = "check" /\ UNCHANGED target
    /\ UNCHANGED <<up, binder, cb, mThreadExit, flagReady, data, tmpEventsNum,
                   historyVars, locVars, queueVars, mEventsToWait>>

(* The callback without the UpdateStatus(-1) that follows it.              *)
CallClientOnly ==
    /\ up /\ thread = "call"
    /\ thread' = "unlocked"
    /\ reports' = reports + 1
    /\ lastReport' = data
    /\ UNCHANGED <<up, binder, cb, mThreadExit, batchVars, session, arrived,
                   firstSeq, locVars, queueVars, mEventsToWait>>

(* The callback.  close() may have dropped the interface between the load  *)
(* and the call: nothing orders the two threads, and the call then reaches *)
(* a client that is already gone or ends the process (CallReleased).       *)
CallClient ==
    /\ up /\ thread = "call"
    /\ thread' = "load"
    /\ reports' = reports + 1
    /\ lastReport' = data
    /\ UNCHANGED <<up, binder, cb, mThreadExit, batchVars, session, arrived,
                   firstSeq, locVars, queueVars, mEventsToWait>>

(* UpdateStatus(-1) of the gate: the load, then the store.                 *)
UpdateStatus1 ==
    /\ up /\ thread = "load"
    /\ thread' = "store"
    /\ tmpEventsNum' = UpdateStatusLoad(-1)
    /\ UNCHANGED <<up, binder, cb, mThreadExit, flagReady, data, target,
                   historyVars, locVars, queueVars, mEventsToWait>>

UpdateStatus2 ==
    /\ up /\ thread = "store"
    /\ thread' = "unlocked"
    /\ UpdateStatusStore(tmpEventsNum)
    /\ UNCHANGED <<up, binder, cb, mThreadExit, batchVars, historyVars,
                   locVars, queueVars>>

BeginWait ==
    /\ up /\ thread = "unlocked"
    /\ thread' = "waiting"
    /\ UNCHANGED <<up, binder, cb, mThreadExit, batchVars, historyVars,
                   locVars, queueVars, mEventsToWait>>

(* wait() in the place of wait_for(): only a notification ends it.         *)
WaitForNotify == thread = "waiting" /\ FALSE /\ UNCHANGED vars

(* wait_for(1 s) returns by itself; a message that arrives does not end    *)
(* it.                                                                     *)
WaitTimeout ==
    /\ up /\ thread = "waiting"
    /\ thread' = "loop"
    /\ UNCHANGED <<up, binder, cb, mThreadExit, batchVars, historyVars,
                   locVars, queueVars, mEventsToWait>>

ThreadEnd ==
    /\ up /\ thread = "off"
    /\ thread' = "done"
    /\ SetState(FALSE)
    /\ UNCHANGED <<up, binder, cb, mThreadExit, batchVars, historyVars,
                   locVars, mEventsToWait>>

-----------------------------------------------------------------------------
(* The UBX thread pushes the next message the receiver sends.              *)

PushMessage(k, v) ==
    /\ up /\ arrived < MaxMessages
    /\ arrived' = arrived + 1
    /\ Push([kind |-> k, valid |-> v, seq |-> arrived + 1])
    /\ UNCHANGED <<up, sessionVars, batchVars, session, firstSeq, reports,
                   lastReport, locVars, mEventsToWait>>

(* The NMEA thread: the gate is read, then the location is sent.  A        *)
(* location is early when the open session still owes reports.             *)

Owed == binder \notin Closing /\ reports < EventsNum
        /\ (cb # NoCb \/ binder \in {"sc_set", "sc_spawn"})

LocationGate ==
    /\ up /\ nmea = "idle" /\ WaitToSend
    /\ nmea' = "send"
    /\ UNCHANGED <<up, sessionVars, batchVars, historyVars, early, queueVars,
                   mEventsToWait>>

LocationSend ==
    /\ up /\ nmea = "send"
    /\ nmea' = "idle"
    /\ early' = IF Owed THEN early + 1 ELSE early
    /\ UNCHANGED <<up, sessionVars, batchVars, historyVars, queueVars,
                   mEventsToWait>>

-----------------------------------------------------------------------------
(* The call through a released interface may end the process; init starts  *)
(* the service again (it is not "oneshot").  Nothing is persisted.         *)

CallReleased ==
    /\ up /\ thread = "call" /\ cb = NoCb
    /\ up' = FALSE
    /\ UNCHANGED <<sessionVars, batchVars, historyVars, locVars, queueVars,
                   mEventsToWait>>

Restart ==
    /\ ~up
    /\ up' = TRUE
    /\ mState' = FALSE /\ mQueue' = <<>> /\ mEventsToWait' = 0
    /\ binder' = "idle" /\ thread' = "none" /\ cb' = NoCb
    /\ mThreadExit' = FALSE
    /\ flagReady' = {} /\ data' = {} /\ target' = NoCb /\ tmpEventsNum' = 0
    /\ nmea' = "idle"
    /\ reports' = 0 /\ lastReport' = {} /\ early' = 0 /\ firstSeq' = arrived
    /\ UNCHANGED <<session, arrived>>

-----------------------------------------------------------------------------
SetCallback == SetCallbackGate \/ SetCallbackStore \/ SetCallbackSpawn
Close == CloseGate \/ CloseNull \/ CloseExit \/ CloseNotify \/ CloseJoin
CloseRest == CloseNull \/ CloseExit \/ CloseNotify \/ CloseJoin

CallbackThread ==
    \/ ThreadStart \/ Loop \/ CheckQueue \/ PopMessage \/ TestReady
    \/ CallClient \/ UpdateStatus1 \/ UpdateStatus2
    \/ BeginWait \/ WaitTimeout \/ ThreadEnd

Environment ==
    \/ \E k \in Kinds, v \in BOOLEAN : PushMessage(k, v)
    \/ LocationGate \/ LocationSend

Next == SetCallback \/ Close \/ CallbackThread \/ Environment
        \/ CallReleased \/ Restart

(* The scheduler runs a thread that can run, and a call once begun goes    *)
(* on; nothing obliges a client to call or the receiver to send.           *)
Fairness ==
    /\ WF_vars(SetCallbackStore \/ SetCallbackSpawn)
    /\ WF_vars(CloseRest)
    /\ WF_vars(CallbackThread)
    /\ WF_vars(Restart)

Spec == Init /\ [][Next]_vars
FairSpec == Spec /\ Fairness
-----------------------------------------------------------------------------
(* Properties.                                                             *)

(* The threads are at the points of their code, messages are messages, and *)
(* the gate's counter of int8_t never wraps below 0 (UpdateStatus clamps it). *)
TypeOK ==
    /\ QueueTypeOK
    /\ SyncTypeOK
    /\ up \in BOOLEAN
    /\ binder \in BinderPoints
    /\ thread \in ThreadPoints
    /\ cb \in Nat
    /\ mThreadExit \in BOOLEAN
    /\ flagReady \subseteq Kinds
    /\ data \subseteq Message
    /\ target \in Nat
    /\ tmpEventsNum \in Int
    /\ nmea \in {"idle", "send"}
    /\ session \in Nat
    /\ arrived \in Nat
    /\ firstSeq \in Nat
    /\ reports \in Nat
    /\ lastReport \subseteq Message
    /\ early \in Nat

(* After close() has returned, or before the first setCallback(), no       *)
(* callback thread is left and the queue is off and empty: the messages a  *)
(* receiver goes on sending are not kept for the next session.             *)
ClosedIsQuiet ==
    up /\ binder = "idle" /\ cb = NoCb => thread = "none" /\ ~mState /\ Empty

(* pop() is called after a separate empty(), each under the lock: nobody   *)
(* empties the queue between the two, so it never returns nullptr.         *)
PopFindsMessage == up /\ thread = "pop" => ~Empty

(* While the open session owes reports the gate still counts them: no      *)
(* interleaving of UpdateStatus with setCallback() opens it early.         *)
GateCountsReports == up /\ Owed => mEventsToWait >= EventsNum - reports

(* At most one location leaves between the start of a session and its      *)
(* EventsNum-th report: the one whose gate was read before the session.    *)
AtMostOneEarlyLocation == early <= 1

(* A report holds a valid message of every kind, all received in the open  *)
(* session and after every message of the session's previous report.       *)
ReportIsFresh ==
    [][reports' > reports =>
         /\ \A k \in Kinds : \E m \in lastReport' : m.kind = k
         /\ \A m \in lastReport' : m.valid /\ m.seq > firstSeq
         /\ \A m \in lastReport', n \in lastReport : m.seq > n.seq]_vars

(* A report reaches the session that is open, or that close() is closing;  *)
(* none is made after close() has returned.                                *)
ReportReachesOpenSession ==
    [][reports' > reports =>
         /\ target = session
         /\ cb = session \/ binder \in Closing]_vars

(* The process can only be ended by a call to a released interface while   *)
(* close() runs.                                                           *)
CrashOnlyInClose == [][up /\ ~up' => binder \in Closing]_vars

(* close() returns although its notification may be lost: it waits for the *)
(* thread, which looks at mThreadExit after at most one wait_for().        *)
CloseReturns == binder \in Closing ~> binder = "idle"

(* Once an open session has made its reports, locations flow.              *)
GateOpens ==
    (up /\ cb # NoCb /\ reports >= EventsNum) ~> (WaitToSend \/ cb = NoCb)

(* "SetEventsToWait - set value of number of events to wait"               *)
(* (GnssMeasToLocSync.h): close() sets it to 0, so after close() locations *)
(* are not held back.                                                      *)
GateOpenWhenClosed == up /\ binder = "idle" /\ cb = NoCb => WaitToSend
=============================================================================
