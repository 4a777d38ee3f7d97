----------------------------- MODULE GnssSession -----------------------------
(***************************************************************************)
(* The client of the HAL and the threads that call it (Gnss.cpp,           *)
(* GnssHwTTY.cpp, GnssHwFAKE.cpp): the binder thread, which runs the       *)
(* client's calls and the notice of its death one at a time, and the       *)
(* thread of the backend, which calls whichever callback is set: the NMEA  *)
(* thread of the tty, which tests mEnabled before, or the handle thread of *)
(* the fake receiver, which tests its route.                               *)
(***************************************************************************)
EXTENDS GnssHwFAKE, FiniteSets

CONSTANTS Backends,   \* of ro.boot.gps.mode: tty, fake
          OneAtATime, \* whether the next client comes when the last is dead
          MaxStarts   \* bound: calls of start() and aborts of the process

ASSUME BackendsAssumption == Backends \subseteq {"tty", "fake"}

VARIABLES backend,
          mGnssCbIface,  \* of Gnss
          mEnabled,
          binder,        \* what the binder thread is in, and for whom
          links,         \* clients whose death is linked to
          alive,
          noticed,       \* the death of the current client was handled
          nmea,          \* where the NMEA thread is
          session,       \* history: the last start() succeeded or is in
                         \* progress, and no stop() came after it
          starts

clientVars == <<mGnssCbIface, links, alive, noticed>>
gnssVars == <<backend, clientVars, mEnabled, binder, session, starts>>
vars == <<gnssVars, nmea, ifaceVars, fakeVars>>

Idle == [op |-> "idle", client |-> NoClient]
Running(op, client) == [op |-> op, client |-> client]

(* The constructor chooses the backend.                                    *)
Init ==
    /\ backend \in Backends
    /\ mGnssCbIface = NoClient /\ mEnabled = FALSE
    /\ binder = Idle
    /\ links = {} /\ alive = Clients /\ noticed = FALSE
    /\ nmea = "idle" /\ session = FALSE /\ starts = 0
    /\ IfaceInit /\ FakeInit
    /\ backend = "tty" => route = 0

-----------------------------------------------------------------------------
(* Calls of a living client, on the binder thread.                         *)

Calls(client) ==
    /\ binder = Idle
    /\ client \in alive
    /\ OneAtATime => mGnssCbIface \notin alive \ {client}

(* The old client's death stays linked to.                                 *)
SetCallbackLinked(client) ==
    /\ Calls(client)
    /\ mGnssCbIface' = client
    /\ noticed' = FALSE
    /\ binder' = Running("setHwCallback", client)
    /\ UNCHANGED <<backend, links, alive, mEnabled, session, starts, nmea,
                   ifaceVars, fakeVars>>

(* A null callback is refused, which changes nothing.  setCallback up to   *)
(* the three calls it makes to the new client.                             *)
SetCallback(client) ==
    /\ Calls(client)
    /\ links' = links \ {mGnssCbIface}
    /\ mGnssCbIface' = client
    /\ noticed' = FALSE
    /\ binder' = Running("setHwCallback", client)
    /\ UNCHANGED <<backend, alive, mEnabled, session, starts, nmea, ifaceVars,
                   fakeVars>>

SetHwCallback ==
    /\ binder.op = "setHwCallback"
    /\ StoreCallback(binder.client)
    /\ binder' = Running("linkToDeath", binder.client)
    /\ UNCHANGED <<backend, clientVars, mEnabled, session, starts, nmea,
                   fakeVars>>

(* A client that is dead by then cannot be linked to.                      *)
LinkToDeath ==
    /\ binder.op = "linkToDeath"
    /\ links' = links \union ({binder.client} \intersect alive)
    /\ binder' = Idle
    /\ UNCHANGED <<backend, mGnssCbIface, alive, noticed, mEnabled, session,
                   starts, nmea, ifaceVars, fakeVars>>

StartCall(client) ==
    /\ Calls(client) /\ starts < MaxStarts
    /\ starts' = starts + 1
    /\ noticed' = FALSE
    /\ UNCHANGED <<backend, mGnssCbIface, links, alive, nmea, ifaceVars>>

(* start() of the tty fails without a device; SESSION_BEGIN is sent then,  *)
(* too.                                                                    *)
StartTTY(client) ==
    /\ backend = "tty" /\ StartCall(client)
    /\ mEnabled' \in BOOLEAN
    /\ session' = mEnabled'
    /\ binder' = Running("status", client)
    /\ UNCHANGED fakeVars

StartFake(client) ==
    /\ backend = "fake" /\ StartCall(client)
    /\ IF route = 0
       THEN session' = FALSE /\ UNCHANGED <<binder, fakeVars>>
       ELSE session' = TRUE /\ binder' = Running("load", client) /\ OpenRoute
    /\ UNCHANGED mEnabled

Load ==
    /\ binder.op = "load" /\ LoadPoint
    /\ UNCHANGED <<gnssVars, nmea, ifaceVars>>

Loads ==
    /\ binder.op = "load" /\ CloseRoute
    /\ session' = Loaded
    /\ binder' = Idle
    /\ UNCHANGED <<backend, clientVars, mEnabled, starts, nmea, ifaceVars>>

(* stop(), and cleanup(), which is the same.                               *)
StopTTY(client) ==
    /\ backend = "tty" /\ Calls(client)
    /\ mEnabled' = FALSE /\ session' = FALSE
    /\ binder' = Running("status", client)
    /\ UNCHANGED <<backend, clientVars, starts, nmea, ifaceVars, fakeVars>>

StopFake(client) ==
    /\ backend = "fake" /\ Calls(client)
    /\ ClearPoints
    /\ session' = FALSE
    /\ UNCHANGED <<backend, clientVars, mEnabled, binder, starts, nmea,
                   ifaceVars>>

(* gnssStatusCb returns, or there is no callback to call.                  *)
StatusSent ==
    /\ binder.op = "status"
    /\ binder' = Idle
    /\ UNCHANGED <<backend, clientVars, mEnabled, session, starts, nmea,
                   ifaceVars, fakeVars>>

Die(client) ==
    /\ client \in alive
    /\ alive' = alive \ {client}
    /\ UNCHANGED <<backend, mGnssCbIface, links, noticed, mEnabled, binder,
                   session, starts, nmea, ifaceVars, fakeVars>>

(* handleHidlDeath logs, and does nothing else.                            *)
ServiceDied(client) ==
    /\ binder = Idle
    /\ client \in links \ alive
    /\ links' = links \ {client}
    /\ noticed' = (client = mGnssCbIface)
    /\ UNCHANGED <<backend, mGnssCbIface, alive, mEnabled, binder, session,
                   starts, nmea, ifaceVars, fakeVars>>

(* The init thread of the tty ends the process when the receiver does not  *)
(* answer, at any moment of any call; init starts the service again.       *)
CriticalProtocolError ==
    /\ backend = "tty" /\ starts < MaxStarts
    /\ starts' = starts + 1
    /\ mGnssCbIface' = NoClient /\ mGnssCb' = NoClient /\ mEnabled' = FALSE
    /\ binder' = Idle /\ links' = {} /\ noticed' = FALSE
    /\ nmea' = "idle" /\ callee' = NoClient /\ session' = FALSE
    /\ UNCHANGED <<backend, alive, fakeVars>>

-----------------------------------------------------------------------------
(* The NMEA thread: a sentence is passed on as it is, then parsed, and a   *)
(* RMC or the last GSV of a group is followed by a report.                 *)

NmeaStep(from, to) ==
    /\ backend = "tty"
    /\ nmea = from /\ nmea' = to
    /\ UNCHANGED <<gnssVars, fakeVars>>

RawTest == mEnabled /\ NmeaStep("idle", "rawCall") /\ UNCHANGED ifaceVars

(* A PUBX sentence is for the HAL alone.                                   *)
NotRaw == NmeaStep("idle", "parse") /\ UNCHANGED ifaceVars

Call(from, to) == NmeaStep(from, to) /\ CallClient

NoCallback(from, to) ==
    ~HasCallback /\ NmeaStep(from, to) /\ UNCHANGED ifaceVars

Return(from, to) == NmeaStep(from, to) /\ ClientReturns

(* The test before the raw sentence stands for the report as well.         *)
ReportUntested == NmeaStep("parse", "reportCall") /\ UNCHANGED ifaceVars

ReportTest ==
    mEnabled /\ NmeaStep("parse", "reportCall") /\ UNCHANGED ifaceVars

NothingToReport == NmeaStep("parse", "idle") /\ UNCHANGED ifaceVars

NmeaThread ==
    \/ RawTest \/ NotRaw \/ NoCallback("rawCall", "parse")
    \/ Call("rawCall", "inRawCall") \/ Return("inRawCall", "parse")
    \/ ReportTest \/ NothingToReport \/ NoCallback("reportCall", "idle")
    \/ Call("reportCall", "inReportCall") \/ Return("inReportCall", "idle")

FakeThread == backend = "fake" /\ HandleThread /\ UNCHANGED <<gnssVars, nmea>>

Next ==
    \/ \E client \in Clients :
         \/ SetCallback(client) \/ StartTTY(client) \/ StartFake(client)
         \/ StopTTY(client) \/ StopFake(client)
         \/ Die(client) \/ ServiceDied(client)
    \/ SetHwCallback \/ LinkToDeath \/ StatusSent \/ Load \/ Loads
    \/ CriticalProtocolError
    \/ NmeaThread \/ FakeThread

Spec == Init /\ [][Next]_vars

(* Both threads run, and a call to a client, dead or alive, returns.       *)
FairSpec == Spec /\ WF_vars(NmeaThread) /\ WF_vars(FakeThread)

-----------------------------------------------------------------------------
(* A callback is a client's or none, and a binder call in progress has one: *)
(* setCallback refuses null.                                               *)
TypeOK ==
    /\ {mGnssCbIface, mGnssCb, callee} \subseteq Clients \union {NoClient}
    /\ {mEnabled, noticed, session} \subseteq BOOLEAN
    /\ links \subseteq Clients /\ alive \subseteq Clients
    /\ binder.op \in {"idle", "setHwCallback", "linkToDeath", "status", "load"}
    /\ binder # Idle => binder.client \in Clients

(* What may still be reported after the session: the one call the NMEA     *)
(* thread is about to make, or the rest of the fake receiver's segment.    *)
LateTTY == IF nmea \in {"rawCall", "reportCall"} THEN 1 ELSE 0

LateFake ==
    CASE handle = "loop" -> 0
      [] handle = "report" -> i + 1
      [] handle = "inCall" -> i
      [] OTHER -> MaxSteps + 1

Reports == INSTANCE Reporting WITH
    calling <- callee # NoClient,
    due <- IF session THEN 0 ELSE IF backend = "tty" THEN LateTTY ELSE LateFake,
    limit <- IF backend = "tty" THEN 1 ELSE MaxSteps + 1

(* Reports come within a session; after stop() has cleared what the thread *)
(* tests come at most those it was past its test for, one of the tty and a *)
(* segment of the fake receiver, wherever the thread was and whoever       *)
(* started, stopped, died or set a callback.                               *)
ReportingSpec == Reports!Spec

(* When no session is opened any more the reports end.                     *)
StopQuiets == <>[]~session => <>[](callee = NoClient)

(* Between two calls the HAL watches the client it calls, if that lives,   *)
(* and no other: whichever clients came, came again or died on the way.    *)
WatchesCurrentClient ==
    binder = Idle =>
        /\ mGnssCb = mGnssCbIface
        /\ links \intersect alive = {mGnssCbIface} \intersect alive

(* "Stopping all GNSS operations." (Gnss.cpp): when the death of the       *)
(* client was noticed nothing is reported any more.                        *)
DeathStopsReports == noticed => ~session

(* "For handling system-server death while GNSS service lives on" (Gnss.h):*)
(* the callback that the backend's thread is in is held by someone, also   *)
(* when the next system server sets its own.                               *)
CalleeIsHeld == callee # NoClient => callee \in {mGnssCbIface, mGnssCb}
=============================================================================
