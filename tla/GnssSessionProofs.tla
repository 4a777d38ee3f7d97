--------------------------- MODULE GnssSessionProofs ---------------------------
(***************************************************************************)
(* Proofs about the client, the binder thread and the thread of either     *)
(* backend, for any number of clients, any route and any number of starts. *)
(***************************************************************************)
EXTENDS GnssSession, SequenceTheorems, TLAPS

(* Which steps of the threads can occur with which backend.                *)
Places ==
    /\ backend \in {"tty", "fake"}
    /\ nmea \in {"idle", "rawCall", "inRawCall", "parse", "reportCall",
                 "inReportCall"}
    /\ handle \in {"loop", "from", "advance", "to", "segment", "report",
                   "inCall"}
    /\ backend = "tty" => handle = "loop" /\ route = 0
    /\ backend = "fake" => nmea = "idle"

(* The backend's thread is in a call at the steps that say so.             *)
CallAgrees ==
    callee # NoClient <=>
        nmea \in {"inRawCall", "inReportCall"} \/ handle = "inCall"

(* Only within setCallback do the two callbacks differ, and while it runs  *)
(* the death of no living client is linked to.                             *)
LinksAgree ==
    /\ binder.op \in {"setHwCallback", "linkToDeath"} =>
         /\ binder.client = mGnssCbIface
         /\ links \intersect alive = {}
    /\ binder.op \notin {"setHwCallback", "linkToDeath"} =>
         links \intersect alive = {mGnssCbIface} \intersect alive
    /\ binder.op # "setHwCallback" => mGnssCb = mGnssCbIface

(* What the threads test is set within a session alone.                    *)
TestsAgree ==
    /\ backend = "tty" /\ mEnabled => session
    /\ Loaded => session
    /\ binder.op = "load" => session /\ backend = "fake"
    /\ route = 0 => size = 0

(* The vector's memory holds its points, and never fewer than it did.      *)
VectorInv ==
    /\ route \in Nat /\ line \in Nat
    /\ size \in Nat /\ capacity \in Nat
    /\ memory \in Seq(Nat)
    /\ size <= Len(memory) /\ Len(memory) <= capacity

(* Where the thread is and what it refers to.                              *)
WalkInv ==
    /\ i \in 0 .. MaxSteps
    /\ pt_idx \in Nat /\ pt_from \in Int /\ pt_to \in Int
    /\ pt_idx = 0 \/ pt_idx < Len(memory)
    /\ Walking => Len(memory) > 0
    /\ handle \in {"advance", "to", "segment", "report", "inCall"} /\ ~moved =>
         pt_from \in 0 .. Len(memory) - 1
    /\ handle \in {"segment", "report", "inCall"} /\ ~moved =>
         pt_to \in 0 .. Len(memory) - 1

(* For a client that does not start twice each place of the memory, also   *)
(* past the size, holds the point that the file has there.                 *)
RouteInv ==
    /\ line # 0 <=> binder.op = "load"
    /\ line <= route + 1
    /\ ~appended =>
         /\ \A n \in 1 .. Len(memory) : memory[n] = n
         /\ Len(memory) <= route
         /\ IF line = 0 THEN size \in {0, route} ELSE size = line - 1

Following(point) == IF point + 1 >= route THEN 0 ELSE point + 1

(* Between its test of the size and the segment the thread refers to the   *)
(* points of a whole route, unless the vector has been changed.            *)
SegmentInv ==
    Walking /\ ~disturbed /\ ~appended =>
        /\ line = 0 /\ size = route /\ size > 1
        /\ handle = "advance" => pt_from = pt_idx
        /\ handle \in {"advance", "to", "segment"} => pt_from \in 0 .. route - 1
        /\ handle = "to" => pt_idx = Following(pt_from)
        /\ handle = "segment" => pt_to = Following(pt_from)

(* The strengthening that every step keeps.                                *)
IInv ==
    /\ TypeOK /\ Places /\ CallAgrees /\ LinksAgree /\ TestsAgree
    /\ VectorInv /\ WalkInv /\ RouteInv /\ SegmentInv
-----------------------------------------------------------------------------
(* One lemma for each part of the invariant: every step keeps it.          *)

(* The callbacks are clients or none, a binder call has a client.          *)
LEMMA TypeStep ==
  ASSUME TypeOK, [Next]_vars
  PROVE  TypeOK'
<1> USE DEF TypeOK, Idle, Running, Calls, vars, gnssVars, clientVars,
        ifaceVars, fakeVars, vectorVars, walkVars, historyVars
<1>1. ASSUME NEW client \in Clients, SetCallback(client)
      PROVE  TypeOK'
  BY <1>1 DEF SetCallback
<1>2. ASSUME NEW client \in Clients, StartTTY(client)
      PROVE  TypeOK'
  BY <1>2 DEF StartTTY, StartCall
<1>3. ASSUME NEW client \in Clients, StartFake(client)
      PROVE  TypeOK'
  <2>1. CASE route = 0
    BY <1>3, <2>1 DEF StartFake, StartCall
  <2>2. CASE route # 0
    <3>1. binder' = Running("load", client) /\ session' = TRUE
      BY <1>3, <2>2 DEF StartFake
    <3>2. {mGnssCbIface', mGnssCb', callee'} \subseteq Clients \union {NoClient}
      BY <1>3 DEF StartFake, StartCall
    <3>3. {mEnabled', noticed', session'} \subseteq BOOLEAN
      BY <1>3, <3>1 DEF StartFake, StartCall
    <3>4. links' \subseteq Clients /\ alive' \subseteq Clients
      BY <1>3 DEF StartFake, StartCall
    <3> QED
      BY <3>1, <3>2, <3>3, <3>4
  <2> QED
    BY <2>1, <2>2
<1>4. ASSUME NEW client \in Clients, StopTTY(client)
      PROVE  TypeOK'
  BY <1>4 DEF StopTTY
<1>5. ASSUME NEW client \in Clients, StopFake(client)
      PROVE  TypeOK'
  BY <1>5 DEF StopFake, ClearPoints
<1>6. ASSUME NEW client \in Clients, Die(client)
      PROVE  TypeOK'
  BY <1>6 DEF Die
<1>7. ASSUME NEW client \in Clients, ServiceDied(client)
      PROVE  TypeOK'
  BY <1>7 DEF ServiceDied
<1>8. CASE SetHwCallback
  BY <1>8 DEF SetHwCallback, StoreCallback
<1>9. CASE LinkToDeath
  BY <1>9 DEF LinkToDeath
<1>10. CASE StatusSent
  BY <1>10 DEF StatusSent
<1>11. CASE Load
  BY <1>11 DEF Load
<1>12. CASE Loads
  BY <1>12 DEF Loads, Loaded
<1>13. CASE CriticalProtocolError
  BY <1>13 DEF CriticalProtocolError
<1>14. CASE NmeaThread
  BY <1>14 DEF NmeaThread, NmeaStep, RawTest, NotRaw, NoCallback, Call,
      CallClient, Return, ClientReturns, ReportTest, NothingToReport
<1>15. CASE FakeThread
  BY <1>15 DEF FakeThread, HandleThread, WalkStep, TestSize, TakeFrom,
      Advance, TakeTo, Segment, SkipLast, Report, CallClient, Reported,
      ClientReturns, EndSegment
<1>16. CASE UNCHANGED vars
  BY <1>16
<1> QED
  BY <1>1, <1>2, <1>3, <1>4, <1>5, <1>6, <1>7, <1>8, <1>9, <1>10, <1>11,
      <1>12, <1>13, <1>14, <1>15, <1>16 DEF Next

(* Each thread stays with its backend.                                      *)
LEMMA PlacesStep ==
  ASSUME Places, [Next]_vars
  PROVE  Places'
<1> USE DEF Places, vars, gnssVars, clientVars, ifaceVars, fakeVars,
        vectorVars, walkVars, historyVars
<1>1. ASSUME NEW client \in Clients, SetCallback(client)
      PROVE  Places'
  BY <1>1 DEF SetCallback
<1>2. ASSUME NEW client \in Clients, StartTTY(client)
      PROVE  Places'
  BY <1>2 DEF StartTTY, StartCall
<1>3. ASSUME NEW client \in Clients, StartFake(client)
      PROVE  Places'
  BY <1>3 DEF StartFake, StartCall, OpenRoute
<1>4. ASSUME NEW client \in Clients, StopTTY(client)
      PROVE  Places'
  BY <1>4 DEF StopTTY
<1>5. ASSUME NEW client \in Clients, StopFake(client)
      PROVE  Places'
  BY <1>5 DEF StopFake, ClearPoints
<1>6. ASSUME NEW client \in Clients, Die(client)
      PROVE  Places'
  BY <1>6 DEF Die
<1>7. ASSUME NEW client \in Clients, ServiceDied(client)
      PROVE  Places'
  BY <1>7 DEF ServiceDied
<1>8. CASE SetHwCallback
  BY <1>8 DEF SetHwCallback, StoreCallback
<1>9. CASE LinkToDeath
  BY <1>9 DEF LinkToDeath
<1>10. CASE StatusSent
  BY <1>10 DEF StatusSent
<1>11. CASE Load
  BY <1>11 DEF Load, LoadPoint, Grow, Store
<1>12. CASE Loads
  BY <1>12 DEF Loads, CloseRoute
<1>13. CASE CriticalProtocolError
  BY <1>13 DEF CriticalProtocolError
<1>14. CASE NmeaThread
  BY <1>14 DEF NmeaThread, NmeaStep, RawTest, NotRaw, NoCallback, Call,
      CallClient, Return, ClientReturns, ReportTest, NothingToReport
<1>15. CASE FakeThread
  BY <1>15 DEF FakeThread, HandleThread, WalkStep, TestSize, TakeFrom,
      Advance, TakeTo, Segment, SkipLast, Report, CallClient, Reported,
      ClientReturns, EndSegment
<1>16. CASE UNCHANGED vars
  BY <1>16
<1> QED
  BY <1>1, <1>2, <1>3, <1>4, <1>5, <1>6, <1>7, <1>8, <1>9, <1>10, <1>11,
      <1>12, <1>13, <1>14, <1>15, <1>16 DEF Next

(* A thread is in a call exactly where it says so.                         *)
LEMMA CallStep ==
  ASSUME Places, TypeOK, CallAgrees, [Next]_vars
  PROVE  CallAgrees'
<1> USE DEF Places, TypeOK, CallAgrees, HasCallback, vars, gnssVars,
        clientVars, ifaceVars, fakeVars, vectorVars, walkVars, historyVars
<1>1. ASSUME NEW client \in Clients, SetCallback(client)
      PROVE  CallAgrees'
  BY <1>1 DEF SetCallback
<1>2. ASSUME NEW client \in Clients, StartTTY(client)
      PROVE  CallAgrees'
  BY <1>2 DEF StartTTY, StartCall
<1>3. ASSUME NEW client \in Clients, StartFake(client)
      PROVE  CallAgrees'
  BY <1>3 DEF StartFake, StartCall, OpenRoute
<1>4. ASSUME NEW client \in Clients, StopTTY(client)
      PROVE  CallAgrees'
  BY <1>4 DEF StopTTY
<1>5. ASSUME NEW client \in Clients, StopFake(client)
      PROVE  CallAgrees'
  BY <1>5 DEF StopFake, ClearPoints
<1>6. ASSUME NEW client \in Clients, Die(client)
      PROVE  CallAgrees'
  BY <1>6 DEF Die
<1>7. ASSUME NEW client \in Clients, ServiceDied(client)
      PROVE  CallAgrees'
  BY <1>7 DEF ServiceDied
<1>8. CASE SetHwCallback
  BY <1>8 DEF SetHwCallback, StoreCallback
<1>9. CASE LinkToDeath
  BY <1>9 DEF LinkToDeath
<1>10. CASE StatusSent
  BY <1>10 DEF StatusSent
<1>11. CASE Load
  BY <1>11 DEF Load, LoadPoint, Grow, Store
<1>12. CASE Loads
  BY <1>12 DEF Loads, CloseRoute
<1>13. CASE CriticalProtocolError
  BY <1>13 DEF CriticalProtocolError
<1>14. CASE NmeaThread
  BY <1>14, ClientAssumption DEF NmeaThread, NmeaStep, RawTest, NotRaw,
      NoCallback, Call, CallClient, Return, ClientReturns, ReportTest,
      NothingToReport
<1>15. CASE FakeThread
  BY <1>15, ClientAssumption DEF FakeThread, HandleThread, WalkStep,
      TestSize, TakeFrom, Advance, TakeTo, Segment, SkipLast, Report,
      CallClient, Reported, ClientReturns, EndSegment
<1>16. CASE UNCHANGED vars
  BY <1>16
<1> QED
  BY <1>1, <1>2, <1>3, <1>4, <1>5, <1>6, <1>7, <1>8, <1>9, <1>10, <1>11,
      <1>12, <1>13, <1>14, <1>15, <1>16 DEF Next

(* A link to a living client is one to the current client.                 *)
LEMMA LinksStep ==
  ASSUME TypeOK, LinksAgree, [Next]_vars
  PROVE  LinksAgree'
<1> USE DEF TypeOK, LinksAgree, Idle, Running, Calls, vars, gnssVars,
        clientVars, ifaceVars, fakeVars, vectorVars, walkVars, historyVars
<1>1. ASSUME NEW client \in Clients, SetCallback(client)
      PROVE  LinksAgree'
  BY <1>1 DEF SetCallback
<1>2. ASSUME NEW client \in Clients, StartTTY(client)
      PROVE  LinksAgree'
  BY <1>2 DEF StartTTY, StartCall
<1>3. ASSUME NEW client \in Clients, StartFake(client)
      PROVE  LinksAgree'
  BY <1>3 DEF StartFake, StartCall
<1>4. ASSUME NEW client \in Clients, StopTTY(client)
      PROVE  LinksAgree'
  BY <1>4 DEF StopTTY
<1>5. ASSUME NEW client \in Clients, StopFake(client)
      PROVE  LinksAgree'
  BY <1>5 DEF StopFake, ClearPoints
<1>6. ASSUME NEW client \in Clients, Die(client)
      PROVE  LinksAgree'
  BY <1>6 DEF Die
<1>7. ASSUME NEW client \in Clients, ServiceDied(client)
      PROVE  LinksAgree'
  BY <1>7 DEF ServiceDied
<1>8. CASE SetHwCallback
  BY <1>8 DEF SetHwCallback, StoreCallback
<1>9. CASE LinkToDeath
  BY <1>9 DEF LinkToDeath
<1>10. CASE StatusSent
  BY <1>10 DEF StatusSent
<1>11. CASE Load
  BY <1>11 DEF Load
<1>12. CASE Loads
  BY <1>12 DEF Loads, CloseRoute
<1>13. CASE CriticalProtocolError
  BY <1>13, ClientAssumption DEF CriticalProtocolError
<1>14. CASE NmeaThread
  BY <1>14 DEF NmeaThread, NmeaStep, RawTest, NotRaw, NoCallback, Call,
      CallClient, Return, ClientReturns, ReportTest, NothingToReport
<1>15. CASE FakeThread
  BY <1>15 DEF FakeThread, HandleThread, WalkStep, TestSize, TakeFrom,
      Advance, TakeTo, Segment, SkipLast, Report, CallClient, Reported,
      ClientReturns, EndSegment
<1>16. CASE UNCHANGED vars
  BY <1>16
<1> QED
  BY <1>1, <1>2, <1>3, <1>4, <1>5, <1>6, <1>7, <1>8, <1>9, <1>10, <1>11,
      <1>12, <1>13, <1>14, <1>15, <1>16 DEF Next

(* What a thread tests before it reports is set within a session alone.    *)
LEMMA TestsStep ==
  ASSUME Places, VectorInv, TestsAgree, [Next]_vars
  PROVE  TestsAgree'
<1> USE DEF Places, VectorInv, TestsAgree, Loaded, Idle, Running, Calls,
        vars, gnssVars, clientVars, ifaceVars, fakeVars, vectorVars,
        walkVars, historyVars
<1>1. ASSUME NEW client \in Clients, SetCallback(client)
      PROVE  TestsAgree'
  BY <1>1 DEF SetCallback
<1>2. ASSUME NEW client \in Clients, StartTTY(client)
      PROVE  TestsAgree'
  BY <1>2 DEF StartTTY, StartCall
<1>3. ASSUME NEW client \in Clients, StartFake(client)
      PROVE  TestsAgree'
  BY <1>3 DEF StartFake, StartCall, OpenRoute
<1>4. ASSUME NEW client \in Clients, StopTTY(client)
      PROVE  TestsAgree'
  BY <1>4 DEF StopTTY
<1>5. ASSUME NEW client \in Clients, StopFake(client)
      PROVE  TestsAgree'
  BY <1>5 DEF StopFake, ClearPoints
<1>6. ASSUME NEW client \in Clients, Die(client)
      PROVE  TestsAgree'
  BY <1>6 DEF Die
<1>7. ASSUME NEW client \in Clients, ServiceDied(client)
      PROVE  TestsAgree'
  BY <1>7 DEF ServiceDied
<1>8. CASE SetHwCallback
  BY <1>8 DEF SetHwCallback, StoreCallback
<1>9. CASE LinkToDeath
  BY <1>9 DEF LinkToDeath
<1>10. CASE StatusSent
  BY <1>10 DEF StatusSent
<1>11. CASE Load
  BY <1>11 DEF Load, LoadPoint
<1>12. CASE Loads
  BY <1>12 DEF Loads, CloseRoute
<1>13. CASE CriticalProtocolError
  BY <1>13 DEF CriticalProtocolError
<1>14. CASE NmeaThread
  BY <1>14 DEF NmeaThread, NmeaStep, RawTest, NotRaw, NoCallback, Call,
      CallClient, Return, ClientReturns, ReportTest, NothingToReport
<1>15. CASE FakeThread
  BY <1>15 DEF FakeThread, HandleThread, WalkStep, TestSize, TakeFrom,
      Advance, TakeTo, Segment, SkipLast, Report, CallClient, Reported,
      ClientReturns, EndSegment
<1>16. CASE UNCHANGED vars
  BY <1>16
<1> QED
  BY <1>1, <1>2, <1>3, <1>4, <1>5, <1>6, <1>7, <1>8, <1>9, <1>10, <1>11,
      <1>12, <1>13, <1>14, <1>15, <1>16 DEF Next

(* A point more, with the memory in place or in a larger one.              *)
LEMMA LoadGrowsMemory ==
  ASSUME VectorInv, LoadPoint
  PROVE  VectorInv' /\ Len(memory') >= Len(memory)
<1> USE DEF VectorInv
<1>1. line' \in Nat /\ size' \in Nat /\ size' = size + 1 /\ route' \in Nat
  BY DEF LoadPoint
<1>2. CASE size = capacity
  <2>1. /\ capacity' = IF capacity = 0 THEN 1 ELSE 2 * capacity
        /\ memory' = Append(memory, line)
    BY <1>2 DEF LoadPoint, Grow
  <2>2. memory' \in Seq(Nat) /\ Len(memory') = Len(memory) + 1
    BY <2>1
  <2>3. capacity' \in Nat /\ capacity' >= capacity + 1
    BY <2>1
  <2> QED
    BY <1>1, <1>2, <2>2, <2>3
<1>3. CASE size # capacity /\ size = Len(memory)
  BY <1>1, <1>3 DEF LoadPoint, Store
<1>4. CASE size # capacity /\ size # Len(memory)
  <2>1. memory' = [memory EXCEPT ![size + 1] = line] /\ capacity' = capacity
    BY <1>4 DEF LoadPoint, Store
  <2>2. /\ capacity' = capacity
        /\ memory' \in Seq(Nat) /\ Len(memory') = Len(memory)
    BY <1>4, <2>1
  <2>3. size + 1 <= Len(memory)
    BY <1>4
  <2> QED
    BY <1>1, <2>2, <2>3
<1> QED
  BY <1>2, <1>3, <1>4

(* The points lie within the memory of the vector.                         *)
LEMMA VectorStep ==
  ASSUME VectorInv, [Next]_vars
  PROVE  VectorInv'
<1> USE DEF VectorInv, vars, gnssVars, clientVars, ifaceVars, fakeVars,
        vectorVars, walkVars, historyVars
<1>1. ASSUME NEW client \in Clients, SetCallback(client)
      PROVE  VectorInv'
  BY <1>1 DEF SetCallback
<1>2. ASSUME NEW client \in Clients, StartTTY(client)
      PROVE  VectorInv'
  BY <1>2 DEF StartTTY, StartCall
<1>3. ASSUME NEW client \in Clients, StartFake(client)
      PROVE  VectorInv'
  BY <1>3 DEF StartFake, OpenRoute
<1>4. ASSUME NEW client \in Clients, StopTTY(client)
      PROVE  VectorInv'
  BY <1>4 DEF StopTTY
<1>5. ASSUME NEW client \in Clients, StopFake(client)
      PROVE  VectorInv'
  BY <1>5 DEF StopFake, ClearPoints
<1>6. ASSUME NEW client \in Clients, Die(client)
      PROVE  VectorInv'
  BY <1>6 DEF Die
<1>7. ASSUME NEW client \in Clients, ServiceDied(client)
      PROVE  VectorInv'
  BY <1>7 DEF ServiceDied
<1>8. CASE SetHwCallback
  BY <1>8 DEF SetHwCallback, StoreCallback
<1>9. CASE LinkToDeath
  BY <1>9 DEF LinkToDeath
<1>10. CASE StatusSent
  BY <1>10 DEF StatusSent
<1>11. CASE Load
  BY <1>11, LoadGrowsMemory DEF Load
<1>12. CASE Loads
  BY <1>12 DEF Loads, CloseRoute
<1>13. CASE CriticalProtocolError
  BY <1>13 DEF CriticalProtocolError
<1>14. CASE NmeaThread
  BY <1>14 DEF NmeaThread, NmeaStep, RawTest, NotRaw, NoCallback, Call,
      CallClient, Return, ClientReturns, ReportTest, NothingToReport
<1>15. CASE FakeThread
  BY <1>15 DEF FakeThread, HandleThread, WalkStep, TestSize, TakeFrom,
      Advance, TakeTo, Segment, SkipLast, Report, CallClient, Reported,
      ClientReturns, EndSegment
<1>16. CASE UNCHANGED vars
  BY <1>16
<1> QED
  BY <1>1, <1>2, <1>3, <1>4, <1>5, <1>6, <1>7, <1>8, <1>9, <1>10, <1>11,
      <1>12, <1>13, <1>14, <1>15, <1>16 DEF Next

(* The references of a segment lie within the memory, or it has moved.     *)
LEMMA ReferenceStep ==
  ASSUME Places, VectorInv, WalkInv, [Next]_vars
  PROVE  WalkInv'
<1> USE DEF Places, VectorInv, WalkInv, Walking, Loaded, Dangling, vars,
        gnssVars, clientVars, ifaceVars, fakeVars, vectorVars, walkVars,
        historyVars
<1>1. ASSUME NEW client \in Clients, SetCallback(client)
      PROVE  WalkInv'
  BY <1>1 DEF SetCallback
<1>2. ASSUME NEW client \in Clients, StartTTY(client)
      PROVE  WalkInv'
  BY <1>2 DEF StartTTY, StartCall
<1>3. ASSUME NEW client \in Clients, StartFake(client)
      PROVE  WalkInv'
  BY <1>3 DEF StartFake, OpenRoute
<1>4. ASSUME NEW client \in Clients, StopTTY(client)
      PROVE  WalkInv'
  BY <1>4 DEF StopTTY
<1>5. ASSUME NEW client \in Clients, StopFake(client)
      PROVE  WalkInv'
  BY <1>5 DEF StopFake, ClearPoints
<1>6. ASSUME NEW client \in Clients, Die(client)
      PROVE  WalkInv'
  BY <1>6 DEF Die
<1>7. ASSUME NEW client \in Clients, ServiceDied(client)
      PROVE  WalkInv'
  BY <1>7 DEF ServiceDied
<1>8. CASE SetHwCallback
  BY <1>8 DEF SetHwCallback, StoreCallback
<1>9. CASE LinkToDeath
  BY <1>9 DEF LinkToDeath
<1>10. CASE StatusSent
  BY <1>10 DEF StatusSent
<1>11. CASE Load
  <2>1. /\ LoadPoint
        /\ Len(memory') >= Len(memory) /\ Len(memory') \in Nat
    BY <1>11, LoadGrowsMemory DEF Load
  <2>2. CASE size = capacity
    <3>1. /\ Walking => moved'
          /\ pt_from' = Dangling /\ pt_to' = Dangling
          /\ handle' = handle /\ pt_idx' = pt_idx /\ i' = i
      BY <2>1, <2>2 DEF LoadPoint, Grow
    <3> QED
      BY <2>1, <3>1
  <2>3. CASE size # capacity
    BY <2>1, <2>3 DEF LoadPoint, Store
  <2> QED
    BY <2>2, <2>3
<1>12. CASE Loads
  BY <1>12 DEF Loads, CloseRoute
<1>13. CASE CriticalProtocolError
  BY <1>13 DEF CriticalProtocolError
<1>14. CASE NmeaThread
  BY <1>14 DEF NmeaThread, NmeaStep, RawTest, NotRaw, NoCallback, Call,
      CallClient, Return, ClientReturns, ReportTest, NothingToReport
<1>15. CASE UNCHANGED vars
  BY <1>15
<1>16. CASE FakeThread
  <2>1. CASE TestSize
    BY <1>16, <2>1 DEF FakeThread, TestSize, WalkStep
  <2>2. CASE TakeFrom
    BY <1>16, <2>2 DEF FakeThread, TakeFrom, WalkStep
  <2>3. CASE Advance
    BY <1>16, <2>3 DEF FakeThread, Advance, WalkStep
  <2>4. CASE TakeTo
    BY <1>16, <2>4 DEF FakeThread, TakeTo, WalkStep
  <2>5. CASE Segment
    BY <1>16, <2>5 DEF FakeThread, Segment, WalkStep
  <2>6. CASE SkipLast
    BY <1>16, <2>6 DEF FakeThread, SkipLast, WalkStep, EndSegment
  <2>7. CASE Report
    BY <1>16, <2>7 DEF FakeThread, Report, WalkStep, CallClient
  <2>8. CASE Reported
    <3>1. CASE i = 0
      BY <1>16, <2>8, <3>1 DEF FakeThread, Reported, WalkStep, EndSegment
    <3>2. CASE i # 0
      BY <1>16, <2>8, <3>2, RoutesAssumption DEF FakeThread, Reported, WalkStep
    <3> QED
      BY <3>1, <3>2
  <2> QED
    BY <1>16, <2>1, <2>2, <2>3, <2>4, <2>5, <2>6, <2>7, <2>8
    DEF FakeThread, HandleThread
<1> QED
  BY <1>1, <1>2, <1>3, <1>4, <1>5, <1>6, <1>7, <1>8, <1>9, <1>10, <1>11,
      <1>12, <1>13, <1>14, <1>15, <1>16 DEF Next

(* A point more is stored at the place it has in the file.                 *)
LEMMA LoadKeepsRoute ==
  ASSUME VectorInv, RouteInv, LoadPoint, ~appended
  PROVE  /\ \A n \in 1 .. Len(memory') : memory'[n] = n
         /\ Len(memory') <= route
         /\ size' = line' - 1 /\ line' \in 1 .. route + 1
<1> USE DEF VectorInv, RouteInv
<1>1. /\ line \in 1 .. route /\ line' = line + 1 /\ size' = size + 1
      /\ size = line - 1 /\ Len(memory) \in Nat /\ Len(memory) <= route
      /\ \A n \in 1 .. Len(memory) : memory[n] = n
  BY DEF LoadPoint
<1>2. CASE size = Len(memory)
  <2>1. memory' = Append(memory, line)
    BY <1>2 DEF LoadPoint, Grow, Store
  <2>2. /\ Len(memory') = Len(memory) + 1
        /\ memory'[Len(memory) + 1] = line
        /\ \A n \in 1 .. Len(memory) : memory'[n] = memory[n]
    BY <2>1, AppendProperties
  <2>3. ASSUME NEW n \in 1 .. Len(memory')
        PROVE  memory'[n] = n
    <3>1. n = Len(memory) + 1 \/ n \in 1 .. Len(memory)
      BY <1>1, <2>2, <2>3
    <3>2. QED
      BY <1>1, <1>2, <2>2, <3>1
  <2>4. QED
    BY <1>1, <1>2, <2>2, <2>3
<1>3. CASE size # Len(memory)
  <2>1. size + 1 \in 1 .. Len(memory)
    BY <1>1, <1>3
  <2>2. memory' = [memory EXCEPT ![size + 1] = line]
    BY <1>3, <2>1 DEF LoadPoint, Store
  <2>3. Len(memory') = Len(memory)
    BY <2>2
  <2>4. \A n \in 1 .. Len(memory) : memory'[n] = IF n = size + 1 THEN line
                                                 ELSE memory[n]
    BY <2>2
  <2>5. QED
    BY <1>1, <2>3, <2>4
<1>4. QED
  BY <1>2, <1>3

(* The memory holds the route for a client that does not start twice.      *)
LEMMA RouteStep ==
  ASSUME TypeOK, Places, TestsAgree, VectorInv, RouteInv, [Next]_vars
  PROVE  RouteInv'
<1> USE DEF RouteInv, VectorInv, Idle, Running, Calls, vars, gnssVars,
        clientVars, ifaceVars, fakeVars, vectorVars, walkVars, historyVars
<1>1. ASSUME NEW client \in Clients, SetCallback(client)
      PROVE  RouteInv'
  BY <1>1 DEF SetCallback
<1>2. ASSUME NEW client \in Clients, StartTTY(client)
      PROVE  RouteInv'
  BY <1>2 DEF StartTTY, StartCall
<1>3. ASSUME NEW client \in Clients, StartFake(client)
      PROVE  RouteInv'
  <2>1. CASE route = 0
    BY <1>3, <2>1 DEF StartFake, StartCall
  <2>2. CASE route # 0
    <3>1. /\ line' = 1 /\ binder' = Running("load", client)
          /\ appended' = (appended \/ size > 0)
          /\ UNCHANGED <<route, memory, size>>
      BY <1>3, <2>2 DEF StartFake, OpenRoute
    <3>2. line' # 0 /\ binder'.op = "load" /\ line' <= route' + 1
      BY <3>1
    <3>3. ~appended' => ~appended /\ ~(size > 0)
      BY <3>1, Zenon
    <3>4. QED
      BY <3>1, <3>2, <3>3
  <2>3. QED
    BY <2>1, <2>2
<1>4. ASSUME NEW client \in Clients, StopTTY(client)
      PROVE  RouteInv'
  BY <1>4 DEF StopTTY
<1>5. ASSUME NEW client \in Clients, StopFake(client)
      PROVE  RouteInv'
  BY <1>5 DEF StopFake, ClearPoints
<1>6. ASSUME NEW client \in Clients, Die(client)
      PROVE  RouteInv'
  BY <1>6 DEF Die
<1>7. ASSUME NEW client \in Clients, ServiceDied(client)
      PROVE  RouteInv'
  BY <1>7 DEF ServiceDied
<1>8. CASE SetHwCallback
  BY <1>8 DEF SetHwCallback, StoreCallback
<1>9. CASE LinkToDeath
  BY <1>9 DEF LinkToDeath
<1>10. CASE StatusSent
  BY <1>10 DEF StatusSent
<1>11. CASE Load
  <2>1. LoadPoint /\ binder' = binder /\ appended' = appended /\ route' = route
    BY <1>11 DEF Load, LoadPoint
  <2>2. line' # 0 /\ line' <= route + 1 /\ binder.op = "load"
    BY <2>1 DEF LoadPoint
  <2>3. QED
    BY <2>1, <2>2, LoadKeepsRoute
<1>12. CASE Loads
  BY <1>12 DEF Loads, CloseRoute
<1>13. CASE CriticalProtocolError
  BY <1>13 DEF CriticalProtocolError, TestsAgree
<1>14. CASE NmeaThread
  BY <1>14 DEF NmeaThread, NmeaStep, RawTest, NotRaw, NoCallback, Call,
      CallClient, Return, ClientReturns, ReportTest, NothingToReport
<1>15. CASE UNCHANGED vars
  BY <1>15
<1>16. CASE FakeThread
  BY <1>16 DEF FakeThread, HandleThread, WalkStep, TestSize, TakeFrom,
      Advance, TakeTo, Segment, SkipLast, Report, CallClient, Reported,
      ClientReturns, EndSegment
<1> QED
  BY <1>1, <1>2, <1>3, <1>4, <1>5, <1>6, <1>7, <1>8, <1>9, <1>10, <1>11,
      <1>12, <1>13, <1>14, <1>15, <1>16 DEF Next

(* The thread goes from each point to the one that follows it.             *)
LEMMA SegmentStep ==
  ASSUME Places, TestsAgree, VectorInv, WalkInv, RouteInv, SegmentInv,
         [Next]_vars
  PROVE  SegmentInv'
<1> USE DEF VectorInv, SegmentInv, Walking, Following, vars, gnssVars,
        clientVars, ifaceVars, fakeVars, vectorVars, walkVars, historyVars
<1>1. ASSUME NEW client \in Clients, SetCallback(client)
      PROVE  SegmentInv'
  BY <1>1 DEF SetCallback
<1>2. ASSUME NEW client \in Clients, StartTTY(client)
      PROVE  SegmentInv'
  BY <1>2 DEF StartTTY, StartCall
<1>3. ASSUME NEW client \in Clients, StartFake(client)
      PROVE  SegmentInv'
  <2>1. CASE route = 0
    BY <1>3, <2>1 DEF StartFake, StartCall
  <2>2. CASE route # 0
    BY <1>3, <2>2 DEF StartFake, StartCall, OpenRoute
  <2>3. QED
    BY <2>1, <2>2
<1>4. ASSUME NEW client \in Clients, StopTTY(client)
      PROVE  SegmentInv'
  BY <1>4 DEF StopTTY
<1>5. ASSUME NEW client \in Clients, StopFake(client)
      PROVE  SegmentInv'
  BY <1>5 DEF StopFake, ClearPoints
<1>6. ASSUME NEW client \in Clients, Die(client)
      PROVE  SegmentInv'
  BY <1>6 DEF Die
<1>7. ASSUME NEW client \in Clients, ServiceDied(client)
      PROVE  SegmentInv'
  BY <1>7 DEF ServiceDied
<1>8. CASE SetHwCallback
  BY <1>8 DEF SetHwCallback, StoreCallback
<1>9. CASE LinkToDeath
  BY <1>9 DEF LinkToDeath
<1>10. CASE StatusSent
  BY <1>10 DEF StatusSent
<1>11. CASE Load
  BY <1>11 DEF Load, LoadPoint
<1>12. CASE Loads
  BY <1>12 DEF Loads, CloseRoute
<1>13. CASE CriticalProtocolError
  BY <1>13 DEF CriticalProtocolError
<1>14. CASE NmeaThread
  BY <1>14 DEF NmeaThread, NmeaStep, RawTest, NotRaw, NoCallback, Call,
      CallClient, Return, ClientReturns, ReportTest, NothingToReport
<1>15. CASE UNCHANGED vars
  BY <1>15
<1>16. CASE FakeThread
  <2>1. CASE TestSize
    <3>1. /\ handle' = "from" /\ size > 1
          /\ disturbed' = (line # 0)
          /\ UNCHANGED <<route, line, size, appended>>
      BY <2>1 DEF TestSize, WalkStep, Loaded
    <3>2. ~disturbed' => line = 0
      BY <3>1
    <3>3. ~appended /\ line = 0 => size = route
      BY <3>1 DEF RouteInv
    <3>4. QED
      BY <3>1, <3>2, <3>3
  <2>2. CASE TakeFrom
    <3>1. Walking /\ ~disturbed /\ ~appended => pt_idx \in 0 .. route - 1
      BY <2>2 DEF TakeFrom, WalkStep, WalkInv, RouteInv
    <3>2. QED
      BY <1>16, <2>2, <3>1 DEF FakeThread, TakeFrom, WalkStep
  <2>3. CASE Advance
    BY <1>16, <2>3 DEF FakeThread, Advance, WalkStep
  <2>4. CASE TakeTo
    BY <1>16, <2>4 DEF FakeThread, TakeTo, WalkStep
  <2>5. CASE Segment
    BY <1>16, <2>5 DEF FakeThread, Segment, WalkStep
  <2>6. CASE SkipLast
    BY <1>16, <2>6 DEF FakeThread, SkipLast, WalkStep, EndSegment
  <2>7. CASE Report
    BY <1>16, <2>7 DEF FakeThread, Report, WalkStep, CallClient
  <2>8. CASE Reported
    BY <1>16, <2>8 DEF FakeThread, Reported, WalkStep, EndSegment
  <2>9. QED
    BY <1>16, <2>1, <2>2, <2>3, <2>4, <2>5, <2>6, <2>7, <2>8
    DEF FakeThread, HandleThread
<1> QED
  BY <1>1, <1>2, <1>3, <1>4, <1>5, <1>6, <1>7, <1>8, <1>9, <1>10, <1>11,
      <1>12, <1>13, <1>14, <1>15, <1>16 DEF Next

-----------------------------------------------------------------------------
(* The places, types and bounds of IInv hold in every reachable state.     *)
THEOREM Invariant == Spec => []IInv
<1>1. Init => IInv
  <2> SUFFICES ASSUME Init PROVE IInv
    OBVIOUS
  <2> USE ClientAssumption, RoutesAssumption, BackendsAssumption
      DEF Init, IfaceInit, FakeInit
  <2>1. TypeOK /\ LinksAgree
    BY DEF TypeOK, LinksAgree, Idle
  <2>2. Places /\ CallAgrees
    BY DEF Places, CallAgrees
  <2>3. TestsAgree
    BY DEF TestsAgree, Loaded, Idle
  <2>4. VectorInv /\ WalkInv
    BY DEF VectorInv, WalkInv, Walking, Dangling
  <2>5. RouteInv /\ SegmentInv
    BY DEF RouteInv, SegmentInv, Walking, Idle
  <2> QED
    BY <2>1, <2>2, <2>3, <2>4, <2>5 DEF IInv
<1>2. IInv /\ [Next]_vars => IInv'
  BY TypeStep, PlacesStep, CallStep, LinksStep, TestsStep, VectorStep,
     ReferenceStep, RouteStep, SegmentStep DEF IInv
<1> QED
  BY <1>1, <1>2, PTL DEF Spec

(* Between two calls the HAL watches the client it calls and no other,     *)
(* whatever number of clients sets callbacks, sets them again and dies.    *)
THEOREM CurrentClientIsWatched ==
  Spec => []WatchesCurrentClient
<1>1. IInv => WatchesCurrentClient
  BY DEF IInv, LinksAgree, WatchesCurrentClient, Idle
<1> QED
  BY <1>1, Invariant, PTL

(* For a file of any length and any number of starts and stops between two *)
(* reads of the thread, its references stay in the vector's memory unless  *)
(* that has moved.                                                         *)
THEOREM ReferencesStayInMemory ==
  Spec => []PointsStayInMemory
<1>1. IInv => PointsStayInMemory
  BY DEF IInv, Places, VectorInv, WalkInv, PointsStayInMemory, UsesPoints
<1> QED
  BY <1>1, Invariant, PTL

(* For a route of any length the thread goes from each point to the next   *)
(* of the file, and from the last to the first, whatever start() and       *)
(* stop() did between two segments: WalksTheRoute holds.                   *)
THEOREM RouteIsWalked ==
  Spec => []WalksTheRoute
<1>1. IInv => WalksTheRoute
  <2> SUFFICES ASSUME IInv, handle = "segment", ~disturbed, ~appended
               PROVE  /\ {pt_from + 1, pt_to + 1} \subseteq DOMAIN memory
                      /\ memory[pt_to + 1] = (memory[pt_from + 1] % route) + 1
    BY DEF WalksTheRoute
  <2>1. /\ route \in Nat /\ size = route /\ size > 1
        /\ pt_from \in 0 .. route - 1
        /\ pt_to = IF pt_from + 1 >= route THEN 0 ELSE pt_from + 1
    BY DEF IInv, VectorInv, SegmentInv, Walking, Following
  <2>2. /\ Len(memory) = route /\ DOMAIN memory = 1 .. Len(memory)
        /\ \A n \in 1 .. route : memory[n] = n
    BY <2>1 DEF IInv, VectorInv, RouteInv
  <2>3. /\ pt_from + 1 \in 1 .. route /\ pt_to + 1 \in 1 .. route
    BY <2>1
  <2>4. (pt_from + 1) % route = pt_to
    <3>1. CASE pt_from + 1 < route
      BY <2>1, <3>1, SMTT(20)
    <3>2. CASE pt_from + 1 = route
      <4>1. route % route = 0
        BY <2>1, SMTT(20)
      <4>2. QED
        BY <2>1, <3>2, <4>1
    <3>3. QED
      BY <2>1, <3>1, <3>2
  <2>5. QED
    BY <2>2, <2>3, <2>4
<1> QED
  BY <1>1, Invariant, PTL
-----------------------------------------------------------------------------
(* What is due after a session, and the most that can be.                  *)
Due == IF session THEN 0 ELSE IF backend = "tty" THEN LateTTY ELSE LateFake
Limit == IF backend = "tty" THEN 1 ELSE MaxSteps + 1

(* What the NMEA thread and the fake receiver may still report is within   *)
(* the limit of their backend.                                             *)
LEMMA DueIsLimited ==
  IInv => Limit \in Nat /\ Due \in 0 .. Limit
BY RoutesAssumption
   DEF IInv, Places, WalkInv, Due, Limit, LateTTY, LateFake

(* The backend is chosen once.                                             *)
LEMMA LimitStays ==
  ASSUME [Next]_vars
  PROVE  Limit' = Limit
<1> SUFFICES backend' = backend
  BY DEF Limit
<1> QED
  BY DEF Next, vars, gnssVars, SetCallback, StartTTY, StartFake, StartCall,
     StopTTY, StopFake, Die, ServiceDied, SetHwCallback, LinkToDeath,
     StatusSent, Load, Loads, CriticalProtocolError, NmeaThread, NmeaStep,
     RawTest, NotRaw, NoCallback, Call, Return, ReportTest,
     NothingToReport, FakeThread

(* A session begins, ends, or goes on without a report.                    *)
LEMMA BeginsOrEnds ==
  ASSUME IInv, IInv', [Next]_vars, UNCHANGED callee,
         session' \/ session \/ UNCHANGED <<nmea, handle, i, session, backend>>
  PROVE  [Reports!Next]_Reports!vars
<1>1. session \in BOOLEAN /\ session' \in BOOLEAN
  BY DEF IInv, TypeOK
<1>2. Limit' = Limit /\ Due' \in 0 .. Limit
  <2>1. Limit' \in Nat /\ Due' \in 0 .. Limit'
    BY RoutesAssumption
       DEF IInv, Places, WalkInv, Due, Limit, LateTTY, LateFake
  <2> QED
    BY <2>1, LimitStays
<1> USE DEF Reports!Next, Reports!vars, Due, Limit
<1>3. CASE session'
  BY <1>1, <1>2, <1>3 DEF Reports!Begin
<1>4. CASE session /\ ~session'
  BY <1>1, <1>2, <1>4 DEF Reports!End
<1>5. CASE UNCHANGED <<nmea, handle, i, session, backend>>
  BY <1>5 DEF LateTTY, LateFake
<1> QED
  BY <1>1, <1>3, <1>4, <1>5

(* Each step of the threads, the client and the process is one of the      *)
(* promise, or none that it sees.                                          *)
LEMMA StepIsReporting ==
  ASSUME IInv, IInv', [Next]_vars
  PROVE  [Reports!Next]_Reports!vars
<1> USE DEF vars, gnssVars, clientVars, ifaceVars, fakeVars, vectorVars,
        walkVars, historyVars
<1>1. /\ Limit \in Nat /\ Due \in 0 .. Limit /\ Limit' = Limit
      /\ session \in BOOLEAN /\ i \in 0 .. MaxSteps
      /\ backend = "tty" /\ mEnabled => session
      /\ Loaded => session
      /\ binder.op = "load" => session
  BY DueIsLimited, LimitStays DEF IInv, TypeOK, WalkInv, TestsAgree
<1>2. ASSUME NEW client \in Clients, StartTTY(client)
      PROVE  [Reports!Next]_Reports!vars
  BY <1>1, <1>2, BeginsOrEnds DEF StartTTY, StartCall
<1>3. ASSUME NEW client \in Clients, StartFake(client)
      PROVE  [Reports!Next]_Reports!vars
  BY <1>1, <1>3, BeginsOrEnds DEF StartFake, StartCall
<1>4. ASSUME NEW client \in Clients, StopTTY(client)
      PROVE  [Reports!Next]_Reports!vars
  BY <1>1, <1>4, BeginsOrEnds DEF StopTTY
<1>5. ASSUME NEW client \in Clients, StopFake(client)
      PROVE  [Reports!Next]_Reports!vars
  BY <1>1, <1>5, BeginsOrEnds DEF StopFake, ClearPoints
<1>6. CASE Loads
  BY <1>1, <1>6, BeginsOrEnds DEF Loads, CloseRoute
<1>7. CASE NmeaThread /\ (RawTest \/ ReportTest)
  BY <1>1, <1>7, BeginsOrEnds DEF RawTest, ReportTest, NmeaStep
<1>8. CASE FakeThread /\ TestSize
  BY <1>1, <1>8, BeginsOrEnds DEF FakeThread, TestSize, WalkStep
<1> USE DEF Reports!Next, Reports!vars, Reports!Report, Reports!Return,
        Reports!Waive, Reports!Break, Due, Limit, LateTTY, LateFake, IInv,
        Places, CallAgrees
<1>9. ASSUME NEW client \in Clients, SetCallback(client)
      PROVE  [Reports!Next]_Reports!vars
  BY <1>1, <1>9 DEF SetCallback
<1>10. ASSUME NEW client \in Clients, Die(client)
      PROVE  [Reports!Next]_Reports!vars
  BY <1>1, <1>10 DEF Die
<1>11. ASSUME NEW client \in Clients, ServiceDied(client)
      PROVE  [Reports!Next]_Reports!vars
  BY <1>1, <1>11 DEF ServiceDied
<1>12. CASE SetHwCallback
  BY <1>1, <1>12 DEF SetHwCallback, StoreCallback
<1>13. CASE LinkToDeath
  BY <1>1, <1>13 DEF LinkToDeath
<1>14. CASE StatusSent
  BY <1>1, <1>14 DEF StatusSent
<1>15. CASE Load
  BY <1>1, <1>15 DEF Load, LoadPoint, Grow, Store
<1>16. CASE CriticalProtocolError
  BY <1>1, <1>16 DEF CriticalProtocolError
<1>17. CASE UNCHANGED vars
  BY <1>1, <1>17
<1>18. CASE NmeaThread /\ ~RawTest /\ ~ReportTest
  <2>1. CASE NotRaw
    BY <1>1, <2>1 DEF NotRaw, NmeaStep
  <2>2. CASE NoCallback("rawCall", "parse")
    BY <1>1, <2>2 DEF NoCallback, NmeaStep
  <2>3. CASE Call("rawCall", "inRawCall")
    BY <1>1, <2>3 DEF Call, CallClient, HasCallback, NmeaStep
  <2>4. CASE Return("inRawCall", "parse")
    BY <1>1, <2>4 DEF Return, ClientReturns, NmeaStep
  <2>5. CASE NothingToReport
    BY <1>1, <2>5 DEF NothingToReport, NmeaStep
  <2>6. CASE NoCallback("reportCall", "idle")
    BY <1>1, <2>6 DEF NoCallback, NmeaStep
  <2>7. CASE Call("reportCall", "inReportCall")
    BY <1>1, <2>7 DEF Call, CallClient, HasCallback, NmeaStep
  <2>8. CASE Return("inReportCall", "idle")
    BY <1>1, <2>8 DEF Return, ClientReturns, NmeaStep
  <2> QED
    BY <1>18, <2>1, <2>2, <2>3, <2>4, <2>5, <2>6, <2>7, <2>8
    DEF NmeaThread
<1>19. CASE FakeThread /\ ~TestSize
  <2>1. CASE TakeFrom
    BY <1>1, <1>19, <2>1, RoutesAssumption
    DEF FakeThread, TakeFrom, WalkStep
  <2>2. CASE Advance
    BY <1>1, <1>19, <2>2, RoutesAssumption
    DEF FakeThread, Advance, WalkStep
  <2>3. CASE TakeTo
    BY <1>1, <1>19, <2>3, RoutesAssumption
    DEF FakeThread, TakeTo, WalkStep
  <2>4. CASE Segment
    BY <1>1, <1>19, <2>4, RoutesAssumption
    DEF FakeThread, Segment, WalkStep
  <2>5. CASE SkipLast
    BY <1>1, <1>19, <2>5, RoutesAssumption
    DEF FakeThread, SkipLast, WalkStep, EndSegment
  <2>6. CASE Report
    BY <1>1, <1>19, <2>6, RoutesAssumption
    DEF FakeThread, Report, WalkStep, CallClient, HasCallback
  <2>7. CASE Reported
    BY <1>1, <1>19, <2>7, RoutesAssumption
    DEF FakeThread, Reported, WalkStep, ClientReturns, EndSegment
  <2> QED
    BY <1>19, <2>1, <2>2, <2>3, <2>4, <2>5, <2>6, <2>7
    DEF FakeThread, HandleThread
<1> QED
  BY <1>2, <1>3, <1>4, <1>5, <1>6, <1>7, <1>8, <1>9, <1>10, <1>11, <1>12,
     <1>13, <1>14, <1>15, <1>16, <1>17, <1>18, <1>19
  DEF Next, NmeaThread, FakeThread

(* The client, both backends and the process keep to Reporting: whatever   *)
(* number of clients, points and starts, reports come one at a time,       *)
(* within a session or as the bounded rest of what was begun in it.        *)
THEOREM SessionIsReporting == Spec => ReportingSpec
<1>1. Init => Reports!Init
  BY RoutesAssumption, BackendsAssumption
     DEF Init, IfaceInit, Reports!Init, FakeInit, LateTTY, LateFake
<1>2. IInv /\ IInv' /\ [Next]_vars => [Reports!Next]_Reports!vars
  BY StepIsReporting
<1> QED
  BY <1>1, <1>2, Invariant, PTL DEF Spec, ReportingSpec, Reports!Spec
=============================================================================
