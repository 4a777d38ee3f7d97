------------------------------ MODULE GnssHwFAKE ------------------------------
(***************************************************************************)
(* The backend that replays a route (GnssHwFAKE.cpp).  start() appends the *)
(* points of a file to mFakePoints, stop() clears it, and the handle       *)
(* thread, which never stops, walks it with an index it never resets and   *)
(* with references into it.  Nothing is locked.  A std::vector keeps its   *)
(* memory when it is cleared and moves to other memory when it outgrows    *)
(* its capacity, which leaves references to the old one dangling.          *)
(***************************************************************************)
EXTENDS GnssHwIface, Integers, Sequences

CONSTANTS Routes,   \* points in the file, one of these; 0: no file
          MaxSteps  \* bound: (int)t, the steps from one point to the next

ASSUME RoutesAssumption == Routes \subseteq Nat /\ MaxSteps \in Nat

VARIABLES route,      \* points in the file
          line,       \* of the file, which start() is at; 0: not in start()
          size, capacity,
          memory,     \* what the vector's memory holds, also past its size
          handle,     \* where the handle thread is
          pt_idx, pt_from, pt_to, i,
          disturbed,  \* history: since the thread's test of the size the
                      \* vector was changed, or it was made while start() ran
          moved,      \* history: ... it has moved
          appended    \* history: start() was called on a vector with points

vectorVars == <<size, capacity, memory>>
walkVars == <<handle, pt_idx, pt_from, pt_to, i>>
historyVars == <<disturbed, moved, appended>>
fakeVars == <<route, line, vectorVars, walkVars, historyVars>>

Dangling == -1  \* a reference to memory that is free, or none

FakeInit ==
    /\ route \in Routes /\ line = 0
    /\ size = 0 /\ capacity = 0 /\ memory = <<>>
    /\ handle = "loop" /\ pt_idx = 0 /\ i = 0
    /\ pt_from = Dangling /\ pt_to = Dangling
    /\ disturbed = FALSE /\ moved = FALSE /\ appended = FALSE

Walking == handle # "loop"
Loaded == size > 1

-----------------------------------------------------------------------------
(* The binder thread.                                                      *)

OpenRoute ==
    /\ route > 0
    /\ line' = 1
    /\ appended' = (appended \/ size > 0)
    /\ UNCHANGED <<route, vectorVars, walkVars, disturbed, moved>>

(* push_back at the end of the capacity: the points are moved.             *)
Grow ==
    /\ capacity' = IF capacity = 0 THEN 1 ELSE 2 * capacity
    /\ memory' = Append(memory, line)
    /\ pt_from' = Dangling /\ pt_to' = Dangling
    /\ moved' = Walking

Store ==
    /\ memory' = IF size = Len(memory) THEN Append(memory, line)
                 ELSE [memory EXCEPT ![size + 1] = line]
    /\ UNCHANGED <<capacity, pt_from, pt_to, moved>>

LoadPoint ==
    /\ line \in 1 .. route
    /\ line' = line + 1
    /\ size' = size + 1
    /\ IF size = capacity THEN Grow ELSE Store
    /\ disturbed' = Walking
    /\ UNCHANGED <<route, handle, pt_idx, i, appended>>

CloseRoute ==
    /\ line = route + 1
    /\ line' = 0
    /\ UNCHANGED <<route, vectorVars, walkVars, historyVars>>

(* A stop() that gives the memory back, as with a new vector.              *)
ClearAndFree ==
    /\ size' = 0 /\ capacity' = 0 /\ memory' = <<>>
    /\ pt_from' = Dangling /\ pt_to' = Dangling
    /\ disturbed' = Walking
    /\ UNCHANGED <<route, line, handle, pt_idx, i, moved, appended>>

(* A stop() that leaves the points to the next start().                    *)
KeepPoints == UNCHANGED fakeVars

ClearPoints ==
    /\ size' = 0
    /\ disturbed' = Walking
    /\ UNCHANGED <<route, line, capacity, memory, walkVars, moved, appended>>

-----------------------------------------------------------------------------
(* The handle thread.                                                      *)

WalkStep(from, to) ==
    /\ handle = from /\ handle' = to
    /\ UNCHANGED <<route, line, vectorVars, appended>>

(* Without a callback or with fewer than two points it sleeps.             *)
TestSize ==
    /\ HasCallback /\ Loaded
    /\ WalkStep("loop", "from")
    /\ disturbed' = (line # 0)
    /\ UNCHANGED <<ifaceVars, pt_idx, pt_from, pt_to, i, moved>>

TakeFrom ==
    /\ WalkStep("from", "advance")
    /\ pt_from' = pt_idx
    /\ UNCHANGED <<ifaceVars, pt_idx, pt_to, i, disturbed, moved>>

(* The end of the route is missed by one.                                  *)
AdvanceLate ==
    /\ WalkStep("advance", "to")
    /\ pt_idx' = IF pt_idx + 1 > size THEN 0 ELSE pt_idx + 1
    /\ UNCHANGED <<ifaceVars, pt_from, pt_to, i, disturbed, moved>>

Advance ==
    /\ WalkStep("advance", "to")
    /\ pt_idx' = IF pt_idx + 1 >= size THEN 0 ELSE pt_idx + 1
    /\ UNCHANGED <<ifaceVars, pt_from, pt_to, i, disturbed, moved>>

TakeTo ==
    /\ WalkStep("to", "segment")
    /\ pt_to' = pt_idx
    /\ UNCHANGED <<ifaceVars, pt_idx, pt_from, i, disturbed, moved>>

(* The steps follow from the distance and the speed of the two points; two *)
(* points close to each other have none.                                   *)
Segment ==
    /\ WalkStep("segment", "report")
    /\ i' \in 0 .. MaxSteps
    /\ UNCHANGED <<ifaceVars, pt_idx, pt_from, pt_to, disturbed, moved>>

EndSegment ==
    /\ pt_from' = Dangling /\ pt_to' = Dangling
    /\ disturbed' = FALSE /\ moved' = FALSE

(* The last step is left out when little is left to go.                    *)
SkipLast ==
    /\ i = 0
    /\ WalkStep("report", "loop")
    /\ EndSegment
    /\ UNCHANGED <<ifaceVars, pt_idx, i>>

Report ==
    /\ WalkStep("report", "inCall")
    /\ CallClient
    /\ UNCHANGED <<pt_idx, pt_from, pt_to, i, disturbed, moved>>

Reported ==
    /\ ClientReturns
    /\ IF i = 0 THEN WalkStep("inCall", "loop") /\ EndSegment /\ UNCHANGED i
       ELSE /\ WalkStep("inCall", "report") /\ i' = i - 1
            /\ UNCHANGED <<pt_from, pt_to, disturbed, moved>>
    /\ UNCHANGED pt_idx

HandleThread ==
    \/ TestSize \/ TakeFrom \/ Advance \/ TakeTo
    \/ Segment \/ SkipLast \/ Report \/ Reported

-----------------------------------------------------------------------------
UsesPoints == handle = "segment" \/ (handle = "report" /\ i = 0)

(* Whatever start() and stop() do while the thread is between two points,  *)
(* its references stay within memory that holds points of the route: the   *)
(* cleared vector keeps its memory, a stale index fits the one it was made *)
(* for, and only a start() that moves the points can pull them away.       *)
PointsStayInMemory ==
    UsesPoints /\ ~moved => {pt_from + 1, pt_to + 1} \subseteq DOMAIN memory

(* From each point the thread goes to the next one of the file, and from   *)
(* the last to the first, also over a stop() and a start() between two     *)
(* segments, for a client that does not start twice.                       *)
WalksTheRoute ==
    handle = "segment" /\ ~disturbed /\ ~appended =>
        /\ {pt_from + 1, pt_to + 1} \subseteq DOMAIN memory
        /\ memory[pt_to + 1] = (memory[pt_from + 1] % route) + 1
=============================================================================
