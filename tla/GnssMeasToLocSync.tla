-------------------------- MODULE GnssMeasToLocSync --------------------------
(***************************************************************************)
(* The gate that holds locations back until a measurement session has      *)
(* reported enough (GnssMeasToLocSync.cpp).  mEventsToWait is one atomic   *)
(* int8_t.  UpdateStatus loads it, computes, and stores it, so it is two   *)
(* actions here: anything may be stored between them.                      *)
(***************************************************************************)
EXTENDS Integers

VARIABLE mEventsToWait

NonNegative(n) == IF n > 0 THEN n ELSE 0

SyncTypeOK == mEventsToWait \in Nat

SyncInit == mEventsToWait = 0

(* TRUE when a location may be sent.                                       *)
WaitToSend == ~(mEventsToWait > 0)

SetEventsToWait(numEvents) == mEventsToWait' = NonNegative(numEvents)

(* The value UpdateStatus computes from the one it loaded.                 *)
UpdateStatusLoad(numEvents) == mEventsToWait + numEvents

(* The store without its clamp.                                            *)
UpdateStatusUnclamped(tmp) == mEventsToWait' = tmp

(* UpdateStatus stores it.                                                 *)
UpdateStatusStore(tmp) == mEventsToWait' = NonNegative(tmp)
=============================================================================
