------------------------------ MODULE GnssHwIface ------------------------------
(***************************************************************************)
(* What the two backends of Gnss share (GnssHw.h): the client's callback,  *)
(* stored by the binder thread without a lock and called through by the    *)
(* backend's thread.                                                       *)
(***************************************************************************)
CONSTANTS Clients,   \* callbacks, one of each system server
          NoClient

ASSUME ClientAssumption == NoClient \notin Clients

VARIABLES mGnssCb,
          callee     \* the client the backend's thread is in a call to

ifaceVars == <<mGnssCb, callee>>

IfaceInit == mGnssCb = NoClient /\ callee = NoClient

(* setCallback of the backend.                                             *)
StoreCallback(client) == mGnssCb' = client /\ UNCHANGED callee

(* Both backends test the pointer, which never becomes null again, and     *)
(* read it once more for the call.                                         *)
HasCallback == mGnssCb # NoClient
CallClient == HasCallback /\ callee' = mGnssCb /\ UNCHANGED mGnssCb

(* A client that is dead returns an error, which is logged.                *)
ClientReturns ==
    /\ callee # NoClient /\ callee' = NoClient
    /\ UNCHANGED mGnssCb
=============================================================================
