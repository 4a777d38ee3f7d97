------------------------------- MODULE Reporting -------------------------------
(***************************************************************************)
(* What a client of the HAL may rely on, whatever the backend: reports     *)
(* come one at a time, and only within a session or, after its end, for a  *)
(* bounded number of times of what was already begun.                      *)
(***************************************************************************)
EXTENDS Integers

VARIABLES session,  \* start() was called and succeeded, and stop() was not
          calling,  \* a report is being made
          due,      \* reports that may still begin after the session
          limit     \* how many that are at the most

vars == <<session, calling, due, limit>>

Init == session = FALSE /\ calling = FALSE /\ due = 0 /\ limit \in Nat

Begin ==
    /\ session' = TRUE /\ due' = 0
    /\ UNCHANGED <<calling, limit>>

End ==
    /\ session /\ session' = FALSE
    /\ due' \in 0 .. limit
    /\ UNCHANGED <<calling, limit>>

Report ==
    /\ ~calling /\ calling' = TRUE
    /\ session \/ due > 0
    /\ due' = IF session THEN 0 ELSE due - 1
    /\ UNCHANGED <<session, limit>>

Return ==
    /\ calling /\ calling' = FALSE
    /\ UNCHANGED <<session, due, limit>>

(* What was begun may turn out to have nothing to report.                  *)
Waive ==
    /\ due' \in 0 .. due - 1
    /\ UNCHANGED <<session, calling, limit>>

(* The service ends, and init starts it again.                             *)
Break ==
    /\ session' = FALSE /\ calling' = FALSE /\ due' = 0
    /\ UNCHANGED limit

Next == Begin \/ End \/ Report \/ Return \/ Waive \/ Break

Spec == Init /\ [][Next]_vars
=============================================================================
