----------------------------- MODULE WorkerLife -----------------------------
(***************************************************************************)
(* The life cycle that javafx.concurrent.Worker promises of its state      *)
(* property (the constants of Worker.State): READY, SCHEDULED, RUNNING and *)
(* one of the three ending states; a worker may be cancelled until it has  *)
(* concluded, and only a reusable worker leaves an ending state, for READY.*)
(* FxTask and FxService are shown to implement it.                         *)
(***************************************************************************)
CONSTANTS
  Reusable,    \* TRUE for a Service, FALSE for a Task
  LateCancel   \* a cancel() accepted before the work was recorded as complete
               \* may show after SUCCEEDED or FAILED

VARIABLE state

Ending == {"SUCCEEDED", "FAILED", "CANCELLED"}
States == {"READY", "SCHEDULED", "RUNNING"} \cup Ending

Init == state = "READY"

Schedule == state = "READY" /\ state' = "SCHEDULED"

Run == state = "SCHEDULED" /\ state' = "RUNNING"

Conclude == state = "RUNNING" /\ state' \in {"SUCCEEDED", "FAILED"}

Cancel ==
  /\ state # "CANCELLED" /\ (LateCancel \/ state \notin Ending)
  /\ state' = "CANCELLED"

Reinitialise == Reusable /\ state \in Ending /\ state' = "READY"

Next == Schedule \/ Run \/ Conclude \/ Cancel \/ Reinitialise

Spec == Init /\ [][Next]_state
=============================================================================
