--------------------------- MODULE EpochRegistry ---------------------------
(***************************************************************************)
(* What the epoch commands promise, with no processes, files or locks: one *)
(* atomic step per operation on the status of each epoch id.               *)
(* EpochLifecycle implements it (see Registry there).                      *)
(***************************************************************************)
EXTENDS Integers

CONSTANTS Epochs, MaxContinue

VARIABLES
  brake,    \* the emergency brake
  status,   \* each epoch id: "absent", "active", "completed" or "failed"
  streak    \* CONTINUE decisions since the last decision of another kind

rvars == <<brake, status, streak>>

Init ==
  /\ brake = "DRIVE"
  /\ status = [e \in Epochs |-> "absent"]
  /\ streak = 0

SetBrake(b) == brake' = b /\ UNCHANGED <<status, streak>>

\* Work begins only under DRIVE and only when no other epoch is active.
Start(e) ==
  /\ brake = "DRIVE"
  /\ \A f \in Epochs : status[f] # "active"
  /\ status[e] = "absent"
  /\ status' = [status EXCEPT ![e] = "active"]
  /\ UNCHANGED <<brake, streak>>

\* The loop goes on by itself only under DRIVE and within its budget.
Continue(e) ==
  /\ brake = "DRIVE"
  /\ status[e] = "active" /\ streak < MaxContinue
  /\ status' = [status EXCEPT ![e] = "completed"]
  /\ streak' = streak + 1
  /\ UNCHANGED brake

End(e) ==
  /\ status[e] = "active"
  /\ status' = [status EXCEPT ![e] = "completed"]
  /\ streak' = 0
  /\ UNCHANGED brake

Fail(e) ==
  /\ status[e] = "active"
  /\ status' = [status EXCEPT ![e] = "failed"]
  /\ UNCHANGED <<brake, streak>>

Next ==
  \/ \E b \in {"DRIVE", "NEUTRAL", "PARK"} : SetBrake(b)
  \/ \E e \in Epochs : Start(e) \/ Continue(e) \/ End(e) \/ Fail(e)

Spec == Init /\ [][Next]_rvars
=============================================================================
