--------------------------- MODULE HandoffRegistry ---------------------------
(***************************************************************************)
(* What the handoff commands promise, as atomic steps on one status per    *)
(* handoff id.  HandoffLifecycle implements it as long as no id is created *)
(* twice (see Registry there).                                             *)
(***************************************************************************)
CONSTANTS Ids, Contents, Gated, Barred

VARIABLES
  brake,    \* the emergency brake
  status,   \* each id: "absent", "ready", "claimed", "completed" or "failed"
  content,  \* what was handed off under it
  approved  \* the content an operator approved for pickup, if any

hvars == <<brake, status, content, approved>>
None == "none"

Init ==
  /\ brake = "DRIVE"
  /\ status = [h \in Ids |-> "absent"]
  /\ content = [h \in Ids |-> None] /\ approved = [h \in Ids |-> None]

SetBrake(b) == brake' = b /\ UNCHANGED <<status, content, approved>>

\* An id is published once, and its content never changes after that.
Publish(h, c) ==
  /\ status[h] = "absent"
  /\ status' = [status EXCEPT ![h] = "ready"]
  /\ content' = [content EXCEPT ![h] = c]
  /\ UNCHANGED <<brake, approved>>

Approve(h) ==
  /\ status[h] # "absent"
  /\ approved' = [approved EXCEPT ![h] = content[h]]
  /\ UNCHANGED <<brake, status, content>>

Move(h, to) == status' = [status EXCEPT ![h] = to] /\ UNCHANGED <<brake, content, approved>>

\* Work is picked up once, under DRIVE, and only with the approval it needs.
Claim(h) ==
  /\ brake = "DRIVE"
  /\ status[h] = "ready"
  /\ content[h] \notin Barred
  /\ content[h] \in Gated => approved[h] = content[h]
  /\ Move(h, "claimed")

Complete(h) == status[h] = "claimed" /\ Move(h, "completed")
Fail(h)     == status[h] \in {"ready", "claimed"} /\ Move(h, "failed")

Next ==
  \/ \E b \in {"DRIVE", "NEUTRAL", "PARK"} : SetBrake(b)
  \/ \E h \in Ids : Approve(h) \/ Claim(h) \/ Complete(h) \/ Fail(h)
                    \/ \E c \in Contents : Publish(h, c)

Spec == Init /\ [][Next]_hvars
=============================================================================
