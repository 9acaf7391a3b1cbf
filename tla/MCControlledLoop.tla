--------------------------- MODULE MCControlledLoop ---------------------------
(***************************************************************************)
(* The controlled loop in three parts, each from where the one before it   *)
(* ends: a run from nothing to its outcome plan; the runner from a         *)
(* finished run to its first stage; the stages of a runner that has just   *)
(* been started, to its completion.                                        *)
(***************************************************************************)
EXTENDS ControlledRun, StageRetry

CONSTANT Parts    \* the parts to check
ASSUME PartsAssumption == Parts \subseteq {"run", "runner", "stages"}

VARIABLE part

all == <<shelf, extra, active, ends, clean, lapsed, audit, torn, busy, printed, starter,
         reserved, retried, there, part>>
runOnly == <<active, ends, clean, part>>
stagesOnly == <<busy, printed, starter, kept>>

Shelf(packets) ==
  [k \in Kinds \union RunnerKinds \union StageKinds \union RetryKinds |->
     IF k \in DOMAIN packets THEN packets[k] ELSE <<>>]

\* What a runner has printed and an operator signed once it is started.
First(next, has) ==
  [ok |-> TRUE, next |-> next, has |-> has, epoch |-> 0, status |-> "completed",
   line |-> {<<k, 1>> : k \in {"rplan", "xapproval", "dryrun", "ready", "sapproval"}}]
Started1 == [
  rplan |-> << First("review_controlled_runner_plan", <<>>) >>,
  xapproval |-> << First("review_controlled_runner_execution_approval", [rplan |-> 1, sign |-> 1]) >>,
  dryrun |-> << First("review_controlled_runner_dry_run", [rplan |-> 1, xapproval |-> 1]) >>,
  ready |-> << First("review_controlled_runner_start_readiness",
                     [dryrun |-> 1, rplan |-> 1, xapproval |-> 1]) >>,
  sapproval |-> << First("review_controlled_runner_start_approval", [ready |-> 1, sign |-> 2]) >>,
  started |-> << First("review_controlled_runner_start",
                       [sapproval |-> 1, ready |-> 1, dryrun |-> 1, rplan |-> 1, xapproval |-> 1]) >>,
  sign |-> << First("", [rplan |-> 1]), First("", [ready |-> 1]) >>]

Init ==
  /\ part \in Parts /\ extra = 0
  /\ shelf = Shelf(IF part = "stages" THEN Started1 ELSE <<>>)
  /\ active = 0 /\ clean = TRUE /\ ends = IF part = "run" THEN <<>> ELSE <<"completed">>
  /\ lapsed = {} /\ torn = FALSE /\ audit = IF part = "stages" THEN {<<"started", 1>>} ELSE {}
  /\ RetryInit

\* Beside the stages, the runner may be started anew and its first stage
\* selected again; and the operator signs.
Again ==
  \/ \E a \in Versions("sapproval"), r \in Versions("ready"), d \in Versions("dryrun"),
        p \in Versions("rplan"), x \in Versions("xapproval") : RunnerStart(a, r, d, p, x)
  \/ \E s \in Versions("started"), p \in Versions("rplan"), d \in Versions("dryrun") : NextStage(s, p, d)
Signs ==
  \/ \E kind \in {"xready", "retryplan"} : \E n \in Versions(kind) : Sign(kind, n)
  \/ \E e \in Versions("exec") : At("exec", e).epoch = 1 /\ At("exec", e).status = "completed" /\ Sign("exec", e)

Next ==
  \/ part = "run" /\ RunNext /\ UNCHANGED <<lapsed, audit, torn, stagesOnly, part>>
  \/ part = "runner" /\ RunnerNext /\ UNCHANGED <<runOnly, stagesOnly>>
  \/ part = "stages" /\ RetryNext /\ UNCHANGED runOnly
  \/ part = "stages" /\ (Again \/ Signs \/ Lapse \/ TearLog) /\ UNCHANGED <<runOnly, stagesOnly>>

Spec == Init /\ [][Next]_all

\* Type correctness of the three parts.
TypeOK == ControlledTypeOK /\ RunnerTypeOK /\ StagesTypeOK

\* The runner starts, and runs or retries a stage, only while the operator's signatures on it
\* hold, however long ago they were verified (controlled_loop_runner_start_approval_blockers,
\* controlled_loop_runner_stage_execution_command).
ActedWhileApproved == StartedWhileApproved /\ RunWhileApproved
=============================================================================
