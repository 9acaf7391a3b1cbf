-------------------------- MODULE ExecutorReadiness --------------------------
(***************************************************************************)
(* What must be true before a real executor may be started: the checks of  *)
(* executor-invocation-readiness (executor_readiness.py) and the checks of *)
(* executor-invocation-plan (executor_invocation.py), which the invocation *)
(* itself repeats just before it starts the process.                       *)
(*                                                                         *)
(* Both look at the same world w, a record of                              *)
(*   brake    its status, or "unreadable"                                  *)
(*   old      which of the packets "readiness", "plan" are past their age  *)
(*   clean    does the audit log replay?  and log, its records             *)
(*   task     the task packet file: id, branch, head, version and policies *)
(*   repo     the checkout: branch, head, dirty, and can git read it?      *)
(*   epochs   the active epoch files: id, branch, tasks -> packet version  *)
(*   owner    the ownership record the caller names                        *)
(*   role     the optional role-readiness packet                           *)
(*   bridge   the optional packet of the runner's own readiness command    *)
(*   adapter, rollback, command: is what the caller gives acceptable?      *)
(* A blocker is its code; a packet is valid when it has none.  A version   *)
(* stands for a checksum: equal exactly for equal contents.                *)
(***************************************************************************)
EXTENDS Naturals, Sequences, FiniteSets

When(condition, code) == IF condition THEN {code} ELSE {}

\* The first row of the table one of whose codes occurs, or what is left.
Recommend(codes, done, table, other) ==
  LET hits == {n \in DOMAIN table : table[n][1] \intersect codes # {}}
  IN  IF codes = {} THEN done
      ELSE IF hits = {} THEN other
      ELSE table[CHOOSE n \in hits : \A m \in hits : n <= m][2]

------------------------------------------------------------------------------
(* executor-invocation-readiness                                            *)

\* The packet's own validation names the first part that is wrong.
TaskValidation(task) == When(task.wrong # "none", task.wrong)

BranchPolicyBlockers(task, branch) ==
  When(~task.allowMain /\ branch = "main", "branch_policy_current_branch_main_disallowed")

RequiredCheckBlockers(task) ==
  When(task.checks = "none", "required_checks_missing")
  \union When(task.checks = "refused" /\ task.wrong = "none", "required_checks_invalid")

BrakeBlockers(w) ==
  When(w.brake \notin {"DRIVE", "NEUTRAL", "PARK"}, "brake_state_invalid")
  \union When(w.brake \in {"NEUTRAL", "PARK"}, "brake_not_drive")

\* Where the checkout is not what the task was written for.
RepoBlockers(w) ==
  IF ~w.repo.seen THEN {"repo_inspection_failed"}
  ELSE When(w.repo.path # w.task.path, "repo_path_mismatch")
       \union When(w.repo.branch # w.task.branch, "repo_branch_mismatch")
       \union When(w.repo.head # w.task.head, "repo_head_mismatch")
       \union When(w.repo.dirty, "dirty_worktree")

\* The one active epoch must be the one asked for and hold this very packet.
EpochBlockers(w, epoch) ==
  IF w.epochs = {} THEN {"active_epoch_missing"}
  ELSE IF Cardinality(w.epochs) > 1 THEN {"active_epoch_conflict"}
  ELSE LET e == CHOOSE e \in w.epochs : TRUE IN
       When(e.id # epoch, "active_epoch_id_mismatch")
       \union When(e.branch # w.task.branch, "active_epoch_branch_mismatch")
       \union When(w.task.id \notin DOMAIN e.tasks, "active_epoch_task_missing")
       \union When(w.task.id \in DOMAIN e.tasks /\ e.tasks[w.task.id] # w.task.ver,
                   "task_checksum_mismatch")

\* The result path given is the packet's, below executor-results, and no
\* directory.  That it may already hold a file is no blocker here.
ResultPathBlockers(w, path) ==
  IF path = "none" THEN {"result_path_missing"}
  ELSE When(path # w.task.resultPath, "result_path_mismatch")
       \union When("outside" \in {path, w.task.resultPath}, "result_path_outside_runtime")

\* validate_work_ownership and the three fields only a start looks at.
OwnershipBlockers(w, epoch) ==
  IF w.owner.state = "none" THEN {"ownership_record_missing"}
  ELSE When(w.owner.state = "closed", "ownership_closed")
       \union When(w.owner.branch # w.task.branch, "ownership_branch_mismatch")
       \union When(w.owner.task # w.task.id, "ownership_task_mismatch")
       \union When(w.owner.stale, "ownership_stale")
       \union When(w.owner.epoch # epoch, "ownership_epoch_mismatch")
       \union When(w.owner.head # w.task.head, "ownership_head_mismatch")

RoleBlockers(w) ==
  IF w.role = "none" THEN {}
  ELSE When(w.role = "not_current", "role_readiness_invalid")
       \union When(w.role = "other_scope", "role_readiness_scope_mismatch")
       \union When(w.role = "not_ready", "role_readiness_blocked")

BridgeCode == "controlled_runner_executor_invocation_readiness"
NoBridge == [given |-> FALSE, wanted |-> "none", ver |-> "none", ready |-> FALSE,
             quiet |-> FALSE, task |-> 0, epoch |-> "none", path |-> "none"]

\* The packet itself: the version the operator reviewed, current, ready, and
\* with every flag that would say that something was started false.
BridgePacketBlockers(b) ==
  When(b.wanted # b.ver, BridgeCode) \union When(~b.ready, BridgeCode)
  \union When(~b.quiet, BridgeCode)

\* What it allows: this task, this epoch, this result path.
BridgeTargetBlockers(b, w, epoch, path) ==
  When(b.task # w.task.ver, BridgeCode) \union When(b.epoch # epoch, BridgeCode)
  \union When(b.path # path, BridgeCode)

BridgeBlockers(w, epoch, path) ==
  LET b == w.bridge IN
  IF ~b.given THEN When(b.wanted # "none", BridgeCode)
  ELSE BridgePacketBlockers(b) \union BridgeTargetBlockers(b, w, epoch, path)

ReadinessTable == <<
  << {BridgeCode}, "refresh_executor_invocation_readiness" >>,
  << {"executor_task_invalid", "repo_path_mismatch", "repo_branch_mismatch",
      "repo_head_mismatch", "task_checksum_mismatch"}, "refresh_task_evidence" >>,
  << {"ownership_record_missing", "ownership_closed", "ownership_branch_mismatch",
      "ownership_task_mismatch", "ownership_stale", "ownership_epoch_mismatch",
      "ownership_head_mismatch"}, "fix_ownership" >>,
  << {"active_epoch_missing", "active_epoch_conflict", "active_epoch_id_mismatch",
      "active_epoch_branch_mismatch", "active_epoch_task_missing"},
     "close_or_fail_active_epoch" >>,
  << {"branch_policy_current_branch_main_disallowed", "branch_policy_invalid",
      "command_policy_invalid", "required_checks_invalid", "required_checks_missing",
      "result_path_missing", "result_path_mismatch", "result_path_outside_runtime"},
     "inspect_policy_blockers" >> >>

\* An ownership record is asked for only if no runner packet is named.
ReadinessBlockers(w, epoch, path) ==
  TaskValidation(w.task) \union RequiredCheckBlockers(w.task)
  \union ResultPathBlockers(w, path) \union BrakeBlockers(w) \union RepoBlockers(w)
  \union BranchPolicyBlockers(w.task, w.repo.branch) \union EpochBlockers(w, epoch)
  \union BridgeBlockers(w, epoch, path)
  \union (IF w.bridge.given THEN {} ELSE OwnershipBlockers(w, epoch))
  \union RoleBlockers(w)

\* What the packet keeps for the commands after it; at is when it was made.
Readiness(w, epoch, path, at) ==
  LET codes == ReadinessBlockers(w, epoch, path) IN
  [ok |-> codes = {}, at |-> at, task |-> w.task.ver, branch |-> w.repo.branch,
   head |-> w.repo.head, epoch |-> epoch, owner |-> w.owner.id, bridged |-> w.bridge.given,
   next |-> Recommend(codes, "invoke_real_executor", ReadinessTable, "operator_review")]

------------------------------------------------------------------------------
(* executor-invocation-plan                                                 *)

ReadinessFit(w, r) ==
  When(~r.ok, "readiness_not_invocable")
  \union When("readiness" \in w.old, "readiness_packet_stale")

\* The packet file the readiness names is read again.
TaskUnchanged(w, r) ==
  IF w.task.wrong = "unreadable" THEN {"task_file_unreadable"}
  ELSE When(w.task.wrong # "none", "executor_task_invalid")
       \union When(w.task.ver # r.task, "task_checksum_mismatch")

RepoUnchanged(w, r) ==
  IF ~w.repo.seen THEN {"repo_inspection_failed"}
  ELSE When(w.repo.branch # r.branch \/ w.repo.head # r.head, "repo_state_mismatch")
       \union When(w.repo.dirty, "dirty_worktree")

DriveStill(w) == When(w.brake # "DRIVE", "brake_not_drive")

EpochUnchanged(w, r) ==
  IF Cardinality(w.epochs) # 1 THEN {"active_epoch_mismatch"}
  ELSE LET e == CHOOSE e \in w.epochs : TRUE IN
       When(e.id # r.epoch \/ e.branch # w.task.branch, "active_epoch_mismatch")
       \union When(w.task.id \notin DOMAIN e.tasks, "active_epoch_mismatch")
       \union When(w.task.id \in DOMAIN e.tasks /\ e.tasks[w.task.id] # w.task.ver,
                   "task_checksum_mismatch")

\* A valid bridge stands in for the ownership record.
BridgeStill(w, r, path) ==
  IF ~r.bridged THEN {} ELSE BridgePacketBlockers(w.bridge)
                             \union BridgeTargetBlockers(w.bridge, w, r.epoch, path)

OwnerStill(w, r, path) ==
  IF r.bridged /\ BridgeStill(w, r, path) = {} THEN {}
  ELSE When(OwnershipBlockers(w, r.epoch) # {} \/ w.owner.id # r.owner,
            "ownership_record_mismatch")

AdapterBlockers(w) == When(~w.adapter, "adapter_contract_invalid")

\* The rollback plan is for this task, branch and head, and was reviewed.
RollbackBlockers(w) == When(~w.rollback, "rollback_policy_invalid")

CommandBlockers(w) == When(~w.command, "executor_command_denied")

\* What an operator signs: the readiness packet, the adapter, the rollback
\* plan, the command and its limits, and the head of the audit chain.
Target(w, r) == [ready |-> r, chain |-> Len(w.log),
                 setup |-> <<w.adapter, w.rollback, w.command>>]

PlanBlockers(w, r, approved, path) ==
  When(~w.clean, "audit_chain_not_clean") \union ReadinessFit(w, r)
  \union TaskUnchanged(w, r) \union RepoUnchanged(w, r) \union DriveStill(w)
  \union BridgeStill(w, r, path) \union EpochUnchanged(w, r) \union OwnerStill(w, r, path)
  \union ResultPathBlockers(w, path) \union CommandBlockers(w) \union AdapterBlockers(w)
  \union RollbackBlockers(w)
  \union When(Target(w, r) \notin approved, "approval_target_mismatch")

InvocationPlan(w, r, approved, path, at) ==
  LET codes == PlanBlockers(w, r, approved, path) IN
  [ok |-> codes = {}, at |-> at, target |-> Target(w, r),
   next |-> IF codes = {} THEN "invoke_real_executor" ELSE "operator_review"]
==============================================================================
