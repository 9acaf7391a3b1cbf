--------------------------- MODULE ControlledRun ----------------------------
(***************************************************************************)
(* The evidence chain of one controlled run (cli.py): loop-run-plan, then  *)
(* controlled-loop-start, -invocation-plan, -real-invocation, -closeout,   *)
(* -tick, -run-summary and -outcome-plan.                                  *)
(*                                                                         *)
(* The files an epoch is really run by (its start, the readiness, the      *)
(* plan, the invocation, its result, the closeout) are made by the         *)
(* commands of ExecutorInvocation and EpochLifecycle.  A task id says no   *)
(* more than the task's checksum and is left out.  "stopped" is the status *)
(* failed of a closeout whose executor stopped or ran out of time.         *)
(***************************************************************************)
EXTENDS Evidence

CONSTANT Statuses    \* what a closeout may make of an epoch

ASSUME ControlledAssumption ==
  Statuses \subseteq {"completed", "failed", "stopped", "task_completed"}

VARIABLES
  active,  \* the active epoch, 0 if there is none
  ends,    \* epoch -> how it ended
  clean    \* does the audit log replay?

cvars == <<shelf, active, ends, clean, extra>>

Kinds == {"run_plan", "start", "readiness", "plan", "result", "real", "snapshot", "gitplan",
          "closeout", "cstart", "cplan", "creal", "cclose", "tick", "summary", "outcome"}

Answer(kind, codes, accepted, table, other) ==
  Reply(kind, codes, accepted, table, other) /\ UNCHANGED <<active, ends, clean>>

RunInit ==
  /\ shelf = [k \in Kinds |-> <<>>] /\ active = 0 /\ ends = <<>> /\ clean = TRUE /\ extra = 0

------------------------------------------------------------------------------
(* loop-run-plan                                                            *)

\* What one tick of the loop recommends.
LoopTickNext(drive, confidence, elected) ==
  IF ~drive THEN "blocked"
  ELSE IF confidence = "low" THEN "approval_required"
  ELSE IF ~elected THEN "no_candidates" ELSE "requires_executor_contract"

\* With --emit-executor-task a task packet is made, unless the policy denies it.
LoopTick(drive, confidence, elected, emit, denied) ==
  LET next == LoopTickNext(drive, confidence, elected) IN
  IF ~emit \/ next # "requires_executor_contract" THEN next
  ELSE IF denied THEN "policy_denied" ELSE "approve_executor_task"

RunPlanNext(tick) ==
  CASE tick = "no_candidates" -> "stop_no_candidates"
    [] tick = "approve_executor_task" -> "request_operator_approval"
    [] tick = "requires_executor_contract" -> "emit_executor_task"
    [] tick = "approval_required" -> "request_operator_review"
    [] tick = "blocked" -> "stop_blocked"
    [] tick = "policy_denied" -> "inspect_policy_denial"

\* A run plan holds the tick and the task made with it: its version is theirs.
RunPlan ==
  /\ \E drive, elected, emit, denied \in BOOLEAN, confidence \in {"low", "high"} :
       LET next == RunPlanNext(LoopTick(drive, confidence, elected, emit, denied)) IN
       /\ next # "request_operator_approval" => extra < MaxExtra
       /\ Issue("run_plan", [Accepted(next, <<>>, 0, "planned") EXCEPT
                             !.ok = next = "request_operator_approval"])
  /\ UNCHANGED <<active, ends, clean>>

------------------------------------------------------------------------------
(* What really happens: an epoch is started for a task, an executor runs,   *)
(* the epoch is closed                                                      *)

Begin_Unlisted(n) == active' = n /\ UNCHANGED ends
Begin(n) == active' = n /\ ends' = Append(ends, "active")
StartRun(task) ==
  /\ active = 0 /\ clean /\ At("run_plan", task).ok
  /\ LET n == Len(shelf["start"]) + 1 IN
       /\ Issue("start", Accepted("", [run_plan |-> task], n, "started"))
       /\ Begin(n) /\ UNCHANGED clean

\* Readiness and plan are valid only while the epoch with the task is active.
GetReady(start) ==
  /\ active = start
  /\ Issue("readiness", Accepted("", [run_plan |-> At("start", start).has["run_plan"],
                                      start |-> start], start, "ready"))
  /\ UNCHANGED <<active, ends, clean>>
Plan(r) ==
  /\ clean /\ active = At("readiness", r).epoch
  /\ Issue("plan", Accepted("", [readiness |-> r], At("readiness", r).epoch, "planned"))
  /\ UNCHANGED <<active, ends, clean>>

\* The executor leaves a result, and its invocation a pending record.  now is
\* what the result file holds, bound the closeout that rewrote the record.
Run(n) ==
  LET v == Len(shelf["result"]) + 1
      from == [plan |-> n, result |-> v]
      record == [ok |-> TRUE, next |-> "bind_real_executor_closeout", has |-> from,
                 epoch |-> At("plan", n).epoch, status |-> "pending", now |-> v, bound |-> 0,
                 line |-> Lineage([plan |-> n]) \union {<<"result", v>>}]
  IN
  /\ clean /\ active = At("plan", n).epoch
  /\ shelf' = [shelf EXCEPT !["real"] = Append(@, record),
                            !["result"] = Append(@, Accepted("", <<>>, 0, "succeeded"))]
  /\ Counts("real")
  /\ UNCHANGED <<active, ends, clean>>

\* Somebody rewrites the result of an invocation.
Rewrite(i) ==
  /\ extra < MaxExtra /\ extra' = extra + 1
  /\ shelf' = [shelf EXCEPT !["result"] = Append(@, Accepted("", <<>>, 0, "succeeded")),
                            !["real"][i].now = Len(shelf["result"]) + 1]
  /\ UNCHANGED <<active, ends, clean>>

\* The repository is looked at; a Git plan is made outside a closeout.
Snapshot == Issue("snapshot", Accepted("", <<>>, 0, "seen")) /\ UNCHANGED <<active, ends, clean>>
GitPlan ==
  /\ shelf["gitplan"] # <<>> /\ Issue("gitplan", Accepted("", <<>>, 0, "ready"))
  /\ UNCHANGED <<active, ends, clean>>

NextDecision_FailedToo(status) ==
  CASE status = "task_completed" -> "continue" [] status = "stopped" -> "stop"
    [] OTHER -> "generate_git_pr_plan"
NextDecision(status) ==
  CASE status = "completed" -> "generate_git_pr_plan" [] status = "task_completed" -> "continue"
    [] status = "stopped" -> "stop" [] status = "failed" -> "handoff"

\* The closeout binds one pending record whose result is what it was, and ends
\* the epoch unless tasks remain.  It may make the Git plan that it then holds.
Close(i, w, status, emit) ==
  LET record == At("real", i)
      git == IF emit /\ status = "completed" THEN {Len(shelf["gitplan"]) + 1} ELSE {}
      seen == [k \in {"real", "snapshot"} \union (IF git = {} THEN {} ELSE {"gitplan"}) |->
                 CASE k = "real" -> i [] k = "snapshot" -> w [] k = "gitplan" -> CHOOSE g \in git : TRUE]
      made == [Accepted(NextDecision(status), [real |-> i, snapshot |-> w], record.epoch, status)
                 EXCEPT !.has = seen, !.line = @ \union {<<"gitplan", g>> : g \in git}]
  IN
  /\ clean /\ active = record.epoch /\ record.status = "pending"
  /\ record.now = record.has["result"]
  /\ shelf' = [shelf EXCEPT
       !["closeout"] = Append(@, made), !["real"][i].status = status,
       !["real"][i].bound = Len(shelf["closeout"]) + 1,
       !["gitplan"] = IF git = {} THEN @ ELSE Append(@, Accepted("", <<>>, 0, "ready"))]
  /\ Counts("closeout")
  /\ active' = IF status = "task_completed" THEN active ELSE 0
  /\ ends' = IF status = "task_completed" THEN ends
             ELSE [ends EXCEPT ![record.epoch] = IF status = "completed" THEN status ELSE "failed"]
  /\ UNCHANGED clean

\* Somebody fails the epoch, or tears the audit log.
FailEpoch ==
  /\ active # 0 /\ active' = 0 /\ ends' = [ends EXCEPT ![active] = "failed"]
  /\ extra < MaxExtra /\ extra' = extra + 1 /\ UNCHANGED <<shelf, clean>>
Tear ==
  /\ clean /\ clean' = FALSE
  /\ extra < MaxExtra /\ extra' = extra + 1 /\ UNCHANGED <<shelf, active, ends>>

------------------------------------------------------------------------------
(* controlled-loop-start                                                    *)

StartTable == <<
  << {"execution_start_task_mismatch"}, "recreate_execution_start" >>,
  << {"loop_run_plan_not_ready"}, "regenerate_loop_run_plan" >>,
  << {"execution_start_invalid"}, "inspect_execution_start" >> >>

RunPlanReady(p) ==
  When(~p.ok \/ p.next # "request_operator_approval", "loop_run_plan_not_ready")

\* The start is that of the epoch active now, which holds this task.
ActiveEpochBlockers(s) == When(active = 0 \/ s.epoch # active, "execution_start_invalid")

\* Its audit record is where it says, and says the same; a line that cannot be
\* parsed anywhere in the log is in the way.
StartAuditBlockers(s) == When(~clean, "execution_start_invalid")

StartBlockers(p, s) ==
  IF ~At("start", s).ok THEN {"execution_start_invalid"}
  ELSE IF At("start", s).has["run_plan"] # p THEN {"execution_start_task_mismatch"}
  ELSE ActiveEpochBlockers(At("start", s)) \union StartAuditBlockers(At("start", s))

ControlledStart(p, s) ==
  Answer("cstart", RunPlanReady(At("run_plan", p)) \union StartBlockers(p, s),
         Accepted("plan_executor_invocation", [run_plan |-> p, start |-> s],
                  At("start", s).epoch, "completed"),
         StartTable, "inspect_controlled_start_blockers")

------------------------------------------------------------------------------
(* controlled-loop-invocation-plan                                          *)

ControlledPlanTable == <<
  << {"readiness_not_invocable", "controlled_start_readiness_mismatch"},
     "refresh_executor_invocation_readiness" >>,
  << {"invocation_plan_not_invocable", "invocation_plan_readiness_mismatch"},
     "recreate_executor_invocation_plan" >>,
  << {"controlled_start_invalid"}, "recreate_controlled_loop_start" >> >>

PlanInputs(c, r, n) ==
  When(~c.ok \/ c.next # "plan_executor_invocation", "controlled_start_invalid")
  \union When(~r.ok, "readiness_not_invocable") \union When(~n.ok, "invocation_plan_not_invocable")

\* The readiness is for the task and the epoch that were started.
StartReadinessBlockers(c, r) ==
  IF ~c.ok THEN {} ELSE
  When(r.has["run_plan"] # c.has["run_plan"], "controlled_start_readiness_mismatch")
  \union When(r.epoch # c.epoch, "controlled_start_readiness_mismatch")

\* The plan, and the target in it, are of this readiness.
PlanReadinessBlockers(n, r) == When(n.has["readiness"] # r, "invocation_plan_readiness_mismatch")

ControlledPlan(c, r, n) ==
  LET start == At("cstart", c) ready == At("readiness", r) plan == At("plan", n) IN
  Answer("cplan", PlanInputs(start, ready, plan) \union StartReadinessBlockers(start, ready)
                  \union PlanReadinessBlockers(plan, r),
         Accepted("invoke_real_executor", [cstart |-> c, readiness |-> r, plan |-> n],
                  start.epoch, "completed"),
         ControlledPlanTable, "inspect_controlled_invocation_blockers")

------------------------------------------------------------------------------
(* controlled-loop-real-invocation                                          *)

ControlledRealTable == <<
  << {"controlled_invocation_plan_invalid"}, "refresh_controlled_loop_invocation_plan" >> >>

NestedPlanBlockers(c) ==
  When(~c.ok \/ c.next # "invoke_real_executor", "controlled_invocation_plan_invalid")

\* The record file is still pending and is of the plan inside the packet.
RealBlockers(c, i) ==
  When(~i.ok, "real_invocation_invalid")
  \union When(i.status # "pending", "real_invocation_closeout_not_pending")
  \union When(c.ok /\ i.has["plan"] # c.has["plan"], "real_invocation_plan_mismatch")

RealAuditBlockers == When(~clean, "real_invocation_audit_mismatch")

RealResultBlockers(i) == When(i.now # i.has["result"], "real_invocation_result_mismatch")

ControlledReal(c, i) ==
  LET plan == At("cplan", c) record == At("real", i) IN
  Answer("creal", NestedPlanBlockers(plan) \union RealBlockers(plan, record) \union RealAuditBlockers
                  \union RealResultBlockers(record),
         Accepted("closeout_executor_result",
                  [cplan |-> c, real |-> i, plan |-> record.has["plan"],
                   result |-> record.has["result"]], plan.epoch, "completed"),
         ControlledRealTable, "inspect_real_invocation_evidence")

------------------------------------------------------------------------------
(* controlled-loop-closeout                                                 *)

ControlledCloseoutTable == <<
  << {"controlled_real_invocation_invalid"}, "refresh_controlled_loop_real_invocation" >> >>

Terminal == {"completed", "failed", "stopped"}

\* The packets embedded in the packet have the checksums it records.
ControlledGraph(c) ==
  LET plan == At("cplan", c.has["cplan"]) record == At("real", c.has["real"]) IN
  When(plan.has["plan"] # c.has["plan"] \/ record.has["plan"] # c.has["plan"]
       \/ record.has["result"] # c.has["result"] \/ plan.epoch # c.epoch,
       "controlled_real_invocation_invalid")

CloseoutInputs(c, k) ==
  When(~c.ok \/ c.next # "closeout_executor_result", "controlled_real_invocation_invalid")
  \union When(~k.ok, "closeout_invalid") \union When(k.status \notin Terminal, "closeout_not_terminal")

\* The closeout started from the record as the packet has it, pending ...
CloseoutBefore(c, k) ==
  When(k.has["real"] # c.has["real"], "closeout_invocation_mismatch")
  \union When(k.epoch # c.epoch, "closeout_epoch_mismatch")

\* ... and left the record that is in the file now.
CloseoutAfter(c, k, v) ==
  LET record == At("real", c.has["real"]) IN
  When(record.bound # v, "closeout_invocation_mismatch")
  \union When(record.status # k.status, "real_invocation_closeout_mismatch")

CloseoutAuditLines == When(~clean, "closeout_audit_mismatch")

ControlledCloseout(c, k) ==
  LET real == At("creal", c) closeout == At("closeout", k)
      first == CloseoutInputs(real, closeout)
               \union (IF real.ok THEN ControlledGraph(real) \union CloseoutBefore(real, closeout) ELSE {})
  IN
  Answer("cclose", first \union CloseoutAuditLines
                   \union (IF first = {} THEN CloseoutAfter(real, closeout, k) ELSE {}),
         Accepted("controlled_loop_tick", [creal |-> c, closeout |-> k], real.epoch, closeout.status),
         ControlledCloseoutTable, "inspect_closeout_evidence")

------------------------------------------------------------------------------
(* controlled-loop-tick: in is the version of each of the packets it is     *)
(* given; the tick and the task are taken from run plans                    *)

TickKinds == [loop_tick |-> "run_plan", task |-> "run_plan", start |-> "start",
              readiness |-> "readiness", plan |-> "plan", real |-> "real", result |-> "result",
              snapshot |-> "snapshot", closeout |-> "closeout"]
GivenAs(in, name) == At(TickKinds[name], in[name])

TickTaskBlockers(in) ==
  When(in.loop_tick # in.task, "loop_tick_task_mismatch")
  \union When(~GivenAs(in, "loop_tick").ok, "loop_tick_not_ready")
  \union When(~GivenAs(in, "start").ok, "execution_start_invalid")
  \union When(GivenAs(in, "start").has["run_plan"] # in.task, "execution_start_task_mismatch")

TickReadinessBlockers(in) ==
  LET r == GivenAs(in, "readiness") n == GivenAs(in, "plan") IN
  When(~r.ok, "readiness_not_invocable") \union When(~n.ok, "invocation_plan_not_invocable")
  \union When(r.has["run_plan"] # in.task, "readiness_task_mismatch")
  \union When(r.epoch # GivenAs(in, "start").epoch, "readiness_epoch_mismatch")
  \union When(n.has["readiness"] # in.readiness, "invocation_plan_readiness_mismatch")

TickRealBlockers(in) ==
  LET i == GivenAs(in, "real") IN
  When(~i.ok, "real_invocation_invalid")
  \union When(i.has["plan"] # in.plan, "real_invocation_plan_mismatch")
  \union When(i.has["result"] # in.result, "real_invocation_result_mismatch")

TickCloseoutBlockers(in) ==
  LET k == GivenAs(in, "closeout") IN
  When(~k.ok, "closeout_invalid") \union When(k.epoch # GivenAs(in, "start").epoch, "closeout_epoch_mismatch")
  \union When(k.has["snapshot"] # in.snapshot, "closeout_snapshot_mismatch")
  \union When(k.has["real"] # in.real, "closeout_invocation_mismatch")

\* The record as the closeout has rewritten it.
TickBoundBlockers(in) ==
  LET i == GivenAs(in, "real") k == GivenAs(in, "closeout") IN
  When(i.bound # in.closeout \/ i.status # k.status, "real_invocation_closeout_mismatch")
  \union When({i.status, k.status} \cap Terminal = {}, "closeout_not_completed")

\* A Git plan that is given is the one in the closeout; none need be given.
TickGitBlockers(in, git) ==
  LET k == GivenAs(in, "closeout") IN
  IF git = {} THEN {}
  ELSE IF "gitplan" \notin DOMAIN k.has THEN {"git_pr_plan_unanchored"}
  ELSE When(k.has["gitplan"] \notin git, "git_pr_plan_mismatch")

TickBlockers(in, git) ==
  TickTaskBlockers(in) \union TickReadinessBlockers(in) \union TickRealBlockers(in)
  \union TickCloseoutBlockers(in) \union TickBoundBlockers(in) \union TickGitBlockers(in, git)

\* A complete tick is audited; an append that fails leaves a packet that says
\* so.
ControlledTick(in, git) ==
  LET codes == TickBlockers(in, git) \union When(~clean, "controlled_tick_audit_append_failed")
      from == [k \in {"run_plan"} \union (DOMAIN TickKinds \ {"loop_tick", "task"})
                 \union (IF git = {} THEN {} ELSE {"gitplan"}) |->
                 CASE k = "run_plan" -> in.loop_tick [] k = "gitplan" -> CHOOSE g \in git : TRUE
                   [] OTHER -> in[k]]
      made == Accepted("controlled_tick_complete", from, GivenAs(in, "start").epoch,
                       GivenAs(in, "closeout").next)
  IN Answer("tick", codes, [made EXCEPT !.line = @ \union {<<"run_plan", in.task>>}],
            << << {"controlled_tick_audit_append_failed"}, "recover_controlled_tick_audit" >> >>,
            "inspect_controlled_tick_blockers")

------------------------------------------------------------------------------
(* controlled-loop-run-summary                                              *)

SummaryKinds == {"run_plan", "cstart", "cplan", "creal", "cclose", "tick"}
SummaryNext == [run_plan |-> "request_operator_approval", cstart |-> "plan_executor_invocation",
                cplan |-> "invoke_real_executor", creal |-> "closeout_executor_result",
                cclose |-> "controlled_loop_tick", tick |-> "controlled_tick_complete"]

SummaryInputs(in) ==
  {<<k, "not_completed">> : k \in {k \in SummaryKinds : ~At(k, in[k]).ok}}
  \union {<<k, "unexpected_next_action">> :
            k \in {k \in SummaryKinds : At(k, in[k]).next # SummaryNext[k]}}

\* Each packet records the checksum of the one before it.
SummaryBefore == [cstart |-> "run_plan", cplan |-> "cstart", creal |-> "cplan", cclose |-> "creal"]
SummaryLinks_NotTheStart(in) ==
  {<<k, "checksum_mismatch">> : k \in {k \in DOMAIN SummaryBefore \ {"cplan"} :
     At(k, in[k]).has[SummaryBefore[k]] # in[SummaryBefore[k]]}}
SummaryLinks(in) ==
  {<<k, "checksum_mismatch">> : k \in {k \in DOMAIN SummaryBefore :
     At(k, in[k]).has[SummaryBefore[k]] # in[SummaryBefore[k]]}}

\* The tick was given what the other packets hold.
SummaryTickLinks(in) ==
  LET tick == At("tick", in["tick"]).has
      Held(k, name) == At(k, in[k]).has[name] IN
  When(tick["run_plan"] # in["run_plan"], <<"tick", "loop_tick_checksum_mismatch">>)
  \union When(tick["start"] # Held("cstart", "start"), <<"tick", "execution_start_checksum_mismatch">>)
  \union {<<"tick", name>> : name \in {name \in {"readiness", "plan"} : tick[name] # Held("cplan", name)}}
  \union When(tick["result"] # Held("creal", "result"), <<"tick", "result_checksum_mismatch">>)
  \union When(tick["closeout"] # Held("cclose", "closeout"), <<"tick", "closeout_checksum_mismatch">>)

SummaryEpochs(in) ==
  When(Cardinality({At(k, in[k]).epoch : k \in SummaryKinds \ {"run_plan"}}) > 1,
       <<"tick", "controlled_run_epoch_mismatch">>)

RunSummary(in) ==
  LET inputs == SummaryInputs(in)
      codes == IF inputs # {} THEN inputs
               ELSE SummaryLinks(in) \union SummaryTickLinks(in) \union SummaryEpochs(in) IN
  Answer("summary", codes, Accepted("review_controlled_loop_run", in, At("tick", in["tick"]).epoch,
                                    At("tick", in["tick"]).status),
         <<>>, "inspect_controlled_loop_run_blockers")

------------------------------------------------------------------------------
(* controlled-loop-outcome-plan                                             *)

RunOutcomeTable == <<
  << {"controlled_run_summary_not_completed", "controlled_closeout_checksum_mismatch",
      "controlled_loop_tick_checksum_mismatch"}, "refresh_controlled_loop_run_summary" >>,
  << {"git_pr_plan_checksum_mismatch", "git_pr_plan_unanchored"}, "inspect_git_pr_plan_blockers" >> >>

OutcomeInputs(s, c, t) ==
  When(~s.ok \/ s.next # "review_controlled_loop_run", "controlled_run_summary_not_completed")
  \union When(~c.ok \/ c.next # "controlled_loop_tick", "controlled_closeout_not_completed")
  \union When(~t.ok \/ t.next # "controlled_tick_complete", "controlled_loop_tick_not_completed")

\* The summary is of these two packets.
OutcomeLinks(s, c, t) ==
  When(s.has["cclose"] # c, "controlled_closeout_checksum_mismatch")
  \union When(s.has["tick"] # t, "controlled_loop_tick_checksum_mismatch")

\* The two are of one closeout and agree on what is to be done next.
OutcomeCloseout(s, c, t) ==
  LET closeout == At("closeout", c.has["closeout"]) IN
  When(t.has["closeout"] # c.has["closeout"], "controlled_loop_tick_closeout_checksum_mismatch")
  \union When(s.status # t.status \/ closeout.next # t.status, "controlled_loop_outcome_decision_mismatch")
  \union When(c.epoch # t.epoch, "controlled_loop_outcome_epoch_mismatch")

OutcomeDecision(t) ==
  When(t.status \notin {"generate_git_pr_plan", "continue", "handoff", "stop"},
       "controlled_loop_outcome_decision_unsupported")

\* A Git plan in the closeout must have been given to the tick too.
OutcomeGitPlan(c, t) ==
  LET closeout == At("closeout", c.has["closeout"]) IN
  IF t.status # "generate_git_pr_plan" \/ "gitplan" \notin DOMAIN closeout.has THEN {}
  ELSE IF "gitplan" \notin DOMAIN t.has THEN {"git_pr_plan_checksum_mismatch", "git_pr_plan_unanchored"}
  ELSE When(t.has["gitplan"] # closeout.has["gitplan"], "git_pr_plan_checksum_mismatch")

OutcomeNext(c, t) ==
  LET git == "gitplan" \in DOMAIN At("closeout", c.has["closeout"]).has IN
  CASE t.status = "generate_git_pr_plan" ->
         IF git THEN "request_git_pr_materialization_approval" ELSE "run_git_pr_plan"
    [] t.status = "continue" -> "plan_next_controlled_executor_step"
    [] t.status = "handoff" -> "inspect_executor_failure"
    [] t.status = "stop" -> "stop_active_loop"

OutcomePlan(s, c, t) ==
  LET summary == At("summary", s) close == At("cclose", c) tick == At("tick", t)
      inputs == OutcomeInputs(summary, close, tick)
      codes == IF inputs # {} THEN inputs
               ELSE OutcomeLinks(summary, c, t) \union OutcomeCloseout(summary, close, tick)
                    \union OutcomeDecision(tick) \union OutcomeGitPlan(close, tick)
      accepted == IF codes = {}
                  THEN Accepted(OutcomeNext(close, tick), [summary |-> s, cclose |-> c, tick |-> t],
                                tick.epoch, tick.status)
                  ELSE Blocked("")
  IN Answer("outcome", codes, accepted, RunOutcomeTable, "inspect_controlled_loop_outcome_blockers")

------------------------------------------------------------------------------

Real ==
  \/ \E p \in Versions("run_plan") : StartRun(p)
  \/ \E s \in Versions("start") : GetReady(s)
  \/ \E r \in Versions("readiness") : Plan(r)
  \/ \E n \in Versions("plan") : Run(n)
  \/ \E i \in Versions("real") : Rewrite(i)
  \/ \E i \in Versions("real"), w \in Versions("snapshot"), status \in Statuses, emit \in BOOLEAN :
       Close(i, w, status, emit)
  \/ Snapshot \/ GitPlan \/ FailEpoch \/ Tear

Controlled ==
  \/ RunPlan
  \/ \E p \in Versions("run_plan"), s \in Versions("start") : ControlledStart(p, s)
  \/ \E c \in Versions("cstart"), r \in Versions("readiness"), n \in Versions("plan") :
       ControlledPlan(c, r, n)
  \/ \E c \in Versions("cplan"), i \in Versions("real") : ControlledReal(c, i)
  \/ \E c \in Versions("creal"), k \in Versions("closeout") : ControlledCloseout(c, k)
  \/ \E in \in [loop_tick : Versions("run_plan"), task : Versions("run_plan"),
                start : Versions("start"), readiness : Versions("readiness"),
                plan : Versions("plan"), real : Versions("real"), result : Versions("result"),
                snapshot : Versions("snapshot"), closeout : Versions("closeout")],
        git \in {{}} \union {{g} : g \in Versions("gitplan")} : ControlledTick(in, git)
  \/ \E in \in [run_plan : Versions("run_plan"), cstart : Versions("cstart"),
                cplan : Versions("cplan"), creal : Versions("creal"),
                cclose : Versions("cclose"), tick : Versions("tick")] : RunSummary(in)
  \/ \E s \in Versions("summary"), c \in Versions("cclose"), t \in Versions("tick") :
       OutcomePlan(s, c, t)

RunNext == Real \/ Controlled

RunSpec == RunInit /\ [][RunNext]_cvars

------------------------------------------------------------------------------
(* Properties                                                               *)

ControlledTypeOK ==
  /\ \A k \in Kinds : \A n \in Versions(k) :
       /\ At(k, n).ok \in BOOLEAN /\ DOMAIN At(k, n).has \subseteq Kinds
       /\ \A j \in DOMAIN At(k, n).has : At(k, n).has[j] \in Versions(j)
  /\ active \in 0 .. Len(ends) /\ extra \in 0 .. MaxExtra

\* A run that is accepted is one run: on whatever way a packet is reached from
\* a valid outcome plan, it is the same version of it, though every command
\* looks at its own neighbours only (the checksum links from
\* controlled_loop_start_command to controlled_loop_outcome_plan_command).
OneChain ==
  \A n \in Versions("outcome") : At("outcome", n).ok =>
    OneLine(At("outcome", n))

\* What the outcome plan tells the operator to do fits how the epoch ended: a
\* Git plan only for an epoch that was completed, nothing else for one that was
\* (closeout_next_decision, controlled_loop_outcome_recommendation).
OutcomeFitsEpoch ==
  \A n \in Versions("outcome") :
    LET o == At("outcome", n) IN
    o.ok => /\ ends[o.epoch] \in {"completed", "failed"}
            /\ (ends[o.epoch] = "completed") <=>
                 (o.next \in {"run_git_pr_plan", "request_git_pr_materialization_approval"})
=============================================================================
