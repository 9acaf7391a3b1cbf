--------------------------- MODULE ControlledRunner --------------------------
(***************************************************************************)
(* Starting the controlled runner (cli.py).  A finished run is made into a *)
(* manifest; the manifest is approved, planned, the plan approved, run     *)
(* dry, found ready, the start approved, the runner started, and its first *)
(* stage selected.  "Starting" is a packet and an audit record: no process *)
(* runs.                                                                   *)
(*                                                                         *)
(* Operator approvals are files too, of kind "sign": has names the one     *)
(* packet that is approved, and the purpose follows from its kind.         *)
(* lapsed are those that no longer verify: expired, or another file now.   *)
(***************************************************************************)
EXTENDS Evidence, OperatorApproval, TLC

VARIABLES
  lapsed,   \* the approvals that no longer verify
  audit,    \* the audit log: the packets <<kind, version>> it records
  torn      \* ... or does it no longer replay?

rvars == <<shelf, extra, lapsed, audit, torn>>

RunnerKinds == {"cclose", "tick", "summary", "outcome", "manifest", "mapproval", "rplan",
                "xapproval", "dryrun", "ready", "sapproval", "started", "stage", "sign"}

Says(kind, codes, accepted, table, other) ==
  Reply(kind, codes, accepted, table, other) /\ UNCHANGED <<lapsed, audit, torn>>
NextStep(kind, n, action) == At(kind, n).ok /\ At(kind, n).next = action

Purpose == [manifest |-> "controlled_loop_run_manifest", rplan |-> "controlled_loop_runner_execution",
            ready |-> "controlled_loop_runner_start", exec |-> "start_governed_execution",
            xready |-> "controlled_loop_runner_stage_execution",
            retryplan |-> "controlled_loop_runner_stage_retry"]

\* An operator signs a packet as it is, once, or again as an extra.
Sign(kind, n) ==
  /\ At(kind, n).ok
  /\ shelf' = Place("sign", Accepted("", [k \in {kind} |-> n], 0, "signed"))
  /\ extra' = extra + IF \E m \in Versions("sign") : At("sign", m).has = [k \in {kind} |-> n] THEN 1 ELSE 0
  /\ extra' <= MaxExtra
  /\ UNCHANGED <<lapsed, audit, torn>>

\* What an approval file says, to be verified at time 1, or at 2 once lapsed.
SignedApproval(n) ==
  LET kind == CHOOSE k \in DOMAIN At("sign", n).has : TRUE IN
  SignedBy([target |-> <<kind, At("sign", n).has[kind]>>, purpose |-> Purpose[kind],
            operator |-> "operator", key |-> "key", issued |-> 1, expires |-> 2, sig |-> "none"],
           "secret")
Verify(n, kind, v) ==
  ApprovalBlockers(SignedApproval(n), <<kind, v>>, Purpose[kind], "operator", "secret",
                   IF n \in lapsed THEN 2 ELSE 1)

Lapse ==
  /\ extra < MaxExtra /\ extra' = extra + 1
  /\ \E n \in Versions("sign") \ lapsed : lapsed' = lapsed \union {n}
  /\ UNCHANGED <<shelf, audit, torn>>

TearLog ==
  /\ extra < MaxExtra /\ extra' = extra + 1
  /\ ~torn /\ torn' = TRUE /\ UNCHANGED <<shelf, lapsed, audit>>

------------------------------------------------------------------------------
(* A finished run, as ControlledRun leaves it                               *)

RunClosed ==
  /\ Issue("cclose", Accepted("controlled_loop_tick", <<>>, 0, "completed"))
  /\ UNCHANGED <<lapsed, audit, torn>>
RunTicked ==
  \E c \in Versions("cclose") :
    Issue("tick", Accepted("controlled_tick_complete", [cclose |-> c], 0, "completed"))
    /\ UNCHANGED <<lapsed, audit, torn>>
RunSummed ==
  \E t \in Versions("tick") :
    Issue("summary", Accepted("review_controlled_loop_run",
                              [cclose |-> At("tick", t).has["cclose"], tick |-> t], 0, "completed"))
    /\ UNCHANGED <<lapsed, audit, torn>>
RunPlanned ==
  \E s \in Versions("summary") :
    Issue("outcome", Accepted("run_git_pr_plan",
                              [summary |-> s, cclose |-> At("summary", s).has["cclose"],
                               tick |-> At("summary", s).has["tick"]], 1, "completed"))
    /\ UNCHANGED <<lapsed, audit, torn>>
Finish == RunClosed \/ RunTicked \/ RunSummed \/ RunPlanned

------------------------------------------------------------------------------
(* controlled-loop-run-manifest-plan and -approval                          *)

ManifestTable == <<
  << {"controlled_outcome_plan_not_completed", "controlled_outcome_plan_checksum_mismatch",
      "controlled_run_summary_checksum_mismatch"}, "refresh_controlled_loop_outcome_plan" >> >>

ManifestInputs(s, c, t, o) ==
  When(\E p \in {At("summary", s), At("cclose", c), At("tick", t), At("outcome", o)} : ~p.ok,
       "controlled_outcome_plan_not_completed")

\* Summary, closeout and tick are those of the outcome plan, which decides as
\* the tick did; and closeout and tick those of the summary.
ManifestLinks_SummaryOnly(s, c, t, o) ==      \* mutant: the outcome plan's own anchors are not read
  When(At("summary", s).has # [cclose |-> c, tick |-> t], "controlled_run_summary_checksum_mismatch")
ManifestLinks(s, c, t, o) ==
  LET plan == At("outcome", o) summary == At("summary", s) IN
  When(plan.has # [summary |-> s, cclose |-> c, tick |-> t], "controlled_outcome_plan_checksum_mismatch")
  \union When(summary.has # [cclose |-> c, tick |-> t], "controlled_run_summary_checksum_mismatch")

ManifestPlan(s, c, t, o) ==
  LET inputs == ManifestInputs(s, c, t, o) IN
  Says("manifest", IF inputs # {} THEN inputs ELSE ManifestLinks(s, c, t, o),
       Accepted("review_controlled_run_manifest", [summary |-> s, cclose |-> c, tick |-> t, outcome |-> o],
                0, "completed"),
       ManifestTable, "inspect_controlled_run_manifest_blockers")

\* Every step of the manifest was accepted, and its commands are the known ones.
ManifestConsistent(m) == When(~At("manifest", m).ok, "controlled_run_manifest_plan_blockers_present")

ManifestApprovalTable == <<
  << {"controlled_run_manifest_plan_blockers_present"}, "refresh_controlled_run_manifest_plan" >>,
  << {"operator_approval_target_mismatch", "operator_approval_purpose_mismatch",
      "operator_approval_expired"}, "fix_controlled_run_manifest_approval" >> >>

ManifestApproval(m, n) ==
  Says("mapproval", ManifestConsistent(m) \union Verify(n, "manifest", m),
       Accepted("review_controlled_run_manifest_approval", [manifest |-> m, sign |-> n], 0, "completed"),
       ManifestApprovalTable, "inspect_controlled_run_manifest_approval_blockers")

------------------------------------------------------------------------------
(* controlled-loop-runner-plan                                              *)

RunnerPlanTable == <<
  << {"controlled_runner_manifest_approval_not_completed"}, "fix_controlled_run_manifest_approval" >>,
  << {"controlled_runner_manifest_approval_checksum_mismatch"}, "refresh_controlled_run_manifest_approval" >>,
  << {"controlled_runner_operator_approval_verification_failed"}, "fix_controlled_run_manifest_approval" >>,
  << {"controlled_runner_manifest_plan_not_completed"}, "refresh_controlled_run_manifest_plan" >> >>

RunnerPlanInputs(m, a) ==
  When(~At("manifest", m).ok, "controlled_runner_manifest_plan_not_completed")
  \union When(~At("mapproval", a).ok, "controlled_runner_manifest_approval_not_completed")
  \union ManifestConsistent(m)

ManifestApprovalLinks(m, a) ==
  When(At("mapproval", a).has["manifest"] # m, "controlled_runner_manifest_approval_checksum_mismatch")

\* The approval file is read and verified again.
ManifestOperator(m, a) ==
  When(Verify(At("mapproval", a).has["sign"], "manifest", m) # {},
       "controlled_runner_operator_approval_verification_failed")

RunnerPlan(m, a) ==
  Says("rplan", LET inputs == RunnerPlanInputs(m, a) IN
                IF ~At("mapproval", a).ok THEN inputs
                ELSE inputs \union ManifestApprovalLinks(m, a) \union ManifestOperator(m, a),
       Accepted("review_controlled_runner_plan", [manifest |-> m, mapproval |-> a], 0, "completed"),
       RunnerPlanTable, "inspect_controlled_runner_plan_blockers")

------------------------------------------------------------------------------
(* controlled-loop-runner-execution-approval                                *)

RunnerPlanUsable(p) == When(~NextStep("rplan", p, "review_controlled_runner_plan"),
                            "controlled_runner_plan_not_completed")

ExecutionApprovalTable == <<
  << {"controlled_runner_plan_not_completed"}, "refresh_controlled_runner_plan" >>,
  << {"operator_approval_target_mismatch", "operator_approval_purpose_mismatch",
      "operator_approval_expired"}, "fix_controlled_runner_execution_approval" >> >>

ExecutionApproval(p, n) ==
  Says("xapproval", RunnerPlanUsable(p) \union Verify(n, "rplan", p),
       Accepted("review_controlled_runner_execution_approval", [rplan |-> p, sign |-> n], 0, "completed"),
       ExecutionApprovalTable, "inspect_controlled_runner_execution_approval_blockers")

------------------------------------------------------------------------------
(* controlled-loop-runner-dry-run                                           *)

DryRunTable == <<
  << {"controlled_runner_plan_not_completed"}, "refresh_controlled_runner_plan" >>,
  << {"controlled_runner_dry_run_execution_approval_not_completed",
      "controlled_runner_dry_run_execution_approval_plan_checksum_mismatch"},
     "refresh_controlled_runner_execution_approval" >>,
  << {"operator_approval_target_mismatch", "operator_approval_purpose_mismatch",
      "operator_approval_expired"}, "fix_controlled_runner_execution_approval" >> >>

DryRunApproval(x) ==
  When(~NextStep("xapproval", x, "review_controlled_runner_execution_approval"),
       "controlled_runner_dry_run_execution_approval_not_completed")

\* The approval is of this plan, and so is the operator's file, verified again.
DryRunLinks(p, x) ==
  When(At("xapproval", x).has["rplan"] # p,
       "controlled_runner_dry_run_execution_approval_plan_checksum_mismatch")
DryRunOperator(p, x) == Verify(At("xapproval", x).has["sign"], "rplan", p)

DryRun(p, x) ==
  Says("dryrun", RunnerPlanUsable(p) \union DryRunApproval(x)
                 \union (IF At("xapproval", x).ok THEN DryRunLinks(p, x) \union DryRunOperator(p, x) ELSE {}),
       Accepted("review_controlled_runner_dry_run", [rplan |-> p, xapproval |-> x], 0, "completed"),
       DryRunTable, "inspect_controlled_runner_dry_run_blockers")

------------------------------------------------------------------------------
(* controlled-loop-runner-start-readiness                                   *)

\* All that is wrong sends one back to the dry run.
StartReadinessTable == <<
  << {"controlled_runner_start_readiness_dry_run_not_completed",
      "controlled_runner_start_readiness_runner_plan_not_completed",
      "controlled_runner_start_readiness_execution_approval_not_completed",
      "controlled_runner_start_readiness_execution_approval_plan_checksum_mismatch",
      "controlled_runner_start_readiness_runner_plan_checksum_mismatch",
      "controlled_runner_start_readiness_execution_approval_checksum_mismatch"},
     "refresh_controlled_runner_dry_run" >> >>

ReadyPlan(p) == When(~NextStep("rplan", p, "review_controlled_runner_plan"),
                     "controlled_runner_start_readiness_runner_plan_not_completed")

\* Approved for this plan when it was approved: the operator's file is not read.
ReadyApproval(x, p) ==
  IF ~At("xapproval", x).ok THEN {"controlled_runner_start_readiness_execution_approval_not_completed"}
  ELSE When(At("xapproval", x).has["rplan"] # p,
            "controlled_runner_start_readiness_execution_approval_plan_checksum_mismatch")

ReadyDryRun(d) == When(~NextStep("dryrun", d, "review_controlled_runner_dry_run"),
                       "controlled_runner_start_readiness_dry_run_not_completed")

ReadyLinks(d, p, x) ==
  When(At("dryrun", d).has["rplan"] # p, "controlled_runner_start_readiness_runner_plan_checksum_mismatch")
  \union When(At("dryrun", d).has["xapproval"] # x,
              "controlled_runner_start_readiness_execution_approval_checksum_mismatch")

StartReadiness(d, p, x) ==
  Says("ready", ReadyPlan(p) \union ReadyApproval(x, p) \union ReadyDryRun(d)
                \union (IF At("dryrun", d).ok THEN ReadyLinks(d, p, x) ELSE {}),
       Accepted("review_controlled_runner_start_readiness", [dryrun |-> d, rplan |-> p, xapproval |-> x],
                0, "ready"),
       StartReadinessTable, "inspect_controlled_runner_start_readiness_blockers")

------------------------------------------------------------------------------
(* controlled-loop-runner-start-approval and -start                         *)

StartApprovalTable == <<
  << {"controlled_runner_start_readiness_not_ready"}, "refresh_controlled_runner_start_readiness" >>,
  << {"operator_approval_target_mismatch", "operator_approval_purpose_mismatch",
      "operator_approval_expired"}, "fix_controlled_runner_start_approval" >> >>

ReadyUsable(r) == When(~NextStep("ready", r, "review_controlled_runner_start_readiness"),
                       "controlled_runner_start_readiness_not_ready")

StartApproval(r, n) ==
  Says("sapproval", ReadyUsable(r) \union Verify(n, "ready", r),
       Accepted("review_controlled_runner_start_approval", [ready |-> r, sign |-> n], 0, "completed"),
       StartApprovalTable, "inspect_controlled_runner_start_approval_blockers")

RunnerStartTable == <<
  << {"controlled_runner_start_approval_not_completed"}, "refresh_controlled_runner_start_approval" >>,
  << {"controlled_runner_start_dry_run_checksum_mismatch",
      "controlled_runner_start_dry_run_not_completed"}, "refresh_controlled_runner_dry_run" >>,
  << {"controlled_runner_start_runner_plan_checksum_mismatch"}, "refresh_controlled_runner_plan" >>,
  << {"controlled_runner_start_execution_approval_checksum_mismatch",
      "controlled_runner_start_execution_approval_not_completed"},
     "refresh_controlled_runner_execution_approval" >>,
  << {"controlled_runner_start_readiness_checksum_mismatch",
      "controlled_runner_start_readiness_not_ready"}, "refresh_controlled_runner_start_readiness" >>,
  << {"operator_approval_target_mismatch", "operator_approval_purpose_mismatch",
      "operator_approval_expired"}, "fix_controlled_runner_start_approval" >> >>

\* The start approval is of this readiness; the operator's file is verified again.
StartApproved(a, r) ==
  IF ~NextStep("sapproval", a, "review_controlled_runner_start_approval")
  THEN {"controlled_runner_start_approval_not_completed"}
  ELSE When(At("sapproval", a).has["ready"] # r, "controlled_runner_start_readiness_checksum_mismatch")
       \union Verify(At("sapproval", a).has["sign"], "ready", r)

StartReadyLinks(r, d, p, x) ==
  IF ~At("ready", r).ok THEN {} ELSE
  When(At("ready", r).has["dryrun"] # d, "controlled_runner_start_dry_run_checksum_mismatch")
  \union When(At("ready", r).has["rplan"] # p, "controlled_runner_start_runner_plan_checksum_mismatch")
  \union When(At("ready", r).has["xapproval"] # x,
              "controlled_runner_start_execution_approval_checksum_mismatch")

\* ... and so is the operator's approval of the plan.
StartOperator_OnTrust(x, p) == {}
StartOperator(x, p) == Verify(At("xapproval", x).has["sign"], "rplan", p)
StartExecutionApproved(x, p) ==
  IF ~At("xapproval", x).ok THEN {"controlled_runner_start_execution_approval_not_completed"}
  ELSE ReadyApproval(x, p) \union StartOperator(x, p)

StartDryRun(d, p, x) ==
  IF ~At("dryrun", d).ok THEN {"controlled_runner_start_dry_run_not_completed"}
  ELSE When(At("dryrun", d).has # [rplan |-> p, xapproval |-> x],
            "controlled_runner_start_dry_run_checksum_mismatch")

\* A start is audited, or it is none.
Started(v) == audit' = audit \union {<<"started", v>>}
RunnerStart(a, r, d, p, x) ==
  LET codes == StartApproved(a, r) \union ReadyUsable(r) \union StartReadyLinks(r, d, p, x)
               \union ReadyPlan(p) \union StartExecutionApproved(x, p) \union StartDryRun(d, p, x)
               \union When(torn, "controlled_runner_start_audit_append_failed")
  IN
  /\ Reply("started", codes,
           Accepted("review_controlled_runner_start",
                    [sapproval |-> a, ready |-> r, dryrun |-> d, rplan |-> p, xapproval |-> x], 0, "started"),
           RunnerStartTable, "inspect_controlled_runner_start_blockers")
  /\ IF codes = {} THEN Started(Len(shelf["started"]) + 1) ELSE UNCHANGED audit
  /\ UNCHANGED <<lapsed, torn>>

------------------------------------------------------------------------------
(* controlled-loop-runner-next-stage                                        *)

NextStageTable == <<
  << {"controlled_runner_next_stage_start_not_started",
      "controlled_runner_next_stage_start_boundary_unrecorded"}, "refresh_controlled_runner_start" >>,
  << {"controlled_runner_next_stage_runner_plan_checksum_mismatch",
      "controlled_runner_start_readiness_runner_plan_not_completed"}, "refresh_controlled_runner_plan" >>,
  << {"controlled_runner_next_stage_dry_run_checksum_mismatch",
      "controlled_runner_next_stage_dry_run_runner_plan_checksum_mismatch",
      "controlled_runner_next_stage_dry_run_not_completed"}, "refresh_controlled_runner_dry_run" >> >>

\* The start's audit record is on the line it names, and says the same.
StartRecorded(s) ==
  When(torn \/ <<"started", s>> \notin audit, "controlled_runner_next_stage_start_boundary_unrecorded")

NextStageDryRun(d, p) ==
  IF ~At("dryrun", d).ok THEN {"controlled_runner_next_stage_dry_run_not_completed"}
  ELSE When(At("dryrun", d).has["rplan"] # p,
            "controlled_runner_next_stage_dry_run_runner_plan_checksum_mismatch")

NextStageLinks(s, p, d) ==
  IF ~NextStep("started", s, "review_controlled_runner_start")
  THEN {"controlled_runner_next_stage_start_not_started"}
  ELSE When(At("started", s).has["rplan"] # p, "controlled_runner_next_stage_runner_plan_checksum_mismatch")
       \union When(At("started", s).has["dryrun"] # d,
                   "controlled_runner_next_stage_dry_run_checksum_mismatch")
       \union StartRecorded(s)

NextStageChain(s, p, d) == NextStageLinks(s, p, d) \union ReadyPlan(p) \union NextStageDryRun(d, p)

\* Only the first stage is selected here; those after it by -next-stage-continuation.
NextStage(s, p, d) ==
  Says("stage", NextStageChain(s, p, d),
       Accepted("review_controlled_runner_next_stage", [started |-> s, rplan |-> p, dryrun |-> d],
                1, "selected"),
       NextStageTable, "inspect_controlled_runner_next_stage_blockers")

RunnerInit ==
  lapsed = {} /\ audit = {} /\ torn = FALSE /\ extra = 0

RunnerNext ==
  \/ Finish \/ Lapse \/ TearLog
  \/ \E kind \in {"manifest", "rplan", "ready"} : \E n \in Versions(kind) : Sign(kind, n)
  \/ \E s \in Versions("summary"), c \in Versions("cclose"), t \in Versions("tick"),
        o \in Versions("outcome") : ManifestPlan(s, c, t, o)
  \/ \E m \in Versions("manifest"), n \in Versions("sign") : ManifestApproval(m, n)
  \/ \E m \in Versions("manifest"), a \in Versions("mapproval") : RunnerPlan(m, a)
  \/ \E p \in Versions("rplan"), n \in Versions("sign") : ExecutionApproval(p, n)
  \/ \E p \in Versions("rplan"), x \in Versions("xapproval") : DryRun(p, x)
  \/ \E d \in Versions("dryrun"), p \in Versions("rplan"), x \in Versions("xapproval") :
       StartReadiness(d, p, x)
  \/ \E r \in Versions("ready"), n \in Versions("sign") : StartApproval(r, n)
  \/ \E a \in Versions("sapproval"), r \in Versions("ready"), d \in Versions("dryrun"),
        p \in Versions("rplan"), x \in Versions("xapproval") : RunnerStart(a, r, d, p, x)
  \/ \E s \in Versions("started"), p \in Versions("rplan"), d \in Versions("dryrun") : NextStage(s, p, d)

------------------------------------------------------------------------------
(* Properties                                                               *)

RunnerTypeOK ==
  /\ lapsed \subseteq Versions("sign") /\ \A a \in audit : a[2] \in Versions(a[1])
  /\ extra \in 0 .. MaxExtra

\* The stage that is selected rests on one run, one plan and one set of
\* approvals, on whatever way they are reached (the checksum links from
\* controlled_loop_run_manifest_plan_command to
\* controlled_loop_runner_next_stage_chain_validation).
OneRunner == \A n \in Versions("stage") : At("stage", n).ok => OneLine(At("stage", n))

\* When the runner starts, the operator's approvals of the start and of the
\* plan's execution still hold, however long ago the packets that accepted them
\* were printed (controlled_loop_runner_start_approval_blockers,
\* controlled_loop_runner_start_execution_approval_operator_blockers).
StartedWhileApproved ==
  [][\A n \in DOMAIN shelf'["started"] \ Versions("started") :
       shelf'["started"][n].ok =>
         {At("sapproval", shelf'["started"][n].has["sapproval"]).has["sign"],
          At("xapproval", shelf'["started"][n].has["xapproval"]).has["sign"]} \cap lapsed = {}]_rvars
=============================================================================
