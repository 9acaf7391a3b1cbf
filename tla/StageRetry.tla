------------------------------ MODULE StageRetry ------------------------------
(***************************************************************************)
(* What follows the outcome of a stage (cli.py): the next stage is         *)
(* continued with and its inputs bound, the runner completes, or the stage *)
(* is retried, once: the retry is planned, approved, given a boundary and  *)
(* an output file of its own, reserved, executed, closed out, and its      *)
(* outcome leads on to the next stage or to completion.                    *)
(***************************************************************************)
EXTENDS RunnerStages

CONSTANTS
  RetryFiles,   \* the output files that retries may be given
  RetryTerms    \* what else the boundary of a retry says: its arguments, working
                \* directory and timeout, and the output file of the first try

VARIABLES
  reserved,   \* the retries <<stage, output file, terms>> that are reserved
  retried,    \* ... and those whose process was started: history
  there       \* the output files of retries that exist

rtvars == <<shelf, extra, lapsed, audit, torn, busy, printed, starter, reserved, retried, there>>
kept == <<reserved, retried, there>>

RetryKinds == {"retryplan", "rapproval", "rbdry", "rexec", "rclose", "routcome"}

\* What a retry rests on: the stage's outcome, closeout and execution.
RetrySource(n) == Base \union {"souto", "close", "exec"} \union IF n = 1 THEN {} ELSE {"cont", "bind"}

RetryReply(kind, n, codes, accepted, table, other) ==
  StageReply(kind, n, codes, accepted, table, other) /\ UNCHANGED kept

------------------------------------------------------------------------------
(* controlled-loop-runner-next-stage-continuation                           *)

Follows(kind, ev, action, code) == When(~NextStep(kind, ev[kind], action), code)

\* The outcome's target is the next stage, and names the closeout and execution.
OutcomeSelects(ev) ==
  Follows("souto", ev, "select_next_stage", "outcome_not_select_next_stage")
  \union Anchors("souto", ev, "outcome_target_checksum_mismatch")
CloseoutCompleted(ev) ==
  When(At("close", ev["close"]).status # "completed", "closeout_not_completed")
  \union Anchors("close", ev, "closeout_checksum_mismatch")
ExecutionCompleted(ev) ==
  When(At("exec", ev["exec"]).status # "completed", "execution_not_completed")

ContinuationTable == <<
  << {"outcome_not_select_next_stage", "outcome_target_checksum_mismatch"},
     "refresh_controlled_runner_stage_outcome_plan" >>,
  << {"closeout_not_completed", "closeout_checksum_mismatch"}, "refresh_controlled_runner_stage_closeout" >>,
  << {"execution_not_completed"}, "refresh_controlled_runner_stage_execution" >> >>

Continuation(ev, n) ==
  RetryReply("cont", n + 1, Chain(ev) \union OutcomeSelects(ev) \union CloseoutCompleted(ev)
                            \union ExecutionCompleted(ev) \union OfStage("souto", ev, n, "completed_stage_mismatch"),
             Accepted("generalize_controlled_runner_stage_execution_readiness_for_continuation",
                      Only(ev, Base \union {"souto", "close", "exec"}), n + 1, "selected"),
             ContinuationTable, "inspect_controlled_runner_next_stage_continuation_blockers")

\* controlled-loop-runner-stage-input-binding.  The outcome must be that of the
\* execution itself: of a retry it knows nothing.
BindingOutcome(ev) ==
  When(~NextStep("souto", ev["souto"], "select_next_stage"), "outcome_not_completed")
BindingOutcomeAnchors(ev) == Anchors("souto", ev, "outcome_closeout_checksum_mismatch")
BindingCloseout(ev) ==
  When(At("close", ev["close"]).status # "completed", "closeout_not_completed")
PriorOutput(ev) ==
  When(At("exec", ev["exec"]).status # "completed", "execution_not_completed")
  \union When(<<"exec", ev["exec"]>> \notin printed, "prior_stage_output_checksum_mismatch")
BindingContinuation(ev, n) ==
  Usable("cont", ev, "continuation_not_selected") \union OfStage("cont", ev, n, "continuation_stage_mismatch")
BindingAnchors(ev) == Anchors("cont", ev, "continuation_checksum_mismatch")

BindingTable == <<
  << {"continuation_not_selected", "continuation_checksum_mismatch"},
     "refresh_controlled_runner_next_stage_continuation" >>,
  << {"outcome_not_completed", "outcome_closeout_checksum_mismatch"},
     "refresh_controlled_runner_stage_outcome_plan" >>,
  << {"prior_stage_output_checksum_mismatch"}, "refresh_prior_stage_output" >> >>

InputBinding(ev, n) ==
  RetryReply("bind", n, Chain(ev) \union BindingContinuation(ev, n) \union BindingAnchors(ev)
                        \union BindingOutcome(ev) \union BindingOutcomeAnchors(ev)
                        \union BindingCloseout(ev) \union PriorOutput(ev),
             Accepted("generalize_controlled_runner_stage_execution_readiness_for_continuation",
                      ev, n, "bound"),
             BindingTable, "inspect_controlled_runner_stage_input_binding_blockers")

------------------------------------------------------------------------------
(* controlled-loop-runner-completion                                        *)

\* The continuation and binding that execution, closeout and outcome name.
ContinuationAnchors(ev, n) ==
  IF n = 1 THEN {} ELSE When(Only(At("exec", ev["exec"]).has, {"cont", "bind"}) # Only(ev, {"cont", "bind"}),
                             "continuation_anchor_mismatch")
                        \union Anchors("bind", Only(ev, Source(n)), "continuation_anchor_mismatch")
OutcomeCompletes(ev) ==
  Follows("souto", ev, "complete_runner", "outcome_not_complete_runner")
  \union Anchors("souto", ev, "outcome_target_checksum_mismatch")

CompletionTable == <<
  << {"outcome_not_complete_runner", "outcome_target_checksum_mismatch"},
     "refresh_controlled_runner_stage_outcome_plan" >>,
  << {"closeout_not_completed", "closeout_checksum_mismatch"}, "refresh_controlled_runner_stage_closeout" >>,
  << {"execution_not_completed"}, "refresh_controlled_runner_stage_execution" >> >>

Completion(ev, n) ==
  RetryReply("done", n, Chain(ev) \union OutcomeCompletes(ev) \union CloseoutCompleted(ev)
                        \union ExecutionCompleted(ev) \union ExecutionAnchors(ev) \union ContinuationAnchors(ev, n),
             Accepted("review_controlled_runner_completion", ev, n, "completed"),
             CompletionTable, "inspect_controlled_runner_completion_blockers")

------------------------------------------------------------------------------
(* controlled-loop-runner-stage-retry-plan and -approval                    *)

OutcomeRetryable_Unanchored(ev) ==    \* mutant: the outcome's own closeout and execution are not compared
  LET o == At("souto", ev["souto"]) IN
  When(~o.ok \/ o.next \notin {"inspect_stage_failure", "inspect_stage_blocked"}, "outcome_not_retryable")
OutcomeRetryable(ev) ==
  LET o == At("souto", ev["souto"]) IN
  When(~o.ok \/ o.next \notin {"inspect_stage_failure", "inspect_stage_blocked"}, "outcome_not_retryable")
  \union Anchors("souto", ev, "retry_planning_target_mismatch")
CloseoutRetryable(ev) ==
  When(At("close", ev["close"]).status # At("souto", ev["souto"]).status, "closeout_status_mismatch")
  \union Anchors("close", ev, "closeout_checksum_mismatch")

\* It must have run; if its closeout says that it failed it must say so too; and
\* it must have an exit code to fail with, as none has that ran out of time.
ExecutionRetryable(ev) ==
  LET e == At("exec", ev["exec"]) IN
  When(~e.ok \/ e.status \notin {"completed", "failed"}, "execution_not_executed")
  \union When(At("close", ev["close"]).status = "failed" /\ e.status # "failed",
              "execution_closeout_status_mismatch")
  \union When(e.ok /\ e.exit = "late", "command_result_status_mismatch")
RetryContinuation(ev, n) ==
  IF n = 1 THEN {} ELSE Usable("cont", ev, "continuation_not_selected")
                        \union Anchors("cont", Only(ev, Source(n)), "continuation_checksum_mismatch")
RetryBinding(ev, n) ==
  IF n = 1 THEN {} ELSE Usable("bind", ev, "stage_input_binding_not_bound")
                        \union Anchors("bind", Only(ev, Source(n)), "binding_checksum_mismatch")
RetryFrom(ev, n) == RetryContinuation(ev, n) \union RetryBinding(ev, n)

RetryPlanTable == <<
  << {"outcome_not_retryable", "retry_planning_target_mismatch"},
     "refresh_controlled_runner_stage_outcome_plan" >>,
  << {"closeout_status_mismatch", "closeout_checksum_mismatch"}, "refresh_controlled_runner_stage_closeout" >>,
  << {"execution_not_executed"}, "refresh_controlled_runner_stage_execution" >> >>

RetryPlan(ev, n) ==
  RetryReply("retryplan", n, Chain(ev) \union RetryFrom(ev, n) \union OutcomeRetryable(ev)
                             \union CloseoutRetryable(ev) \union ExecutionRetryable(ev)
                             \union Anchors("exec", ev, "execution_checksum_mismatch"),
             Accepted("review_controlled_runner_stage_retry_plan", Only(ev, RetrySource(n)), n, "planned"),
             RetryPlanTable, "inspect_controlled_runner_stage_retry_plan_blockers")

RetryPlanFor(ev, n) ==
  Usable("retryplan", ev, "retry_plan_not_planned") \union OfStage("retryplan", ev, n, "stage_number_mismatch")
  \union Anchors("retryplan", ev, "retry_plan_checksum_mismatch")

RetryApprovalTable == <<
  << {"operator_approval_target_mismatch", "operator_approval_purpose_mismatch",
      "operator_approval_expired"}, "fix_controlled_runner_stage_retry_approval" >>,
  << {"retry_plan_not_planned", "retry_plan_checksum_mismatch"}, "refresh_controlled_runner_stage_retry_plan" >> >>

RetryApproval(ev, n, sign) ==
  RetryReply("rapproval", n, Chain(ev) \union RetryPlanFor(ev, n) \union Verify(sign, "retryplan", ev["retryplan"]),
             Accepted("review_controlled_runner_stage_retry_approval", With(ev, "sign", sign), n, "completed"),
             RetryApprovalTable, "inspect_controlled_runner_stage_retry_approval_blockers")

------------------------------------------------------------------------------
(* controlled-loop-runner-stage-retry-boundary and -execute                 *)

RetryOperator(ev) == Verify(At("rapproval", ev["rapproval"]).has["sign"], "retryplan", ev["retryplan"])
RetryApprovalFor(ev, n) ==
  Usable("rapproval", ev, "retry_approval_not_completed") \union OfStage("rapproval", ev, n, "stage_number_mismatch")
  \union Anchors("rapproval", ev, "retry_approval_checksum_mismatch")
  \union IF At("rapproval", ev["rapproval"]).ok THEN RetryOperator(ev) ELSE {}

\* The task's approval is the one under which the stage itself was executed.
RetryContext(ev, n) ==
  IF n = 1 THEN {} ELSE TaskApproved(ev, n, At("stapproval", At("exec", ev["exec"]).has["stapproval"]).task)

RetryUpstream(ev, n) ==
  Chain(ev) \union RetryPlanFor(ev, n) \union RetryApprovalFor(ev, n) \union RetryContext(ev, n)

RetryBoundaryTable == <<
  << {"retry_approval_not_completed", "operator_approval_expired"}, "refresh_controlled_runner_stage_retry_approval" >>,
  << {"retry_plan_not_planned"}, "refresh_controlled_runner_stage_retry_plan" >> >>

\* The operator gives the retry an output file, which must be new, and its terms.
RetryBoundary(ev, n, file, terms) ==
  RetryReply("rbdry", n, RetryUpstream(ev, n) \union When(file \in there, "output_file_already_exists"),
             With(With(Accepted("review_controlled_runner_stage_retry_boundary", ev, n, "completed"),
                       "file", file), "terms", terms),
             RetryBoundaryTable, "inspect_controlled_runner_stage_retry_boundary_blockers")

RetryBoundaryFor(ev, n) ==
  Usable("rbdry", ev, "retry_boundary_not_completed") \union OfStage("rbdry", ev, n, "stage_number_mismatch")
  \union Anchors("rbdry", ev, "retry_boundary_checksum_mismatch")
OutputOf(ev) == At("rbdry", ev["rbdry"]).file

\* A retry goes by the checksum of what its boundary says: the stage, the retry
\* attempt 1, the output file and the terms; not the packets that led to it.
Key(ev, n) == <<n, OutputOf(ev), At("rbdry", ev["rbdry"]).terms>>

\* Recorded in the audit log, or reserved: this retry was started before.
AlreadyStarted_AuditOnly(ev, n) ==
  When(torn, "audit_history_invalid")
  \union When(\E a \in audit : a[1] = "rexec" /\ Key(At("rexec", a[2]).has, At("rexec", a[2]).epoch) = Key(ev, n),
              "already_recorded")
AlreadyStarted(ev, n) ==
  When(torn, "audit_history_invalid")
  \union When(\E a \in audit : a[1] = "rexec" /\ Key(At("rexec", a[2]).has, At("rexec", a[2]).epoch) = Key(ev, n),
              "already_recorded")
  \union When(Key(ev, n) \in reserved, "reservation_already_exists")

\* Checked once, and again under the lock with the reservation that follows.
RetryExecute(ev, n) ==
  /\ RetryUpstream(ev, n) \union RetryBoundaryFor(ev, n) \union AlreadyStarted(ev, n) = {}
  /\ OutputOf(ev) \notin there
  /\ reserved' = reserved \union {Key(ev, n)} /\ retried' = retried \union {Key(ev, n)}
  /\ Runs([kind |-> "rexec", n |-> n, files |-> ev,
           try |-> Cardinality({j \in busy : j.files = ev})])
  /\ UNCHANGED <<extra, there>>

\* The process cannot be started after all: the reservation is given back.
RetryNotStarted(job) ==
  /\ job.kind = "rexec" /\ extra < MaxExtra /\ extra' = extra + 1
  /\ busy' = busy \ {job} /\ reserved' = reserved \ {Key(job.files, job.n)}
  /\ retried' = retried \ {Key(job.files, job.n)}
  /\ UNCHANGED <<shelf, lapsed, audit, torn, printed, starter, there>>

\* The output is written to a new file, unless a retry by another boundary has
\* made it meanwhile.
RetryDone(job, exit, epoch) ==
  /\ job.kind = "rexec" /\ (exit = "in_order" => Succeeds(job, epoch))
  /\ Done(job, exit, epoch, "rexec", OutputOf(job.files) \notin there)
  /\ there' = there \union {OutputOf(job.files)} /\ UNCHANGED <<reserved, retried>>

\* Somebody removes the output file of a retry: its name may be used again.
RetryOutputRemoved(file) ==
  /\ extra < MaxExtra /\ extra' = extra + 1
  /\ there' = there \ {file}
  /\ printed' = {p \in printed : p[1] # "rexec" \/ OutputOf(At("rexec", p[2]).has) # file}
  /\ UNCHANGED <<shelf, lapsed, audit, torn, busy, starter, reserved, retried>>

------------------------------------------------------------------------------
(* controlled-loop-runner-stage-retry-closeout and -outcome-plan            *)

\* A retry that was blocked after it ran can be closed out, as blocked, if it is
\* recorded; other than that of a stage, a closeout that is itself blocked is of no
\* use to the plan.
RetryExecutionFor(ev, n) ==
  OfStage("rexec", ev, n, "stage_number_mismatch") \union Anchors("rexec", ev, "retry_execution_checksum_mismatch")
  \union When(<<"rexec", ev["rexec"]>> \notin audit, "retry_execution_not_terminal")
RetryOutput(ev) == OutputBlockers("rexec", ev)

RetryCloseoutTable == <<
  << {"retry_execution_not_terminal", "retry_execution_checksum_mismatch"},
     "inspect_controlled_runner_stage_retry_execution" >> >>

RetryCloseout(ev, n) ==
  RetryReply("rclose", n, RetryUpstream(ev, n) \union RetryBoundaryFor(ev, n) \union RetryExecutionFor(ev, n)
                          \union RetryOutput(ev),
             Accepted("plan_controlled_runner_stage_retry_outcome", ev, n, At("rexec", ev["rexec"]).status),
             RetryCloseoutTable, "inspect_controlled_runner_stage_retry_closeout")

\* Whatever the retry came to, there is no second one.
RetryDecision(status, n) ==
  IF status = "completed" THEN IF n < Total THEN "select_next_stage_after_retry" ELSE "complete_runner_after_retry"
  ELSE "inspect_stage_retry_" \o status

RetryOutcomeTable == <<
  << {"retry_closeout_checksum_mismatch"}, "refresh_controlled_runner_stage_retry_closeout" >> >>

RetryOutcome(ev, n) ==
  LET status == At("rclose", ev["rclose"]).status IN
  RetryReply("routcome", n, RetryUpstream(ev, n) \union RetryBoundaryFor(ev, n) \union RetryExecutionFor(ev, n)
                            \union Usable("rclose", ev, "retry_closeout_not_closed_out")
                            \union Anchors("rclose", ev, "retry_closeout_checksum_mismatch"),
             Accepted(RetryDecision(status, n), ev, n, status), RetryOutcomeTable,
             "inspect_controlled_runner_stage_retry_outcome_plan_blockers")

\* The retry's outcome, closeout and execution, and those of the stage.
PostRetry(ev, action) ==
  Follows("routcome", ev, action, "retry_outcome_not_completed")
  \union When(At("rclose", ev["rclose"]).status # "completed", "retry_closeout_not_completed")
PostRetryAnchors(ev) ==
  Anchors("routcome", ev, "retry_outcome_target_checksum_mismatch")
  \union Anchors("rclose", ev, "retry_closeout_checksum_mismatch")
  \union When(At("rexec", ev["rexec"]).status # "completed", "retry_execution_not_completed")

ContinuationFromRetry(ev, n) ==
  RetryReply("cont", n + 1, Chain(ev) \union PostRetry(ev, "select_next_stage_after_retry")
                            \union PostRetryAnchors(ev),
             Accepted("generalize_controlled_runner_stage_execution_readiness_for_continuation",
                      Only(ev, Base \union {"souto", "close", "exec", "routcome", "rclose", "rexec"}),
                      n + 1, "selected"),
             ContinuationTable, "inspect_controlled_runner_next_stage_continuation_blockers")

CompletionFromRetry(ev, n) ==
  RetryReply("done", n, Chain(ev) \union PostRetry(ev, "complete_runner_after_retry") \union PostRetryAnchors(ev)
                        \union ContinuationAnchors(ev, n),
             Accepted("review_controlled_runner_completion", ev, n, "completed"),
             CompletionTable, "inspect_controlled_runner_completion_blockers")

------------------------------------------------------------------------------
RetryInit == StageInit /\ reserved = {} /\ retried = {} /\ there = {}

\* What the commands after an outcome, and those of a retry, are given.
Settled(n) == RetrySource(n) \ {"souto"}
RetryBounded(n) == RetrySource(n) \union {"retryplan", "rapproval", "rbdry"}
RetryExecuted(n) == RetryBounded(n) \union {"rexec"}
RetryEnded(n) == RetrySource(n) \union {"rclose", "rexec"}

RetryNext ==
  \/ StageNext /\ UNCHANGED kept
  \/ \E f \in Files("souto", "cont", Settled) :
       f.n < Total /\ Continuation(Only(f.ev, RetrySource(1)), f.n)
  \/ \E f \in Files("souto", "done", Settled) : Completion(f.ev, f.n)
  \/ \E f \in Files("souto", "retryplan", Settled) : RetryPlan(f.ev, f.n)
  \/ \E f \in Files("cont", "bind", RetrySource) : InputBinding(f.ev, f.n)
  \/ \E f \in Files("retryplan", "rapproval", RetrySource), sign \in Versions("sign") :
       RetryApproval(f.ev, f.n, sign)
  \/ \E f \in Files("rapproval", "rbdry", RetryBounded), file \in RetryFiles, terms \in RetryTerms :
       RetryBoundary(f.ev, f.n, file, terms)
  \/ \E b \in Versions("rbdry") : \E ev \in Given("rbdry", b, RetryBounded(StageOf("rbdry", b))) :
       RetryExecute(ev, StageOf("rbdry", b))
  \/ \E job \in busy :
       \/ RetryNotStarted(job)
       \/ \E exit \in Exits, epoch \in BOOLEAN : RetryDone(job, exit, epoch)
  \/ \E file \in there : RetryOutputRemoved(file)
  \/ \E f \in Files("rexec", "rclose", RetryBounded) : RetryCloseout(f.ev, f.n)
  \/ \E f \in Files("rclose", "routcome", RetryExecuted) : RetryOutcome(f.ev, f.n)
  \/ \E f \in Files("routcome", "cont", RetryEnded) : f.n < Total /\ ContinuationFromRetry(f.ev, f.n)
  \/ \E f \in Files("routcome", "done", RetryEnded) : CompletionFromRetry(f.ev, f.n)

------------------------------------------------------------------------------
(* Properties                                                               *)

StagesTypeOK ==
  /\ reserved \subseteq (1 .. Total) \X RetryFiles \X RetryTerms /\ there \subseteq RetryFiles
  /\ \A job \in busy : job.kind \in {"exec", "rexec"} /\ job.n \in 1 .. Total
  /\ \A p \in printed : p[2] \in Versions(p[1])

\* For every stage the packets of a line are one of each kind; what an operator
\* signed, kind "sign", is no one packet.
OnePerStage(line) ==
  \A p, q \in line :
    p[1] = q[1] /\ p[1] # "sign" /\ At(p[1], p[2]).epoch = At(q[1], q[2]).epoch => p = q

\* A completed runner rests, for every stage, on one packet of each kind,
\* whatever was repeated, retried or read from another file on the way.
OneStageLine ==
  \A v \in Versions("done") : At("done", v).ok => OnePerStage(At("done", v).line)

\* Whatever files the operator names, no process is run, for the first time or
\* again, on packets of two lines: the closeout and the outcome for which a stage
\* is retried are those of the execution that is tried again, though every
\* command is given each of them as a file and compares some of them only.
RunsOnOneLine == \A job \in busy : OnePerStage(Lineage(job.files))

\* A retry is run at most once by what its boundary says, whoever repeats the
\* command at the same time, and whether or not the first one lived to record it.
\* A boundary with another output file or other terms is another retry.
RetriedOnce ==
  [][\A job \in busy' \ busy : job.kind = "rexec" => Key(job.files, job.n) \notin retried]_rtvars

\* A stage is run, and retried, only while every signature on it still holds: the
\* one on the stage or its retry and, for stage 2, the one on its task.
StageApprovalOf(job) ==
  At("stapproval", (IF job.kind = "exec" THEN job.files ELSE At("exec", job.files["exec"]).has)["stapproval"])
SignaturesOn(job) ==
  {IF job.kind = "exec" THEN StageApprovalOf(job).has["sign"]
                        ELSE At("rapproval", job.files["rapproval"]).has["sign"]}
  \union IF job.n = 1 THEN {} ELSE {StageApprovalOf(job).task}
RunWhileApproved ==
  [][\A job \in busy' \ busy : SignaturesOn(job) \intersect lapsed = {}]_rtvars

\* A runner completes on the very execution that started the epoch, though an
\* execution that failed, or was never heard of, may have started it too.
CompletedByStarter ==
  \A v \in Versions("done") : At("done", v).ok /\ At("done", v).epoch = 2 =>
    LET has == At("done", v).has IN
    starter = IF "rexec" \in DOMAIN has THEN <<"rexec", has["rexec"]>> ELSE <<"exec", has["exec"]>>

\* What docs/protocol.md says of the plan of a failed stage: it names what is to
\* be retried, so a retry plan finds the failed execution fit for that.
FailedStageMayBeRetried ==
  \A o \in Versions("souto") :
    At("souto", o).ok /\ At("souto", o).next = "inspect_stage_failure" =>
      ExecutionRetryable(At("souto", o).has) = {}
=============================================================================
