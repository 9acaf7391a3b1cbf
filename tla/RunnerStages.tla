----------------------------- MODULE RunnerStages -----------------------------
(***************************************************************************)
(* The stages of a started controlled runner (cli.py).  A stage that is    *)
(* selected is found ready, approved, given a boundary, executed, closed   *)
(* out, and its outcome planned: the next stage is selected and bound to   *)
(* what this one printed, or the runner is complete, or the stage is to be *)
(* retried (StageRetry).  Stage 1 makes a loop-run plan; stage 2 starts    *)
(* the governed execution, and so an epoch.                                *)
(*                                                                         *)
(* The field epoch of a packet is here the number of its stage.  What an   *)
(* operator signs for stage 2 is, besides its readiness, the executor task *)
(* that stage 1 printed: a signature of its execution.                     *)
(***************************************************************************)
EXTENDS ControlledRunner

CONSTANT Total    \* the stages of the runner plan
ASSUME TotalAssumption == Total \in 1 .. 2

VARIABLES
  busy,      \* the processes that run: their kind, stage, files given, and try
  printed,   \* the executions <<kind, version>> whose output file is as they wrote it
  starter    \* what started the epoch: <<boundary's kind, version>>, or << >>

svars == <<shelf, extra, lapsed, audit, torn, busy, printed, starter>>

StageKinds == {"xready", "stapproval", "bdry", "exec", "close", "souto", "cont", "bind", "done"}
Base == {"started", "rplan", "dryrun"}

\* The files of these kinds that a command is given: those that the last packet
\* names, or one of them another of its kind.
Only(ev, kinds) == [k \in DOMAIN ev \intersect kinds |-> ev[k]]
Given(kind, v, kinds) ==
  LET has == At(kind, v).has
      own == With(Only(has, kinds), kind, v)
      named == DOMAIN has \intersect kinds
  IN
  IF named = {} THEN {}
  ELSE {own} \union UNION {{[own EXCEPT ![k] = w] : w \in Versions(k)} : k \in named}

\* Every packet names files and checksums of those it rests on: those given.
Anchors(kind, ev, code) ==
  LET has == At(kind, ev[kind]).has IN
  When(\E k \in (DOMAIN has \intersect DOMAIN ev) \ {"sign"} : has[k] # ev[k], code)
Usable(kind, ev, code) == When(~At(kind, ev[kind]).ok, code)
OfStage(kind, ev, n, code) == When(At(kind, ev[kind]).epoch # n, code)

\* The first packet of its kind of a stage is no extra.
StageFirst(kind, n) == \A v \in Versions(kind) : At(kind, v).epoch # n
Room(kind, n) == extra < MaxExtra \/ StageFirst(kind, n)
StageIssue(kind, n, packet) ==
  /\ Room(kind, n)
  /\ extra' = extra + IF packet.ok /\ StageFirst(kind, n) THEN 0 ELSE 1
  /\ extra' <= MaxExtra
  /\ shelf' = Place(kind, packet)
StageReply(kind, n, codes, accepted, table, other) ==
  /\ StageIssue(kind, n, IF codes = {} THEN accepted
                         ELSE [Blocked(Recommend(codes, "", table, other)) EXCEPT !.epoch = n])
  /\ UNCHANGED <<lapsed, audit, torn, busy, printed, starter>>

\* Every command validates the runner's own packets again.
Chain(ev) == NextStageChain(ev["started"], ev["rplan"], ev["dryrun"])

------------------------------------------------------------------------------
(* Which stage: the first as selected, a later one as continued and bound   *)

InitialBlockers(ev) ==
  Usable("stage", ev, "next_stage_not_selected") \union Anchors("stage", ev, "next_stage_checksum_mismatch")

ContinuationBlockers(ev, n) ==
  Usable("cont", ev, "continuation_not_selected") \union OfStage("cont", ev, n, "continuation_stage_mismatch")
  \union Anchors("cont", ev, "continuation_checksum_mismatch")

BindingBlockers(ev, n) ==
  Usable("bind", ev, "stage_input_binding_not_bound")
  \union OfStage("bind", ev, n, "stage_input_binding_stage_mismatch")
  \union Anchors("bind", ev, "stage_input_binding_checksum_mismatch")

\* What a stage rests on: not how an earlier one came about.
Source(n) == Base \union IF n = 1 THEN {"stage"} ELSE {"cont", "bind"}

Selection(ev, n) ==
  LET from == Only(ev, Source(n)) IN
  IF n = 1 THEN InitialBlockers(from) ELSE ContinuationBlockers(from, n) \union BindingBlockers(from, n)

Readied(n) == Source(n) \union {"xready"}
Approved(n) == Readied(n) \union {"stapproval"}
Bounded(n) == Approved(n) \union {"bdry"}
Executed(n) == Bounded(n) \union {"exec"}

\* controlled-loop-runner-stage-execution-readiness
StageReadyTable == <<
  << {"next_stage_not_selected", "next_stage_checksum_mismatch"}, "refresh_controlled_runner_next_stage" >>,
  << {"continuation_not_selected", "continuation_stage_mismatch", "continuation_checksum_mismatch"},
     "refresh_controlled_runner_next_stage_continuation" >>,
  << {"stage_input_binding_not_bound", "stage_input_binding_stage_mismatch",
      "stage_input_binding_checksum_mismatch"}, "refresh_controlled_runner_stage_input_binding" >>,
  << {"controlled_runner_next_stage_start_not_started",
      "controlled_runner_next_stage_start_boundary_unrecorded"}, "refresh_controlled_runner_start" >> >>

StageReadiness(ev, n) ==
  StageReply("xready", n, Chain(ev) \union Selection(ev, n),
             Accepted("review_controlled_runner_stage_execution_readiness", ev, n, "ready"),
             StageReadyTable, "inspect_controlled_runner_stage_execution_readiness_blockers")

------------------------------------------------------------------------------
(* controlled-loop-runner-stage-execution-approval                          *)

\* The readiness is derived again from what it rests on and must be the same.
ReadinessEnvelope(ev, n) ==
  Usable("xready", ev, "readiness_not_ready") \union OfStage("xready", ev, n, "readiness_envelope_mismatch")
ReadinessAnchors_Unread(ev) == {}
ReadinessAnchors(ev) == Anchors("xready", ev, "readiness_checksum_mismatch")
StageReadyFor(ev, n) == ReadinessEnvelope(ev, n) \union ReadinessAnchors(ev)

\* The task that stage 1 printed, as the binding embeds it.
TaskOf(ev) == At("bind", ev["bind"]).has["exec"]
TaskApproved(ev, n, m) ==
  IF n = 1 \/ ~At("bind", ev["bind"]).ok THEN {}
  ELSE IF m = 0 THEN {"governed_task_approval_missing"} ELSE Verify(m, "exec", TaskOf(ev))

StageApprovalTable == <<
  << {"operator_approval_target_mismatch", "operator_approval_purpose_mismatch",
      "operator_approval_expired"}, "fix_controlled_runner_stage_execution_approval" >>,
  << {"continuation_not_selected", "continuation_checksum_mismatch"},
     "refresh_controlled_runner_next_stage_continuation" >>,
  << {"stage_input_binding_not_bound", "stage_input_binding_checksum_mismatch"},
     "refresh_controlled_runner_stage_input_binding" >>,
  << {"readiness_not_ready", "readiness_checksum_mismatch"},
     "refresh_controlled_runner_stage_execution_readiness" >> >>

\* m is the approval of the task; the first stage has none.
StageApproval(ev, n, sign, m) ==
  StageReply("stapproval", n, Chain(ev) \union Selection(ev, n) \union StageReadyFor(ev, n)
                              \union Verify(sign, "xready", ev["xready"]) \union TaskApproved(ev, n, m),
             With(Accepted("review_controlled_runner_stage_execution_approval", With(ev, "sign", sign), n, "completed"),
                  "task", m),
             StageApprovalTable, "inspect_controlled_runner_stage_execution_approval_blockers")

------------------------------------------------------------------------------
(* controlled-loop-runner-stage-invocation-boundary                         *)

\* The operator's file is read and verified again against the same target.
StageOperator(ev) == Verify(At("stapproval", ev["stapproval"]).has["sign"], "xready", ev["xready"])

ApprovalEnvelope(ev, n) ==
  Usable("stapproval", ev, "approval_not_completed") \union OfStage("stapproval", ev, n, "stage_number_mismatch")
ApprovalAnchors(ev) == Anchors("stapproval", ev, "approval_checksum_mismatch")
ApprovalFor(ev, n) ==
  ApprovalEnvelope(ev, n) \union ApprovalAnchors(ev)
  \union IF At("stapproval", ev["stapproval"]).ok THEN StageOperator(ev) ELSE {}

\* Stage 2: the task file, and the approval of the task, are read again.
GovernedContext(ev, n) ==
  IF n = 1 \/ ~At("stapproval", ev["stapproval"]).ok THEN {}
  ELSE TaskApproved(ev, n, At("stapproval", ev["stapproval"]).task)

BoundaryTable == <<
  << {"approval_not_completed", "approval_checksum_mismatch", "operator_approval_expired"},
     "refresh_controlled_runner_stage_execution_approval" >>,
  << {"readiness_not_ready", "readiness_checksum_mismatch"},
     "refresh_controlled_runner_stage_execution_readiness" >> >>

Upstream(ev, n) == Chain(ev) \union Selection(ev, n) \union StageReadyFor(ev, n) \union ApprovalFor(ev, n)
                   \union GovernedContext(ev, n)

InvocationBoundary(ev, n) ==
  StageReply("bdry", n, Upstream(ev, n),
             Accepted("review_controlled_runner_stage_invocation_boundary", ev, n, "completed"),
             BoundaryTable, "inspect_controlled_runner_stage_invocation_boundary_blockers")

------------------------------------------------------------------------------
(* controlled-loop-runner-stage-execute                                     *)

BoundaryEnvelope(ev, n) ==
  Usable("bdry", ev, "boundary_not_completed") \union OfStage("bdry", ev, n, "stage_number_mismatch")
BoundaryAnchors(ev) == Anchors("bdry", ev, "boundary_checksum_mismatch")
BoundaryFor(ev, n) == BoundaryEnvelope(ev, n) \union BoundaryAnchors(ev)

\* All is checked once more, and the process is run; nothing keeps a second
\* command from running the same boundary.  A refusal leaves nothing to use.
Runs(job) ==
  /\ busy' = busy \union {job}
  /\ UNCHANGED <<shelf, lapsed, audit, torn, printed, starter>>
Repeats(kind, ev) ==
  \/ \E j \in busy : j.files = ev
  \/ \E v \in Versions(kind) : At(kind, v).has = ev
StageExecute(ev, n) ==
  /\ Upstream(ev, n) \union BoundaryFor(ev, n) = {}
  /\ extra' = extra + IF Repeats("exec", ev) THEN 1 ELSE 0
  /\ extra' <= MaxExtra
  /\ Runs([kind |-> "exec", n |-> n, files |-> ev, try |-> extra'])

\* What the process did.  start-governed-execution starts an epoch if there is
\* none, whether or not it is then in time to say so.
Effect(job, from, epoch) ==
  /\ epoch => job.n = 2 /\ starter = <<>>
  /\ starter' = IF epoch THEN from ELSE starter
Succeeds(job, epoch) == job.n = 2 => epoch

\* completed: in time, exit 0 and a packet that says what it was allowed to do;
\* failed: another exit code, or out of time; blocked: printed something else.
ExecStatus_NoExitCode(exit, epoch, job) ==    \* mutant: no exit code counts as none that is bad
  IF exit \in {"in_order", "late"} THEN "completed" ELSE "failed"
ExecStatus(exit, epoch, job) ==
  IF exit = "in_order" /\ Succeeds(job, epoch) THEN "completed" ELSE "failed"
Exits == {"in_order", "nonzero", "late", "undeclared"}

\* The execution is printed, and its audit record appended; without the record, or
\* if its output is not written, it is blocked, though it ran.  What is written is
\* no longer as an execution of the same files left it.
Done(job, exit, epoch, kind, written) ==
  LET v == Len(shelf[kind]) + 1
      said == IF exit = "undeclared" \/ torn \/ ~written THEN "blocked" ELSE ExecStatus(exit, epoch, job)
      as_left == {p \in printed : p[1] # kind \/ At(kind, p[2]).has # job.files}
  IN
  /\ shelf' = Place(kind, With([Accepted(IF said = "blocked" THEN "inspect" ELSE "closeout", job.files, job.n, said)
                                  EXCEPT !.ok = said # "blocked"], "exit", exit))
  /\ audit' = IF torn THEN audit ELSE audit \union {<<kind, v>>}
  /\ printed' = IF written THEN as_left \union {<<kind, v>>} ELSE printed
  /\ Effect(job, <<kind, v>>, epoch)
  /\ busy' = busy \ {job}
  /\ extra' = extra + (IF exit = "in_order" /\ ~torn THEN 0 ELSE 1) /\ extra' <= MaxExtra
  /\ UNCHANGED <<lapsed, torn>>

\* The first try of a stage writes over the file that is there.
StageDone(job, exit, epoch) ==
  job.kind = "exec" /\ (exit = "in_order" => Succeeds(job, epoch)) /\ Done(job, exit, epoch, "exec", TRUE)

\* The command dies with its process: whatever was done, nothing is printed.
Dies(job, epoch) ==
  /\ extra < MaxExtra /\ extra' = extra + 1
  /\ busy' = busy \ {job} /\ Effect(job, <<job.kind, 0>>, epoch)
  /\ UNCHANGED <<shelf, lapsed, audit, torn, printed>>

\* Somebody removes the output file of an execution, or writes over it.
OutputLost ==
  /\ extra < MaxExtra /\ extra' = extra + 1
  /\ \E p \in printed : printed' = printed \ {p}
  /\ UNCHANGED <<shelf, lapsed, audit, torn, busy, starter>>

------------------------------------------------------------------------------
(* controlled-loop-runner-stage-closeout                                    *)

ExecutionEnvelope(ev, n) ==
  Usable("exec", ev, "execution_not_valid") \union OfStage("exec", ev, n, "stage_number_mismatch")
ExecutionAnchors(ev) == Anchors("exec", ev, "execution_checksum_mismatch")
ExecutionFor(ev, n) == ExecutionEnvelope(ev, n) \union ExecutionAnchors(ev)

\* The output file still holds what the process printed.
OutputBlockers(kind, ev) == When(<<kind, ev[kind]>> \notin printed, "stage_output_mismatch")

CloseoutStatus(ev, codes) == IF codes # {} THEN "blocked" ELSE At("exec", ev["exec"]).status

\* A blocked closeout names what it closes as well, and is read by the plan.
Closed(ev, n, codes) ==
  LET status == CloseoutStatus(ev, codes) IN
  [Accepted("plan_" \o status, ev, n, status) EXCEPT !.ok = status # "blocked"]

\* mistaken: the operator names another output file, secret, operator or root than
\* those of the execution.  That blocks any command; but only what a blocked
\* closeout prints is read by another.
StageCloseout(ev, n, mistaken) ==
  /\ StageIssue("close", n, Closed(ev, n, Upstream(ev, n) \union BoundaryFor(ev, n) \union ExecutionFor(ev, n)
                                          \union OutputBlockers("exec", ev)
                                          \union When(mistaken, "stage_output_file_mismatch")))
  /\ UNCHANGED <<lapsed, audit, torn, busy, printed, starter>>

------------------------------------------------------------------------------
(* controlled-loop-runner-stage-outcome-plan                                *)

\* The last stage of a continuation is the runner's last.
Decision(status, n) ==
  IF status = "failed" THEN "inspect_stage_failure"
  ELSE IF status = "blocked" THEN "inspect_stage_blocked"
  ELSE IF n < Total THEN "select_next_stage" ELSE "complete_runner"

CloseoutEnvelope(ev, n) == OfStage("close", ev, n, "stage_number_mismatch")
CloseoutAnchors(ev) == Anchors("close", ev, "closeout_checksum_mismatch")

OutcomeTable == <<
  << {"closeout_checksum_mismatch"}, "refresh_controlled_runner_stage_closeout" >>,
  << {"execution_not_valid", "execution_checksum_mismatch"}, "inspect_controlled_runner_stage_execution" >> >>

\* The output file is not read again, all the rest is checked once more.
StageOutcome(ev, n) ==
  LET status == At("close", ev["close"]).status IN
  StageReply("souto", n, Upstream(ev, n) \union BoundaryFor(ev, n) \union ExecutionFor(ev, n)
                         \union CloseoutEnvelope(ev, n) \union CloseoutAnchors(ev),
             Accepted(Decision(status, n), ev, n, status), OutcomeTable,
             "inspect_controlled_runner_stage_outcome_plan_blockers")

------------------------------------------------------------------------------
StageInit == busy = {} /\ printed = {} /\ starter = <<>>

StageOf(kind, v) == At(kind, v).epoch

\* The files that the command which prints the kind after this one may be given.
Files(kind, next, kinds(_)) ==
  UNION {{[n |-> StageOf(kind, v), ev |-> ev] : ev \in Given(kind, v, kinds(StageOf(kind, v)))} :
         v \in {v \in Versions(kind) : Room(next, StageOf(kind, v))}}

StageNext ==
  \/ \E kind \in {"stage", "bind"} : \E f \in Files(kind, "xready", Source) : StageReadiness(f.ev, f.n)
  \/ \E f \in Files("xready", "stapproval", Source), sign \in Versions("sign"),
        m \in {0} \union Versions("sign") : (f.n = 1 <=> m = 0) /\ StageApproval(f.ev, f.n, sign, m)
  \/ \E f \in Files("stapproval", "bdry", Readied) : InvocationBoundary(f.ev, f.n)
  \/ \E b \in Versions("bdry") : \E ev \in Given("bdry", b, Approved(StageOf("bdry", b))) :
       StageExecute(ev, StageOf("bdry", b))
  \/ \E job \in busy, epoch \in BOOLEAN : Dies(job, epoch) \/ \E exit \in Exits : StageDone(job, exit, epoch)
  \/ OutputLost
  \/ \E f \in Files("exec", "close", Bounded), mistaken \in BOOLEAN : StageCloseout(f.ev, f.n, mistaken)
  \/ \E f \in Files("close", "souto", Executed) : StageOutcome(f.ev, f.n)
=============================================================================
