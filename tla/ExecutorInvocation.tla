-------------------------- MODULE ExecutorInvocation --------------------------
(***************************************************************************)
(* Starting a real executor and binding what it did to the epoch:          *)
(* executor-invocation-readiness, executor-invocation-plan,                *)
(* invoke-real-executor and closeout-executor-result with an invocation    *)
(* file (executor_invocation.py, cli.py, epochs.py).                       *)
(*                                                                         *)
(* No lock is held from the recheck of the plan to the audit record of the *)
(* invocation: what two commands do in between interleaves, and either may *)
(* die at any step.  The audit log orders them: an approval names the head *)
(* of the log, and only the record that comes right after that head can be *)
(* closed out.                                                             *)
(***************************************************************************)
EXTENDS ExecutorReadiness

CONSTANTS
  Procs,        \* command processes
  Invocations,  \* invocation ids
  MaxIssues,    \* bound: readiness and plan packets made
  MaxApprovals, \* bound: targets an operator signs
  MaxCloseouts, \* bound: closeouts begun
  MaxTrouble,   \* bound: changes by somebody else, failed appends and crashes
  Troubles,     \* which of those occur
  Outcomes      \* what an executor may do: its evidence, the files, its exit

ASSUME InvocationAssumption ==
  /\ {MaxIssues, MaxApprovals, MaxCloseouts, MaxTrouble} \subseteq Nat
  /\ \A o \in Outcomes :
       /\ o.status \in {"nothing", "succeeded", "stopped", "malformed"} /\ o.claims \in BOOLEAN
       /\ o.left \in {"nothing", "files", "commit"} /\ o.end \in {"zero", "nonzero", "timeout"}

VARIABLES
  world,      \* what ExecutorReadiness looks at
  result,     \* the file at the result path
  readiness,  \* the readiness packet file
  plan,       \* the plan packet file
  approved,   \* the targets an operator has signed
  records,    \* real-executor-invocations/<id>.json
  ended,      \* the epoch file, once terminal: "none", "completed", "failed"
  pc, job,    \* each process: where it is, and what it holds in memory
  orphans,    \* executors whose parent process has died
  issued,     \* packets made so far
  closeouts,  \* closeouts begun so far
  trouble,    \* troubles so far
  crashed,    \* has a process died?
  credits,    \* the invocations whose result was credited to the epoch
  told,       \* those of which a command said that the audit must be recovered
  overlap     \* pairs of invocations that were under way at the same time

docs == <<readiness, plan, approved, issued, closeouts>>
ghosts == <<credits, told, overlap, crashed>>
ivars == <<world, result, records, ended, pc, job, orphans, trouble, docs, ghosts>>

None == [kind |-> "none"]
NoJob == [inv |-> None]

\* One active epoch with the task and at most one other, a clean checkout, and
\* either an ownership record or the runner's packet.
FreshTask == [id |-> "t1", ver |-> 1, path |-> "here", branch |-> "b", head |-> 0,
              wrong |-> "none", checks |-> "some", allowMain |-> FALSE,
              resultPath |-> "inside"]
Owned == [state |-> "active", id |-> "o1", task |-> "t1", branch |-> "b", head |-> 0,
          epoch |-> "e1", stale |-> FALSE]
Bridged == [given |-> TRUE, wanted |-> "v1", ver |-> "v1", ready |-> TRUE, quiet |-> TRUE,
            task |-> 1, epoch |-> "e1", path |-> "inside"]

FirstWorld(bridge, others) ==
  [brake |-> "DRIVE", clean |-> TRUE, log |-> <<>>, old |-> {}, task |-> FreshTask,
   repo |-> [seen |-> TRUE, path |-> "here", branch |-> "b", head |-> 0, dirty |-> FALSE],
   epochs |-> {[id |-> "e1", branch |-> "b", tasks |-> [t \in {"t1"} \union others |-> 1],
                done |-> {}]},
   owner |-> IF bridge.given THEN [Owned EXCEPT !.state = "none", !.id = "none"] ELSE Owned,
   role |-> "none", bridge |-> bridge, adapter |-> TRUE, rollback |-> TRUE,
   command |-> TRUE]

Init ==
  /\ \E bridge \in {NoBridge, Bridged}, others \in {{}, {"t2"}} :
       world = FirstWorld(bridge, others)
  /\ result = None /\ readiness = None /\ plan = None /\ approved = {}
  /\ records = [i \in {} |-> None] /\ ended = "none"
  /\ pc = [p \in Procs |-> "idle"] /\ job = [p \in Procs |-> NoJob]
  /\ orphans = {} /\ issued = 0 /\ closeouts = 0 /\ trouble = 0 /\ crashed = FALSE
  /\ credits = <<>> /\ told = {} /\ overlap = {}

------------------------------------------------------------------------------
(* The read-only commands                                                   *)

MakeReadiness ==
  /\ issued < MaxIssues /\ issued' = issued + 1
  /\ \E path \in {"none", "inside"} :
       readiness' = Readiness(world, "e1", path, issued)
  /\ world' = [world EXCEPT !.old = @ \ {"readiness"}]
  /\ UNCHANGED <<result, records, ended, pc, job, orphans, trouble, plan, approved, closeouts, ghosts>>

\* An operator signs the target a plan has shown.
Approve ==
  /\ plan # None /\ Cardinality(approved) < MaxApprovals
  /\ approved' = approved \union {plan.target}
  /\ UNCHANGED <<world, result, records, ended, pc, job, orphans, trouble, readiness, plan,
                 issued, closeouts, ghosts>>

MakePlan ==
  /\ readiness # None /\ issued < MaxIssues
  /\ LET made == InvocationPlan(world, readiness, approved, "inside", issued) IN
       plan' = made /\ issued' = IF made.ok THEN issued + 1 ELSE issued
  /\ world' = [world EXCEPT !.old = @ \ {"plan"}]
  /\ UNCHANGED <<result, records, ended, pc, job, orphans, trouble, readiness, approved, closeouts,
                 ghosts>>

------------------------------------------------------------------------------
(* invoke-real-executor                                                     *)

\* Trouble of a kind, within the bound.
Meets(kind) == kind \in Troubles /\ trouble < MaxTrouble /\ trouble' = trouble + 1
AppendFails == IF world.clean THEN Meets("append") ELSE UNCHANGED trouble

Goto(p, step, j) == pc' = [pc EXCEPT ![p] = step] /\ job' = [job EXCEPT ![p] = j]
Exit_KeepsJob(p) == Goto(p, "idle", [job[p] EXCEPT !.inv = None])
Exit(p) == Goto(p, "idle", NoJob)
Live == {job[p].inv : p \in {q \in Procs : pc[q] \in {"armed", "running", "acted"}}}
        \union orphans

PlanInvocable == plan # None /\ plan.ok /\ plan.next = "invoke_real_executor"
                 /\ "plan" \notin world.old

ResultAbsent_NotAsked == TRUE
ResultAbsent == result = None

\* Everything is checked again; what was signed must still be the target, and
\* no result may be there yet.
Recheck(p, mode) ==
  LET again == InvocationPlan(world, readiness, approved, "inside", issued) IN
  /\ pc[p] = "idle" /\ PlanInvocable
  /\ again.ok /\ again.target = plan.target
  /\ ResultAbsent
  /\ \E i \in Invocations \ (DOMAIN records \union Live) :
       /\ Goto(p, "armed", [inv |-> i, mode |-> mode, before |-> world.repo, plan |-> plan,
                            started |-> FALSE, end |-> "none"])
       /\ overlap' = overlap \union ({i} \X Live) \union (Live \X {i})
  /\ UNCHANGED <<world, result, records, ended, orphans, trouble, docs, credits, told, crashed>>

Starts(p) ==
  /\ pc[p] = "armed" /\ Goto(p, "running", [job[p] EXCEPT !.started = TRUE])
  /\ UNCHANGED <<world, result, records, ended, orphans, trouble, docs, ghosts>>

CannotStart(p) ==
  /\ pc[p] = "armed" /\ Goto(p, "acted", [job[p] EXCEPT !.end = "oserror"])
  /\ UNCHANGED <<world, result, records, ended, orphans, trouble, docs, ghosts>>

\* The executor: writes its evidence or not, and leaves the checkout as it
\* was, with changed files, or with another head.
Act(i, status, claims, left) ==
  /\ result' = IF status = "nothing" THEN result
               ELSE [kind |-> "result", by |-> i, status |-> status, claims |-> claims]
  /\ world' = [world EXCEPT !.repo = CASE left = "files" -> [@ EXCEPT !.dirty = TRUE]
                                        [] left = "commit" -> [@ EXCEPT !.head = 1]
                                        [] OTHER -> @]

Runs(p) ==
  /\ pc[p] = "running"
  /\ \E o \in Outcomes :
       Act(job[p].inv, o.status, o.claims, o.left) /\ Goto(p, "acted", [job[p] EXCEPT !.end = o.end])
  /\ UNCHANGED <<records, ended, orphans, trouble, docs, ghosts>>

\* Files changed, files claimed, and what the mode allows of either.
ChangeBlockers(mode, before, after, res) ==
  LET claimed == res # None /\ res.claims IN
      IF after.head # before.head \/ after.branch # before.branch
      THEN {"unexpected_repo_modification"}
      ELSE IF mode = "evidence_only"
      THEN When(after.dirty \/ claimed, "unexpected_repo_modification")
      ELSE When(after.dirty # claimed, "materialized_change_evidence_missing")

ProcessBlockers(j, after, res) ==
  When(j.end = "timeout", "executor_process_timeout")
  \union When(j.end \in {"oserror", "nonzero"}, "executor_process_failed")
  \union When(res = None \/ res.status = "malformed", "executor_result_missing")
  \union ChangeBlockers(j.mode, j.before, after, res)

\* The record: the world before and after, and the result as it is read now.
WriteRecord(p) ==
  LET j == job[p]
      codes == ProcessBlockers(j, world.repo, result)
  IN
  /\ pc[p] = "acted"
  /\ records' = [i \in DOMAIN records \union {j.inv} |->
                   IF i = j.inv
                   THEN [valid |-> codes = {}, started |-> j.started, end |-> j.end,
                         status |-> "pending", mode |-> j.mode, plan |-> j.plan,
                         before |-> j.before, after |-> world.repo, result |-> result]
                   ELSE records[i]]
  /\ Goto(p, "audit", j)
  /\ UNCHANGED <<world, result, ended, orphans, trouble, docs, ghosts>>

Logged(event, i) == [world EXCEPT !.log = Append(@, [event |-> event, inv |-> i,
                                                     doc |-> records[i]])]

AuditInvocation(p) ==
  /\ pc[p] = "audit" /\ world.clean
  /\ world' = Logged("invoked", job[p].inv) /\ Exit(p)
  /\ UNCHANGED <<result, records, ended, orphans, trouble, docs, ghosts>>

\* The record is rewritten as blocked, if that works; then a second audit
\* record is tried.
AuditInvocationFails(p) ==
  /\ pc[p] = "audit" /\ AppendFails
  /\ \/ /\ records' = [records EXCEPT ![job[p].inv].valid = FALSE,
                                      ![job[p].inv].status = "blocked"]
        /\ Goto(p, "audit-blocked", job[p])
     \/ UNCHANGED records /\ Exit(p)
  /\ UNCHANGED <<world, result, ended, orphans, docs, ghosts>>

AuditBlocked(p) ==
  /\ pc[p] = "audit-blocked"
  /\ \/ world.clean /\ world' = Logged("blocked", job[p].inv)
     \/ UNCHANGED world
  /\ Exit(p)
  /\ UNCHANGED <<result, records, ended, orphans, trouble, docs, ghosts>>

------------------------------------------------------------------------------
(* closeout-executor-result --real-invocation-file                          *)

\* The record's own state.
RecordBlockers(r) ==
  When(~r.valid \/ ~r.started \/ r.end = "timeout" \/ r.status # "pending",
       "invocation_result_invalid")

\* The result the record describes is the one there now, and it is accepted:
\* under a brake, only a result that says stopped is.
ResultValid(w, res) ==
  /\ res # None /\ res.status # "malformed"
  /\ w.brake = "DRIVE" \/ res.status = "stopped"
ResultBlockers(w, r, res) ==
  When(r.result = None, "invocation_result_missing")
  \union When(r.result # res, "invocation_checksum_mismatch")
  \union When(~ResultValid(w, res), "invocation_result_invalid")

\* Plan and readiness files still are those the record was made from.
PaperBlockers(w, r) ==
  When(plan # r.plan \/ readiness # r.plan.target.ready, "invocation_checksum_mismatch")
  \union When(r.plan.target.ready.task # w.task.ver, "invocation_checksum_mismatch")

\* The runner's packet, if the readiness was built on one, or the ownership
\* record, which must still be active and as it was.
CloseoutBridgePacket(w) == BridgePacketBlockers(w.bridge)
CloseoutBridgeTarget(w, r) == BridgeTargetBlockers(w.bridge, w, r.plan.target.ready.epoch, "inside")
OwnerBlockers(w, r) ==
  LET ready == r.plan.target.ready IN
  IF ready.bridged THEN CloseoutBridgePacket(w) \union CloseoutBridgeTarget(w, r)
  ELSE When(OwnerStill(w, ready, "inside") # {}, "ownership_closeout_blocked")

\* The checkout before, after and now.
CheckoutBlockers(w, r) ==
  When(r.before.head # w.task.head \/ r.before.dirty, "invocation_checksum_mismatch")
  \union When(r.after.head # r.before.head \/ w.repo # r.after, "materialized_change_mismatch")
  \union When(r.mode = "materialized_changes" /\ ~(r.result # None /\ r.result.claims /\ r.after.dirty),
              "materialized_change_mismatch")

\* Its audit record: one, right after the head of the log that was signed,
\* and of the record as it is.
Anchor_Anywhere(w, r, i) ==
  \E n \in DOMAIN w.log : w.log[n].event = "invoked" /\ w.log[n].doc = r
Anchor(w, r, i) ==
  LET n == r.plan.target.chain + 1 IN
  /\ {m \in DOMAIN w.log : w.log[m].event = "invoked" /\ w.log[m].inv = i} = {n}
  /\ w.log[n].doc = r
AuditBlockers(w, r, i) ==
  When(~w.clean \/ ~Anchor(w, r, i), "audit_chain_mismatch")

CloseoutBlockers(w, r, i, res) ==
  RecordBlockers(r) \union ResultBlockers(w, r, res) \union PaperBlockers(w, r)
  \union OwnerBlockers(w, r) \union CheckoutBlockers(w, r) \union AuditBlockers(w, r, i)

\* All of it is looked at before the epoch lock is asked for.
BeginCloseout(p) ==
  /\ pc[p] = "idle" /\ result # None
  /\ closeouts < MaxCloseouts /\ closeouts' = closeouts + 1
  /\ \E i \in DOMAIN records :
       Goto(p, "close", [inv |-> i, doc |-> records[i], res |-> result,
                         valid |-> ResultValid(world, result),
                         codes |-> CloseoutBlockers(world, records[i], i, result)])
  /\ UNCHANGED <<world, result, records, ended, orphans, trouble, readiness, plan, approved,
                 issued, ghosts>>

\* Under the lock, where the terminal files are looked at first.  An epoch that
\* has ended ends the command without an audit record; a blocked one is logged.
AlreadyClosed(p) ==
  /\ pc[p] = "close" /\ ended # "none" /\ Exit(p)
  /\ UNCHANGED <<world, result, records, ended, orphans, trouble, docs, ghosts>>

Closeable(p) ==
  /\ ended = "none" /\ Cardinality(world.epochs) = 1 /\ job[p].codes = {} /\ job[p].valid
  /\ \A e \in world.epochs : e.id = "e1" /\ "t1" \in DOMAIN e.tasks

CloseoutBlocked(p) ==
  /\ pc[p] = "close" /\ ended = "none" /\ ~Closeable(p)
  /\ Goto(p, "audit-closeout", job[p])
  /\ UNCHANGED <<world, result, records, ended, orphans, trouble, docs, ghosts>>

\* The task is credited; the epoch ends with its last task, or with a result
\* that stopped.
CloseTask(p) ==
  LET e == CHOOSE e \in world.epochs : TRUE
      done == e.done \union {"t1"}
      status == IF job[p].res.status = "stopped" THEN "failed"
                ELSE IF done = DOMAIN e.tasks THEN "completed" ELSE "task_completed"
  IN
  /\ pc[p] = "close" /\ Closeable(p)
  /\ world' = [world EXCEPT !.epochs = IF status = "task_completed"
                                       THEN {[e EXCEPT !.done = done]} ELSE {}]
  /\ ended' = IF status = "task_completed" THEN ended ELSE status
  /\ credits' = Append(credits, job[p].inv)
  /\ Goto(p, "update", [job[p] EXCEPT !.codes = {status}])
  /\ UNCHANGED <<result, records, orphans, trouble, docs, told, overlap, crashed>>

Rebound_WhenEnded(i, doc, status) ==
  IF status = "task_completed" THEN records ELSE [records EXCEPT ![i] = [doc EXCEPT !.status = status]]
Rebound(i, doc, status) == [records EXCEPT ![i] = [doc EXCEPT !.status = status]]

BindRecord(p) ==
  /\ pc[p] = "update"
  /\ \E status \in job[p].codes : records' = Rebound(job[p].inv, job[p].doc, status)
  /\ Goto(p, "audit-update", job[p])
  /\ UNCHANGED <<world, result, ended, orphans, trouble, docs, ghosts>>

AuditUpdate(p) ==
  /\ pc[p] = "audit-update" /\ world.clean
  /\ world' = Logged("bound", job[p].inv)
  /\ Goto(p, "audit-closeout", job[p])
  /\ UNCHANGED <<result, records, ended, orphans, trouble, docs, ghosts>>

\* The record is put back as it was read, if that works, and the command says
\* that the closeout's audit must be recovered.
AuditUpdateFails(p) ==
  /\ pc[p] = "audit-update" /\ AppendFails
  /\ \/ records' = [records EXCEPT ![job[p].inv] = job[p].doc]
     \/ UNCHANGED records
  /\ told' = told \union {job[p].inv} /\ Exit(p)
  /\ UNCHANGED <<world, result, ended, orphans, docs, credits, overlap, crashed>>

AuditCloseout(p) ==
  /\ pc[p] = "audit-closeout"
  /\ \/ world.clean /\ world' = Logged("closeout", job[p].inv) /\ UNCHANGED trouble
     \/ AppendFails /\ UNCHANGED world
  /\ Exit(p)
  /\ UNCHANGED <<result, records, ended, orphans, docs, ghosts>>

------------------------------------------------------------------------------
(* Crashes, and everybody else                                              *)

\* The executor does not die with the command that started it.
Crash(p) ==
  /\ Meets("crash") /\ pc[p] # "idle" /\ crashed' = TRUE /\ Exit(p)
  /\ orphans' = orphans \union (IF pc[p] = "running" THEN {job[p].inv} ELSE {})
  /\ UNCHANGED <<world, result, records, ended, docs, credits, told, overlap>>

OrphanRuns ==
  /\ \E i \in orphans :
       /\ orphans' = orphans \ {i}
       /\ \E status \in {"nothing", "succeeded"}, left \in {"nothing", "files"} :
            Act(i, status, FALSE, left)
  /\ UNCHANGED <<records, ended, pc, job, trouble, docs, ghosts>>

\* What a command, a person or a program beside these may change at any time.
Changed(kind) ==
  CASE kind = "brake" -> [world EXCEPT !.brake = IF @ = "DRIVE" THEN "PARK" ELSE "DRIVE"]
    [] kind = "head" -> [world EXCEPT !.repo.head = 1 - @]
    [] kind = "clean" -> [world EXCEPT !.repo.dirty = FALSE, !.repo.head = 0]
    [] kind = "owner" -> [world EXCEPT !.owner.state = IF @ = "none" THEN @ ELSE "closed"]
    [] kind = "task" -> [world EXCEPT !.task.ver = 2]
    [] kind = "setup" -> [world EXCEPT !.rollback = FALSE]
    [] kind = "age" -> [world EXCEPT !.old = {"readiness", "plan"}]
    [] kind = "torn" -> [world EXCEPT !.clean = FALSE]
    [] kind = "audit" -> IF ~world.clean THEN world
                         ELSE [world EXCEPT !.log = Append(@, [event |-> "other", inv |-> None,
                                                               doc |-> None])]
    [] kind = "epoch" -> [world EXCEPT !.epochs = {}]
    [] OTHER -> world

Drift ==
  /\ \E kind \in Troubles \ {"append", "crash"} :
       /\ Meets(kind) /\ world' = Changed(kind)
       /\ ended' = IF kind = "epoch" /\ ended = "none" THEN "failed" ELSE ended
       /\ result' = IF kind = "result" THEN None ELSE result
  /\ UNCHANGED <<records, pc, job, orphans, docs, ghosts>>

Invoke(p) ==
  \/ \E mode \in {"evidence_only", "materialized_changes"} : Recheck(p, mode)
  \/ Starts(p) \/ CannotStart(p) \/ Runs(p) \/ WriteRecord(p)
  \/ AuditInvocation(p) \/ AuditInvocationFails(p) \/ AuditBlocked(p)

Closeout(p) ==
  \/ BeginCloseout(p) \/ AlreadyClosed(p) \/ CloseoutBlocked(p) \/ CloseTask(p)
  \/ BindRecord(p) \/ AuditUpdate(p) \/ AuditUpdateFails(p) \/ AuditCloseout(p)

Next ==
  \/ MakeReadiness \/ Approve \/ MakePlan
  \/ \E p \in Procs : Invoke(p) \/ Closeout(p) \/ Crash(p)
  \/ OrphanRuns \/ Drift

Spec == Init /\ [][Next]_ivars

------------------------------------------------------------------------------
(* Properties                                                               *)

Bound == {i \in DOMAIN records : records[i].status \in {"task_completed", "completed", "failed"}}

InvocationTypeOK ==
  /\ DOMAIN records \subseteq Invocations
  /\ \A i \in DOMAIN records :
       records[i].status \in {"pending", "blocked", "task_completed", "completed", "failed"}
  /\ pc \in [Procs -> {"idle", "armed", "running", "acted", "audit", "audit-blocked", "close",
                       "update", "audit-update", "audit-closeout"}]
  /\ \A p \in Procs : IF pc[p] = "idle" THEN job[p] = NoJob ELSE job[p].inv \in Invocations
  /\ ended \in {"none", "completed", "failed"} /\ told \subseteq Invocations
  /\ orphans \subseteq Invocations /\ overlap \subseteq Invocations \X Invocations

\* Two commands may start an executor from one approval, but at most one of the
\* two records is ever bound to the epoch: only one can follow the head of the
\* audit log that was signed (invoke_real_executor holds no lock;
\* _closeout_real_invocation_audit_blockers).
OneBoundPerApproval ==
  \A i, j \in Bound : records[i].plan.target = records[j].plan.target => i = j

\* A bound record's result was written by its own executor, or by one that was
\* under way beside it: never by one that had ended, or died, before
\* (executor_result_stale in invoke_real_executor).
NoStaleResult ==
  \A i \in Bound : LET by == records[i].result.by IN by = i \/ <<i, by>> \in overlap

\* When an epoch has been credited with an invocation's result, its record says
\* so, or a command is still about to write it, or a command has said that the
\* audit must be recovered, or one has died: a closeout that is repeated finds
\* the epoch closed and does not repair the record
\* (closeout_executor_result_command after closeout_executor_result_epoch).
LostBindingsAreTold ==
  \A n \in DOMAIN credits :
    LET i == credits[n] IN
    \/ i \in Bound \/ i \in told \/ crashed
    \/ \E p \in Procs : pc[p] = "update" /\ job[p].inv = i
==============================================================================
