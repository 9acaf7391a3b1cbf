--------------------------- MODULE EpochLifecycle ---------------------------
(***************************************************************************)
(* Epochs under concurrent commands (codex_cadence/epochs.py, the epoch    *)
(* commands of cli.py, the lock and the brake of store.py).                *)
(*                                                                         *)
(* Every command is a process of its own; they share nothing but the files *)
(* of the runtime root.  A step of this module is one file operation (or a *)
(* read whose result is used later), so commands interleave between any    *)
(* two of them.  A lock is a file created with O_EXCL: acquiring it never  *)
(* waits, the command fails if the file is there, and a process that dies  *)
(* leaves it behind (Stale).                                               *)
(***************************************************************************)
EXTENDS SelfCheck, SequencesExt

CONSTANTS
  Procs,       \* the commands that may be in flight at once
  Epochs,      \* epoch ids; a start takes one never used before
  Tasks,       \* ids of epoch tasks
  Runs,        \* execution-run records, one per executor result
  RunTask,     \* the task each run was for
  RunResult,   \* what its result evidence says
  Asks,        \* what a self-check may be asked: [req, snap]
  Policy,      \* the policy an epoch stores
  Commands,    \* the commands in use
  TaskLists,   \* the task sets epochs are started with
  Verdicts,    \* the decisions complete-epoch is given
  Brakes,      \* the brake values operators use
  MaxCloseouts,\* bound: entries of one epoch's executor_closeouts
  Faults       \* which of "unlink", "undo", "crash", "clear" may happen

\* "succeeded"; "failed" (or blocked); "stopped"; "violation": the evidence
\* breaks the command policy; "malformed": it is invalid otherwise.
Results == {"succeeded", "failed", "stopped", "violation", "malformed"}

ASSUME EpochLifecycleAssumption ==
  /\ RunTask \in [Runs -> Tasks] /\ RunResult \in [Runs -> Results]
  /\ Commands \subseteq {"start", "complete", "fail", "brake", "check", "closeout"}
  /\ \A ts \in TaskLists : ts \subseteq Tasks /\ Cardinality(ts) <= Policy.maxTasks
  /\ Verdicts \subseteq Decisions
  /\ "DRIVE" \in Brakes /\ Brakes \subseteq BrakeStatuses
  /\ Asks # {} /\ Runs # {} /\ Epochs # {} /\ MaxCloseouts \in Nat
  /\ "free" \notin Procs /\ "stale" \notin Procs /\ IsFiniteSet(Epochs)

\* policy_limit refuses anything but a natural number.
ASSUME PolicyAssumption == Policy.maxEpochs \in Nat

VARIABLES
  brake,       \* brake.json
  active,      \* epochs/active: id -> document
  completed,   \* epochs/completed: id -> how it ended
  failed,      \* epochs/failed: ids
  late,        \* ids whose epoch has outlived max_minutes_per_epoch
  run,         \* closeout_status of each execution-run record
  lock,        \* the lock files (the last two are for GovernedExecution)
  pc, job      \* each process: its next step, and what it holds in memory

files == <<brake, active, completed, failed, late, run>>
vars  == <<brake, active, completed, failed, late, run, lock, pc, job>>

Free  == "free"
Stale == "stale"
Locks == {"runtime", "active-epoch", "work-ownership", "audit-events"}
RunStatuses == {"pending", "task_completed", "completed", "failed"}

------------------------------------------------------------------------------
(* Documents                                                                *)

\* last_self_check: the request, and what was seen and decided.
NoCheck == [ask |-> CHOOSE a \in Asks : TRUE, brake |-> "DRIVE", count |-> 0,
            decision |-> "none"]
NewEpoch(tasks) == [tasks |-> tasks, done |-> {}, closeouts |-> <<>>, check |-> NoCheck]

\* A directory of records: adding or replacing a file, and deleting one.
NoFiles == [x \in {} |-> x]
Put(dir, id, doc) == [x \in DOMAIN dir \union {id} |-> IF x = id THEN doc ELSE dir[x]]
Drop(dir, id)     == [x \in DOMAIN dir \ {id} |-> dir[x]]

\* completed_continue_count: the CONTINUE epochs after the last other one, in
\* completed_at order.
ContinueCount_SkipsLatest(dir) ==             \* mutant: the newest record is not counted
  Cardinality({e \in DOMAIN dir : /\ dir[e].decision = "CONTINUE"
                                  /\ \E f \in DOMAIN dir : dir[f].stamp > dir[e].stamp})

ContinueCount(dir) ==
  Cardinality({e \in DOMAIN dir :
                 /\ dir[e].decision = "CONTINUE"
                 /\ \A f \in DOMAIN dir :
                      dir[f].decision # "CONTINUE" => dir[f].stamp < dir[e].stamp})

\* load_active_epoch succeeds.
Loadable(e) == DOMAIN active = {e}

\* What the self-check command computes, given the epoch's age and history.
Answer(ask, seenBrake, isLate, count) ==
  SelfCheckPayload(seenBrake, ask.req, ask.snap, "high", Policy, isLate, count).decision

\* validate_continue_self_check.
ContinueAllowed(e, check) ==
  LET count == ContinueCount(completed)
  IN  /\ check.decision = "CONTINUE"
      /\ check.ask.snap # NoSnap
      /\ check.brake = "DRIVE"
      /\ check.count = count
      /\ count < Policy.maxEpochs
      /\ Policy.nextRequires = "green_ci_or_explicit_handoff" => check.ask.snap.ci = "green"
      /\ e \notin late
      /\ Answer(check.ask, check.brake, e \in late, count) = "CONTINUE"

------------------------------------------------------------------------------
(* Processes                                                                *)

NoJob == [op |-> "none", e |-> "none", tasks |-> {}, decision |-> "none", to |-> "none",
          brake |-> "DRIVE", run |-> CHOOSE r \in Runs : TRUE, runWas |-> "pending",
          valid |-> FALSE, check |-> NoCheck, doc |-> NewEpoch({})]

Init ==
  /\ brake = "DRIVE" /\ active = NoFiles /\ completed = NoFiles /\ failed = {} /\ late = {}
  /\ run = [r \in Runs |-> "pending"]
  /\ lock = [l \in Locks |-> Free]
  /\ pc = [p \in Procs |-> "idle"] /\ job = [p \in Procs |-> NoJob]

Goto(p, step) == pc' = [pc EXCEPT ![p] = step]
Finish(p) == Goto(p, "idle") /\ job' = [job EXCEPT ![p] = NoJob]

Begin(p, step, j) ==
  /\ pc[p] = "idle" /\ j.op \in Commands
  /\ Goto(p, step) /\ job' = [job EXCEPT ![p] = j]
  /\ UNCHANGED <<files, lock>>

BeginStart(p) ==
  \E ts \in TaskLists :
    Begin(p, "runtime", [NoJob EXCEPT !.op = "start", !.tasks = ts])
BeginComplete(p) ==
  \E e \in Epochs, d \in Verdicts :
    Begin(p, "runtime", [NoJob EXCEPT !.op = "complete", !.e = e, !.decision = d,
                                      !.to = "completed"])
BeginFail(p) ==
  \E e \in Epochs :
    Begin(p, "runtime", [NoJob EXCEPT !.op = "fail", !.e = e, !.to = "failed"])
BeginBrake_Unlocked(p) ==                     \* mutant: set-brake takes no lock
  \E b \in Brakes : Begin(p, "set-brake", [NoJob EXCEPT !.op = "brake", !.brake = b])
BeginBrake(p) ==
  \E b \in Brakes : Begin(p, "runtime", [NoJob EXCEPT !.op = "brake", !.brake = b])
BeginSelfCheck(p) ==
  \E e \in Epochs, a \in Asks :
    Begin(p, "brake", [NoJob EXCEPT !.op = "check", !.e = e, !.check.ask = a])
BeginCloseout(p) ==
  \E e \in Epochs, r \in Runs :
    Begin(p, "read-run", [NoJob EXCEPT !.op = "closeout", !.e = e, !.run = r])

------------------------------------------------------------------------------
(* Locks                                                                    *)

\* exclusive_lock: the O_EXCL create, which either succeeds or fails the
\* command; and the unlink in its finally clause.
Granted_Ignored(l) == TRUE                    \* mutant: create without O_EXCL
Granted(l) == lock[l] = Free

Acquire(p, l, granted, refused) ==
  IF Granted(l)
  THEN lock' = [lock EXCEPT ![l] = p] /\ Goto(p, granted) /\ UNCHANGED <<files, job>>
  ELSE UNCHANGED <<files, lock>> /\ IF refused = "idle" THEN Finish(p)
                                    ELSE Goto(p, refused) /\ UNCHANGED job

Release(l) == lock' = [lock EXCEPT ![l] = Free]

AcquireRuntime(p) ==
  /\ pc[p] = "runtime"
  /\ LET next == CASE job[p].op = "brake" -> "set-brake"
                   [] job[p].op = "start" \/ job[p].decision = "CONTINUE" -> "brake"
                   [] OTHER -> "lock"
     IN  Acquire(p, "runtime", next, "idle")

HoldsRuntime(op) == op \in {"start", "complete", "fail", "brake"}

\* mutants: a self-check recorded without the lock; a refusal that forgets
\* the runtime lock.
AcquireEpochLock_CheckUnlocked(p) ==
  /\ pc[p] = "lock"
  /\ IF job[p].op = "check" THEN Goto(p, "load") /\ UNCHANGED <<files, lock, job>>
     ELSE Acquire(p, "active-epoch", "load",
                  IF HoldsRuntime(job[p].op) THEN "return" ELSE "idle")
AcquireEpochLock_KeepsRuntime(p) ==
  pc[p] = "lock" /\ Acquire(p, "active-epoch", "load", "idle")

AcquireEpochLock(p) ==
  /\ pc[p] = "lock"
  /\ Acquire(p, "active-epoch", "load",
             IF HoldsRuntime(job[p].op) THEN "return" ELSE "idle")

ReleaseEpochLock(p) ==
  /\ pc[p] = "release"
  /\ Release("active-epoch") /\ UNCHANGED files
  /\ IF HoldsRuntime(job[p].op) THEN Goto(p, "return") /\ UNCHANGED job
     ELSE IF job[p].op = "closeout" /\ job[p].to # "none"
          THEN Goto(p, "record") /\ UNCHANGED job
          ELSE Finish(p)

ReleaseRuntime(p) ==
  /\ pc[p] = "return"
  /\ Release("runtime") /\ Finish(p) /\ UNCHANGED files

------------------------------------------------------------------------------
(* Reads of the brake                                                       *)

SetBrake(p) ==
  /\ pc[p] = "set-brake"
  /\ brake' = job[p].brake
  /\ Goto(p, "return")
  /\ UNCHANGED <<active, completed, failed, late, run, lock, job>>

\* start-epoch, and complete-epoch with CONTINUE: anything but DRIVE refuses.
CheckBrake_Ignored(p) ==                      \* mutant: the brake is not looked at
  /\ pc[p] = "brake" /\ job[p].op \in {"start", "complete"}
  /\ Goto(p, "lock") /\ UNCHANGED <<files, lock, job>>

CheckBrake(p) ==
  /\ pc[p] = "brake" /\ job[p].op \in {"start", "complete"}
  /\ Goto(p, IF brake = "DRIVE" THEN "lock" ELSE "return")
  /\ UNCHANGED <<files, lock, job>>

\* self-check and closeout note the brake without any lock.  For a closeout
\* this is the validation of the evidence: unless the executor reports that it
\* stopped, a brake that is set makes it invalid.
EvidenceValid(result, seenBrake) ==
  \/ result = "stopped"
  \/ result \in {"succeeded", "failed"} /\ seenBrake = "DRIVE"

ObserveBrake(p) ==
  /\ pc[p] = "brake" /\ job[p].op \in {"check", "closeout"}
  /\ IF job[p].op = "check"
     THEN Goto(p, "view") /\ job' = [job EXCEPT ![p].check.brake = brake]
     ELSE /\ Goto(p, "lock")
          /\ job' = [job EXCEPT ![p].valid = EvidenceValid(RunResult[job[p].run], brake)]
  /\ UNCHANGED <<files, lock>>

------------------------------------------------------------------------------
(* start-epoch                                                              *)

\* Ids are random: a start never meets one that was used before, and fails
\* when it can allocate none.
FreshIds == Epochs \ (DOMAIN active \union DOMAIN completed \union failed)

StartLoad_Unchecked(p) ==                     \* mutant: no look at epochs/active
  /\ pc[p] = "load" /\ job[p].op = "start"
  /\ Goto(p, IF FreshIds # {} THEN "write" ELSE "release")
  /\ UNCHANGED <<files, lock, job>>

StartLoad(p) ==
  /\ pc[p] = "load" /\ job[p].op = "start"
  /\ Goto(p, IF DOMAIN active = {} /\ FreshIds # {} THEN "write" ELSE "release")
  /\ UNCHANGED <<files, lock, job>>

StartWrite(p) ==
  /\ pc[p] = "write" /\ job[p].op = "start"
  /\ \E e \in FreshIds : active' = Put(active, e, NewEpoch(job[p].tasks))
  /\ Goto(p, "release")
  /\ UNCHANGED <<brake, completed, failed, late, run, lock, job>>

\* Time passes: an active epoch outlives its minutes.
Age(e) ==
  /\ e \in DOMAIN active \ late
  /\ late' = late \union {e}
  /\ UNCHANGED <<brake, active, completed, failed, run, lock, pc, job>>

------------------------------------------------------------------------------
(* complete-epoch and fail-epoch                                            *)

CompleteLoad_Overwrites(p) ==                 \* mutant: the target may exist
  LET e == job[p].e IN
  /\ pc[p] = "load" /\ job[p].op = "complete"
  /\ IF Loadable(e) /\ (job[p].decision = "CONTINUE" => ContinueAllowed(e, active[e].check))
     THEN Goto(p, "terminal") /\ job' = [job EXCEPT ![p].doc = active[e]]
     ELSE Goto(p, "release") /\ UNCHANGED job
  /\ UNCHANGED <<files, lock>>

CompleteLoad(p) ==
  LET e == job[p].e IN
  /\ pc[p] = "load" /\ job[p].op = "complete"
  /\ IF /\ e \notin DOMAIN completed
        /\ Loadable(e)
        /\ job[p].decision = "CONTINUE" => ContinueAllowed(e, active[e].check)
     THEN Goto(p, "terminal") /\ job' = [job EXCEPT ![p].doc = active[e]]
     ELSE Goto(p, "release") /\ UNCHANGED job
  /\ UNCHANGED <<files, lock>>

FailLoad(p) ==
  LET e == job[p].e IN
  /\ pc[p] = "load" /\ job[p].op = "fail"
  /\ IF e \notin failed /\ Loadable(e)
     THEN Goto(p, "terminal") /\ job' = [job EXCEPT ![p].doc = active[e]]
     ELSE Goto(p, "release") /\ UNCHANGED job
  /\ UNCHANGED <<files, lock>>

\* write_terminal_epoch: the terminal record is written first, then the active
\* one is unlinked; if that fails, the terminal record is deleted again.
EndOf_NoDecision(j) ==                        \* mutant: a closeout sets no decision
  [decision |-> j.decision, done |-> j.doc.done, stamp |-> Cardinality(DOMAIN completed) + 1]
EndOf(j) ==
  [decision |-> IF j.op = "closeout" THEN "STOP" ELSE j.decision, done |-> j.doc.done,
   stamp |-> Cardinality(DOMAIN completed) + 1]

WriteTerminal(p) ==
  LET e == job[p].e IN
  /\ pc[p] = "terminal"
  /\ IF job[p].to = "completed"
     THEN completed' = Put(completed, e, EndOf(job[p])) /\ UNCHANGED failed
     ELSE failed' = failed \union {e} /\ UNCHANGED completed
  /\ Goto(p, "unlink")
  /\ UNCHANGED <<brake, active, late, run, lock, job>>

UnlinkActive(p) ==
  /\ pc[p] = "unlink" /\ job[p].e \in DOMAIN active
  /\ active' = Drop(active, job[p].e)
  /\ Goto(p, "release")
  /\ UNCHANGED <<brake, completed, failed, late, run, lock, job>>

UnlinkFails(p) ==
  /\ pc[p] = "unlink" /\ ("unlink" \in Faults \/ job[p].e \notin DOMAIN active)
  /\ Goto(p, "undo")
  /\ UNCHANGED <<files, lock, job>>

UndoTerminal_LeavesRecord(p) ==               \* mutant: the target is not deleted
  /\ pc[p] = "undo"
  /\ job' = [job EXCEPT ![p].to = "none"] /\ Goto(p, "release")
  /\ UNCHANGED <<files, lock>>

UndoTerminal(p) ==
  LET e == job[p].e IN
  /\ pc[p] = "undo"
  /\ IF job[p].to = "completed"
     THEN completed' = Drop(completed, e) /\ UNCHANGED failed
     ELSE failed' = failed \ {e} /\ UNCHANGED completed
  /\ job' = [job EXCEPT ![p].to = "none"]
  /\ Goto(p, "release")
  /\ UNCHANGED <<brake, active, late, run, lock>>

UndoFails(p) ==
  /\ pc[p] = "undo" /\ "undo" \in Faults
  /\ job' = [job EXCEPT ![p].to = "none"]
  /\ Goto(p, "release")
  /\ UNCHANGED <<files, lock>>

------------------------------------------------------------------------------
(* self-check: reads without a lock, then a locked update of the epoch      *)

View(p) ==
  /\ pc[p] = "view"
  /\ IF Loadable(job[p].e) THEN Goto(p, "count") /\ UNCHANGED job ELSE Finish(p)
  /\ UNCHANGED <<files, lock>>

Decide(p) ==
  LET check == job[p].check
      count == ContinueCount(completed)
  IN
  /\ pc[p] = "count"
  /\ job' = [job EXCEPT ![p].check =
               [check EXCEPT !.count = count,
                             !.decision = Answer(check.ask, check.brake,
                                                 job[p].e \in late, count)]]
  /\ Goto(p, "lock")
  /\ UNCHANGED <<files, lock>>

CheckLoad(p) ==
  LET e == job[p].e IN
  /\ pc[p] = "load" /\ job[p].op = "check"
  /\ IF Loadable(e)
     THEN /\ Goto(p, "write")
          /\ job' = [job EXCEPT ![p].doc = [active[e] EXCEPT !.check = job[p].check]]
     ELSE Goto(p, "release") /\ UNCHANGED job
  /\ UNCHANGED <<files, lock>>

------------------------------------------------------------------------------
(* closeout-executor-result                                                 *)

ReadRun(p) ==
  /\ pc[p] = "read-run"
  /\ job' = [job EXCEPT ![p].runWas = run[job[p].run]]
  /\ Goto(p, "brake")
  /\ UNCHANGED <<files, lock>>

\* The task must be one of the epoch's.  (Epochs here start from one snapshot
\* of one branch, so that a packet's other anchors fit each of them.)
TaskInEpoch(e, r) == RunTask[r] \in active[e].tasks

\* The run record, as it was read before the lock, has not been closed out.
NotReplayed(runWas) == runWas = "pending"

\* No blocker: the epoch is not terminal already and is the one active epoch,
\* the task is its own and the run is fresh.  MaxCloseouts bounds the model.
Closeable(e, r, runWas) ==
  /\ e \notin DOMAIN completed \union failed
  /\ Loadable(e)
  /\ TaskInEpoch(e, r)
  /\ NotReplayed(runWas)
  /\ Len(active[e].closeouts) < MaxCloseouts

CloseoutLoad(p) ==
  LET e == job[p].e
      r == job[p].run
      succeeds == job[p].valid /\ RunResult[r] = "succeeded"
      fails    == job[p].valid \/ RunResult[r] = "violation"
      after == [active[e] EXCEPT !.done = @ \union {RunTask[r]},
                                 !.closeouts = Append(@, r)]
  IN
  /\ pc[p] = "load" /\ job[p].op = "closeout"
  /\ IF ~Closeable(e, r, job[p].runWas) \/ ~(succeeds \/ fails)
     THEN Goto(p, "release") /\ UNCHANGED job
     ELSE IF ~succeeds
     THEN /\ Goto(p, "terminal")
          /\ job' = [job EXCEPT ![p] = [@ EXCEPT !.to = "failed", !.doc = active[e]]]
     ELSE IF after.tasks \subseteq after.done
     THEN /\ Goto(p, "terminal")
          /\ job' = [job EXCEPT ![p] = [@ EXCEPT !.to = "completed", !.doc = after]]
     ELSE /\ Goto(p, "write")
          /\ job' = [job EXCEPT ![p] = [@ EXCEPT !.to = "task_completed", !.doc = after]]
  /\ UNCHANGED <<files, lock>>

\* record_self_check and a closeout with tasks left rewrite the active record.
Rewrite(p) ==
  /\ pc[p] = "write" /\ job[p].op \in {"check", "closeout"}
  /\ active' = Put(active, job[p].e, job[p].doc)
  /\ Goto(p, "release")
  /\ UNCHANGED <<brake, completed, failed, late, run, lock, job>>

\* After the lock is gone: the run record is updated, then the audit record is
\* appended; if the append fails, the run record is put back as it was read.
RecordRun(p) ==
  /\ pc[p] = "record"
  /\ run' = [run EXCEPT ![job[p].run] = job[p].to]
  /\ Goto(p, "audit")
  /\ UNCHANGED <<brake, active, completed, failed, late, lock, job>>

AuditAppended(p) ==
  /\ pc[p] = "audit"
  /\ Finish(p) /\ UNCHANGED <<files, lock>>

AuditFails(p) ==
  /\ pc[p] = "audit"
  /\ run' = [run EXCEPT ![job[p].run] = job[p].runWas]
  /\ Finish(p)
  /\ UNCHANGED <<brake, active, completed, failed, late, lock>>

------------------------------------------------------------------------------
(* The environment: processes die, and an operator removes the lock file a  *)
(* dead process left (no command does).                                     *)

Crash(p) ==
  /\ pc[p] # "idle" /\ "crash" \in Faults
  /\ lock' = [l \in Locks |-> IF lock[l] = p THEN Stale ELSE lock[l]]
  /\ Finish(p) /\ UNCHANGED files

ClearStaleLock(l) ==
  /\ lock[l] = Stale /\ "clear" \in Faults
  /\ Release(l)
  /\ UNCHANGED <<files, pc, job>>

------------------------------------------------------------------------------

Invoke(p) ==
  \/ BeginStart(p) \/ BeginComplete(p) \/ BeginFail(p)
  \/ BeginBrake(p) \/ BeginSelfCheck(p) \/ BeginCloseout(p)

\* What a command in flight does next.
Step(p) ==
  \/ AcquireRuntime(p) \/ AcquireEpochLock(p) \/ ReleaseEpochLock(p) \/ ReleaseRuntime(p)
  \/ SetBrake(p) \/ CheckBrake(p) \/ ObserveBrake(p)
  \/ StartLoad(p) \/ StartWrite(p) \/ CompleteLoad(p) \/ FailLoad(p)
  \/ WriteTerminal(p) \/ UnlinkActive(p) \/ UnlinkFails(p) \/ UndoTerminal(p) \/ UndoFails(p)
  \/ View(p) \/ Decide(p) \/ CheckLoad(p) \/ ReadRun(p) \/ CloseoutLoad(p) \/ Rewrite(p)
  \/ RecordRun(p) \/ AuditAppended(p) \/ AuditFails(p)

Next ==
  \/ \E p \in Procs : Invoke(p) \/ Step(p) \/ Crash(p)
  \/ \E e \in Epochs : Age(e)
  \/ \E l \in Locks : ClearStaleLock(l)

Spec == Init /\ [][Next]_vars


------------------------------------------------------------------------------
(* Types                                                                    *)

Check    == [ask : Asks, brake : BrakeStatuses, count : Nat, decision : Decisions \union {"none"}]
EpochDoc == [tasks : SUBSET Tasks, done : SUBSET Tasks, closeouts : Seq(Runs), check : Check]
Ending   == [decision : Decisions, done : SUBSET Tasks, stamp : Nat]
Job == [op : {"none", "start", "complete", "fail", "brake", "check", "closeout"},
        e : Epochs \union {"none"}, tasks : SUBSET Tasks, decision : Decisions \union {"none"},
        to : {"none", "task_completed", "completed", "failed"}, brake : BrakeStatuses,
        run : Runs, runWas : RunStatuses, valid : BOOLEAN, check : Check, doc : EpochDoc]
PCs == {"idle", "runtime", "set-brake", "brake", "lock", "load", "write", "terminal", "unlink",
        "undo", "release", "return", "view", "count", "read-run", "record", "audit"}

Directory(dir, docs) == DOMAIN dir \subseteq Epochs /\ \A e \in DOMAIN dir : dir[e] \in docs

\* GovernedExecution adds steps to these.
TypedWith(steps) ==
  /\ brake \in BrakeStatuses
  /\ Directory(active, EpochDoc) /\ Directory(completed, Ending)
  /\ failed \subseteq Epochs /\ late \subseteq Epochs
  /\ run \in [Runs -> RunStatuses]
  /\ lock \in [Locks -> Procs \union {Free, Stale}]
  /\ pc \in [Procs -> steps] /\ job \in [Procs -> Job]

TypeOK == TypedWith(PCs)

\* A running process is scheduled until it exits: no command waits for another,
\* and whoever is not idle has a Step, which moves its program counter.  Stated
\* with that, the fairness needs no ENABLED of a whole self-check.
Moves(p) == pc[p] # "idle" /\ \E step \in PCs : pc' = [pc EXCEPT ![p] = step]
FairSpec == Spec /\ \A p \in Procs : WF_pc(Moves(p))

------------------------------------------------------------------------------
(* Properties                                                               *)

\* At most one epoch is active, whatever commands race, fail or die half-way
\* (start_epoch's check and write are one critical section).
AtMostOneActive == \A e, f \in DOMAIN active : e = f

\* An epoch ends one way: with no fault left half-undone it is never both
\* completed and failed, although complete and fail each look only for a
\* record of their own kind.
OneOutcome == DOMAIN completed \cap failed = {}

\* The loop never continues itself more often than the policy allows without
\* another decision in between, however stale the self-check it relies on:
\* no stretch of CONTINUE endings in the history is longer than the budget.
Continues(e) == completed[e].decision = "CONTINUE"
StretchUpTo(e) ==
  {f \in DOMAIN completed :
     /\ completed[f].stamp <= completed[e].stamp
     /\ \A g \in DOMAIN completed :
          completed[g].stamp \in completed[f].stamp..completed[e].stamp => Continues(g)}
ContinueBounded ==
  \A e \in DOMAIN completed : Cardinality(StretchUpTo(e)) <= Policy.maxEpochs

\* Work starts, and continues into a next epoch, only while the brake is off:
\* the brake cannot be set between the command's look at it and its effect.
OnlyOnDrive ==
  /\ DOMAIN active' \ DOMAIN active # {} => brake = "DRIVE"
  /\ \A e \in DOMAIN completed' \ DOMAIN completed :
       completed'[e].decision = "CONTINUE" => brake = "DRIVE"
DriveGoverns == [][OnlyOnDrive]_vars

\* No update is lost: a step that rewrites an epoch, or ends it, keeps the
\* tasks done and the closeouts recorded, and one that records progress keeps
\* the self-check recorded before.
ProgressKept ==
  /\ \A e \in DOMAIN active \cap DOMAIN active' :
       /\ active[e].done \subseteq active'[e].done
       /\ IsPrefix(active[e].closeouts, active'[e].closeouts)
       /\ active[e].closeouts # active'[e].closeouts => active[e].check = active'[e].check
  /\ \A e \in DOMAIN active \cap (DOMAIN completed' \ DOMAIN completed) :
       active[e].done \subseteq completed'[e].done
NoLostUpdate == [][ProgressKept]_vars

\* A terminal record is final: it is never replaced, it stays once the active
\* record is gone, and a closed epoch never becomes active again.
ClosedStays ==
  /\ \A e \in DOMAIN completed \cap DOMAIN completed' : completed'[e] = completed[e]
  /\ DOMAIN completed \ DOMAIN active \subseteq DOMAIN completed'
  /\ failed \ DOMAIN active \subseteq failed'
  /\ (DOMAIN completed \union failed) \cap DOMAIN active' \subseteq DOMAIN active
TerminalFrozen == [][ClosedStays]_vars

\* No command waits: every lock taken is given back, even when the command is
\* refused or fails in the middle.
LocksReturned == \A l \in Locks : lock[l] # Free ~> lock[l] = Free

------------------------------------------------------------------------------
(* Implementation                                                           *)

\* While its active record exists an epoch is active, whatever terminal record
\* is being written beside it.
StatusOf(e) ==
  IF e \in DOMAIN active THEN "active"
  ELSE IF e \in DOMAIN completed THEN "completed"
  ELSE IF e \in failed THEN "failed" ELSE "absent"

Settled == [e \in DOMAIN completed \ DOMAIN active |-> completed[e]]

Registry == INSTANCE EpochRegistry WITH
              Epochs <- Epochs, MaxContinue <- Policy.maxEpochs, brake <- brake,
              status <- [e \in Epochs |-> StatusOf(e)], streak <- ContinueCount(Settled)

\* As long as no undo fails and no process dies, the interleaved commands do
\* nothing the atomic registry does not allow.
ImplementsRegistry == Registry!Spec
==============================================================================
