# Agentic Cadence in TLA+

Agentic Cadence is a command-line program (`agentic-cadence`, package
`codex_cadence`) that governs coding agents: what they may start, hand over,
continue and close. It has no server. Every command is a process of its own that
reads and writes JSON files below one *runtime root*, and an operator, several
agent sessions and an automation may run commands at the same time. This
directory holds TLA+ models of that system, the TLC configurations that check
them, and proofs for TLAPS.

    tlc -workers 2 -config MCEpochs.cfg MCEpochLifecycle.tla
    tlapm EpochLifecycleProofs.tla      # and the other ...Proofs modules

## 1. Inventory

All paths are below `src/codex_cadence/`.

### State: the runtime root

| files | written by | guarded by |
|---|---|---|
| `brake.json`: DRIVE, NEUTRAL or PARK | set-brake, clear-brake; `ensure_layout` on first use | `runtime.lock` (not in `ensure_layout`) |
| `epochs/active`, `completed`, `failed` | start-epoch, complete-epoch, fail-epoch, self-check, closeout-executor-result, start-governed-execution | `active-epoch.lock`, the first three under `runtime.lock` too |
| `handoffs/ready`, `claimed`, `completed`, `failed` | create-, prepare-, claim-, complete-, fail-handoff | `handoff-<digest>.lock` for moves, `runtime.lock` for claim and prepare, nothing for create |
| `approvals/` | approve-handoff | nothing |
| `logs/clean-square/` | clean-square, prepare-handoff | nothing; `runtime.lock` |
| `execution-runs/`, `real-executor-invocations/` | the executor commands, closeout | nothing |
| `work-ownership/active`, `closed`, `failed` | claim-, close-, fail-work-ownership, start-governed-execution | `work-ownership.lock` |
| `audit/events.jsonl` | every audited command | `audit-events.lock` |
| the packets of the controlled loop, Git/PR plans | their commands | stage-retry reservation; otherwise written once |

`store.py` gives three primitives. `atomic_write_json` (58-64) writes a temporary
file and renames it over the target, so that a reader sees the old or the new
document. `exclusive_lock` (150-165) creates a lock file with `O_EXCL`: it never
waits, the second command fails at once; the file is deleted in a `finally`, so a
process that dies leaves it, and no command ever removes such a file. `read_brake`
(196-202) reads the brake. Nothing else synchronises the commands.

### Components, their operations and what makes them correct

* **Epochs** (`epochs.py`, epoch commands of `cli.py`). An epoch is a bounded stretch of
  work on a few tasks. start-epoch, complete-epoch with a decision (STOP, CONTINUE, HANDOFF,
  ASK_APPROVAL), fail-epoch, self-check, closeout-executor-result. *Correct*: at
  most one active epoch; none starts or continues while the brake is set; the
  loop continues itself at most `max_epochs_without_user_approval` times in a
  row; an epoch ends once, one way, for good; no recorded progress is lost.
* **Self-check decision and election** (`epochs.py` 63-141, 935-1141). Pure: which candidates
  are elected, and CONTINUE or one of seventeen reasons not to. *Correct*: CONTINUE
  exactly when every gate is open; what is elected is electable, compatible, ranked and
  within the limits; election never produces what the decision then refuses as
  too much.
* **Handoffs** (`cli.py` 283-321, 1202-1480, `handoff_loop.py` 1536-1770). *Correct*: a
  handoff is claimed once, under DRIVE, with the approval its content needs; it is
  never lost and how it ended is final.
* **Brake**: an operator's stop must hold between a command's look at it and the
  command's effect.
* **Governed execution start** (`cli.py` 504-1024): one command that starts an
  epoch, binds a work-ownership record to it and appends an audit record, and undoes the
  earlier steps when a later one fails. *Correct*: all or nothing, also against
  concurrent commands.
* **Work ownership** (`ownership.py` 818-1302, `cli.py` 1637-1726, 2635-2722): claim, close
  and fail of the ownership of a task. *Correct*: a task has one owner, and the
  directories agree with the log.
* **Audit log** (`policy_audit.py` 1569-1633): a hash chain of JSON lines. *Correct*: each record
  carries its predecessor's hash, and a command whose record cannot be appended takes back what it did.
* **Operator approvals** (`approvals.py`): a signed file that names what it approves by checksum, a purpose
  and a period. *Correct*: it is good for that packet, that purpose and that period only, each time it is used.
* **Executor invocation** (`executor_readiness.py`, `executor_invocation.py`, closeout with an invocation
  file in `cli.py`): readiness, plan, approval, start of a real executor, its record, closeout.
  *Correct*: one approval binds one result to the epoch; the result is that executor's; what is credited and what is
  recorded agree, or somebody is told.
* **Controlled loop** (`cli.py` 2775-34431): some forty commands, each of which reads packets earlier ones
  printed and prints one. First the run (plan, start, invocation plan, invocation, closeout, tick, summary,
  outcome); then the runner (manifest, its approval, runner plan, approval, dry run, readiness, start); then
  its stages (readiness, approval, boundary, execution, closeout, outcome, continuation, input binding,
  completion) and the retry of a stage. *Correct*: what is accepted rests on one version of each packet,
  on approvals that still hold, and on what really happened; a retry runs once for what its boundary says.
* **Git and PR materialisation** (`git_pr_plan.py` 2425-2952, 3270-3819): an approved dirty plan becomes a commit on a new
  branch, an approved plan a pushed branch and a pull request, each by a series of git and gh processes in a checkout that nothing
  locks. *Correct*: the commit is the approved one, on the approved branch only, once; the source branch stays as it is; a failure is undone
  without loss; what is published is what was checked.
* **Audit replay and policies** (`policy_audit.py`), **executor contracts** (`executor_contract.py`),
  the **planning** of commits and pull requests (`git_pr_plan.py`, `branch_policy.py`),
  **review response** (`review_response.py`), **GitHub evidence, PR readiness, PR cycle, merge
  decision, roles**: see section 6. `release.py`, the command wrappers and
  the examples hold no logic of the runtime.

Components meet in three ways: they call each other inside one process (closeout
validates a result with the executor contract, completes the epoch, updates the run record and
appends an audit record); they share files between processes (the brake and
`runtime.lock` above all); and packets written by one command are checked, with their
checksums, by a later one.

### What is hard

Two commands interleave between any two file operations. A command reads
something without the lock that guards it and uses it after taking the lock (self-check, closeout,
claim, fail-handoff). Two files are changed one after the other, and the second
change may fail or the process may die (terminal record then active record, target of a move then
its source, epoch then run record then audit). Locks survive the dead, and so do executors. No lock covers
an invocation, a stage or the git checkout. Packets lie in files that an operator names, so that packets of different runs meet. The budget of the
loop is counted over a history other commands extend. `hazards` in `PROJECT.json` lists each
of these at its line, with the properties that would notice it going wrong.

## 2. Modules

| module | what it is |
|---|---|
| `SelfCheck` | the pure decisions: `ElectCandidates`, `SelfCheckDecision`, `SelfCheckPayload` |
| `SelfCheckRequests` | what may be put to the self-check command, and what is promised of its answer |
| `SelfCheckProofs` | that the promises are kept for every request |
| `MCSelfCheck` | the bounded family of requests TLC puts |
| `EpochRegistry` | what the epoch commands promise: one atomic step per operation |
| `EpochLifecycle` | the epoch commands as processes, one file operation per step |
| `EpochLifecycleProofs` | its inductive invariant and the theorems that follow from it; those that need more: no lost update, the budget of CONTINUE, one outcome, the refinement |
| `MCEpochLifecycle` | its small instance |
| `GovernedExecution` | governed start, work ownership and the audit log, beside the commands of `EpochLifecycle` |
| `GovernedExecutionProofs` | its inductive invariants and theorems |
| `MCGovernedExecution` | its small instances |
| `ExecutorReadiness` | the checks before a real executor may start, as sets of blockers over the world they look at |
| `ExecutorInvocation` | readiness, plan, invocation and closeout of a real executor, as processes |
| `ExecutorInvocationProofs` | its inductive invariant and theorems |
| `MCExecutorInvocation` | its small instance |
| `Evidence` | packets in versions, what a packet rests on, and how a command prints one |
| `ControlledRun` | the commands of one controlled run, beside the epoch it is about |
| `ControlledRunProofs` | its inductive invariant and theorems |
| `OperatorApproval` | what makes a signed approval good |
| `ControlledRunner` | the commands that start the controlled runner, and the approvals they verify |
| `RunnerStages` | a stage of the runner, from readiness to its outcome |
| `StageRetry` | what follows an outcome: the next stage, completion, or a retry |
| `MCControlledLoop` | the three parts of the loop, each from where the one before it ends |
| `ControlledLoopProofs` | the inductive invariant of the three parts together, and theorems |
| `GitMaterialization` | dirty commits, pushes and pull requests as processes over one checkout and one remote, one git process per step |
| `GitMaterializationProofs` | its inductive invariant and theorems |
| `MCGitMaterialization` | its small instance |
| `HandoffRegistry` | what the handoff commands promise |
| `HandoffLifecycle` | the handoff commands as processes |
| `HandoffLifecycleProofs` | its inductive invariant, and the proof that it implements the registry |
| `MCHandoffLifecycle` | its small instance |

`EpochLifecycle` EXTENDS `SelfCheck`: the decision a self-check stores, and the one
`complete-epoch CONTINUE` computes again, are the real decision function applied to what
the process has read. Each `...Lifecycle` module INSTANCEs its registry under a
refinement mapping and gives it as a property. `GovernedExecution` EXTENDS `EpochLifecycle`: its
commands run as further processes over the same brake, locks and epoch files, and every step of
`EpochLifecycle` is a step of it (`EpochStep`). `Evidence` EXTENDS `ExecutorReadiness` for `When` and
`Recommend`, the way every command collects blockers and picks its recommendation. The loop is a chain of
EXTENDS: `Evidence`, then `ControlledRun`, and `Evidence` with `OperatorApproval`, then `ControlledRunner`, `RunnerStages`,
`StageRetry`; `MCControlledLoop` puts both together.

### From the code to the lifecycle modules

* A *process* `p` is a command in flight. `pc[p]` names its next step, `job[p]`
  what it holds in memory: its arguments and whatever it has read. `Begin...`
  invokes a command with any arguments; `Finish` is its exit, successful or refused.
* A *step* is one file operation, or a read whose result is used by a later step. Reads and the
  computations before the next write that happen under the lock guarding what they read are one
  step (`StartLoad`, `CompleteLoad`, `CloseoutLoad`, `MoveLoad`), because nobody else
  can write it in between; the write is the next step. A read of anything that is not
  guarded by a held lock is a step of its own (`ReadRun`, `ObserveBrake`, `View`,
  `Decide`, `ClaimPolicy`, `FailPeek`, `ApproveFind`). The look of a claim at brake, record and
  approval is one step: the brake cannot change under the runtime lock, and an approval that is
  written between two of these reads could as well have been written before them.
* A directory is a function from the ids of its files to their documents; a document
  keeps what decisions read. An epoch: its tasks, those done, its closeouts, its last self-check. A
  terminal record: decision, done tasks and its place in `completed_at` order
  (`utc_now` has microseconds and completions are written under a lock, so stamps
  increase). A handoff: an opaque content, standing for everything its two
  checksums bind.
* `lock[l]` is the process that created the lock file, `Free`, or `Stale` once
  that process has died.
* Faults are enabled by the constant `Faults`: `"unlink"` the deletion of the source of a
  move fails, `"undo"` the deletion of the target written before fails as well, `"write"` the text of a prepared handoff cannot be written,
  `"crash"` a process dies between any two steps, `"clear"` an operator deletes a stale lock. The
  audit append of a closeout may always fail (`AuditFails`).
* `write_terminal_epoch` and `move_handoff` are `WriteTerminal`/`MoveWrite`, `UnlinkActive`/
  `MoveUnlink`, and on failure `UndoTerminal`/`MoveUndo`.
* `prepare-handoff` writes with `O_EXCL` and not atomically: between `PrepareOpen` and
  `PrepareFill` the file is `Torn` and every reader of it fails. If the text cannot be written, the file is deleted or stays torn (`PrepareFillFails`).

* A governed start holds `runtime.lock` all along, `work-ownership.lock` if an ownership record is
  named, and `active-epoch.lock` only within `start_epoch`: `Look`, `ValidateOwnership`, `WriteEpoch`,
  `Bind`, then `OpenAudit` .. `CloseAudit`; `RollBackEpoch` and `Unbind` on the way back. `work[p]` is
  what the command holds in memory. An ownership command is `Claim`, or `CloseLoad`, `MoveRecord` and
  `DropSource`, then the same audit steps, and `Revert...` on the way back.
* The audit log is the sequence of its complete lines, and `torn` if part of a line follows. A line's hash is its
  place: `prev` is what the command read as the chain's tip. `reported` remembers the records of
  which a command has said that it could not put them back.

### From the code to the executor modules

* `world` is all that readiness, plan and recheck look at: brake, repository, active epoch, task packet,
  ownership record, the runner's own readiness packet (the *bridge*), the audit log. Each validating function is an operator
  that gives the set of its blockers' codes; an operator's name is that of the part of the code it stands for.
* A command is a process as above. `Recheck` is everything `invoke-real-executor` checks before it creates the record's
  file exclusively; then `Starts` or `CannotStart`, `Runs`, `WriteRecord`, `AuditInvocation` or its failure. No lock is
  held, so each is a step. `BeginCloseout` is what closeout reads before `active-epoch.lock`, `CloseTask` what it does under it, then
  `BindRecord`, `AuditUpdate`, `AuditCloseout`.
* What an operator signs (`Target`) holds the head of the audit log; an invocation is closed out only if its audit record is the next.
* A process that dies leaves its executor running (`orphans`), which may write a result at any later time.
* `Drift` is everybody else: the brake is set, the epoch closed, the result removed, the log appended to or torn.
* `credits`, `told`, `overlap` and `crashed` are history, read by properties only.

### From the code to the loop modules

* `shelf[kind]` holds the packets of a kind in the order they were printed; a packet's version is its place. A command's
  arguments are versions: any of those on the shelf. A checksum is a version, so that two packets agree on
  a third exactly when they name the same version (`has`). A packet that is printed by a refused command is on the shelf as well, `ok` FALSE.
* For each command there are operators for the parts of its validation, an ordered table of recommendations (the
  first row that matches wins), and an action that prints the packet. `line` collects all that a packet rests on, on
  every way there is; no command reads it.
* `ControlledRun` has the epoch beside the packets (`active`, `ends`): the commands of `EpochLifecycle` and
  `ExecutorInvocation` as single steps (`StartRun`, `Run`, `Close`, `FailEpoch`), because the loop only reads what they leave.
* An approval is on the shelf too, of kind `sign`. `Verify` is `ApprovalBlockers` of the file as it is now; a lapsed one has
  expired, or is another file. The runner's own commands verify it again wherever the code does, and only there.
* `busy` are the stage processes that run, `printed` the executions whose output file still holds what
  they printed, `starter` the execution that started the epoch. `Exits` are the ways a stage process
  ends: in order, with another exit code, out of time (no exit code), or with output that says something it was not allowed to do.
* Most commands of a stage validate everything before them once more (`Upstream`), and the model does so too: an approval that lapses
  in the meantime blocks every later command of that stage.
* A retry is known by the checksum of what its boundary says (`Key`): stage, output file and terms, which are the arguments, the working directory, the timeout and the first
  try's output file (`cli.py` 19265-19294), but not the packets that led to it. `reserved` is taken under a lock together with the second look at the log (`RetryExecute`), so
  this is one step. `RetryOutputRemoved` is an operator who deletes the output file of a retry.
* `mistaken` in `StageCloseout`: the operator gives it another output file, secret, operator or root than the execution had. Its packet is blocked but names all that it was given, and
  the outcome and retry plans accept it, so that a stage that completed with its output intact may be planned for a retry. The closeout of a *retry* that is blocked is of no use to its
  outcome plan, whatever blocked it.

### From the code to `GitMaterialization`

* A *run* is a git-pr-dirty-commit-materialize in flight, a *publisher* a git-pr-materialize; `pc` and `job` are as above. `job[r].owns` is
  `"created_branch" in side_effects`, which decides whether a failure is undone.
* `commits` are the commits in the order they were made, `refs` the local branches, `head` the one that is checked out, `index` and
  `work` the content of the planned files, which the code always handles together. `"source"` is what the source head holds, `"change"` what was approved,
  `"edit"` anything else. The git commands do what git does with these: `switch` carries local changes along or refuses,
  `switch -c` and `branch` refuse an existing name, `commit` and `reset` act on what is checked out, `push` refuses what is no fast-forward.
* A plan is the branch it proposes. An approval is for that plan; whether the token matches is decided by the packet alone. `planned` is the fingerprint of dirty files the plans
  recorded. What a recheck reads is one step (`Recheck`, `CheckPlan`); everything that may only refuse (evidence files,
  branch policy, base branch, brake, body) is a refusal without effect, and left out.
* `Fail` and `FailPr` are git or gh processes that fail without having done anything, `"answer"` one that did it all the same, `"audit"`
  a failed append, `"crash"` a death between two steps or an append that raises because the log is torn or does not replay (`git_pr_plan.py` 2040-2044 catches `OSError` only), `"operator"` somebody who edits, commits or switches back while no command
  runs (`Quiet`).

Abstractions worth knowing: an epoch's age is the fact `late`, which may become true at any time
(`Age`), since only the comparison with `max_minutes_per_epoch` is read. Result
evidence is one of five values (`Results`), as closeout tells them apart; the parsing
behind them belongs to the executor contract. All epochs start from one snapshot of one branch, so
that the packet anchors closeout compares match. A generated id (`generate_handoff_id`,
`generate_epoch_id`) is one that is not in use. Closeout with a real-invocation file is in `ExecutorInvocation`; the
plan closeout may write (`--emit-git-pr-plan`) is in `ControlledRun`. In the loop modules an audit record is the packet it is about;
the fields of a packet that no later command reads, and limits on sizes and formats, are left out. The audit append of a closeout is abstract (`AuditAppended`, `AuditFails`); that of a governed start and of
the ownership commands is modelled. An append that fails has not written its whole line. A claim names no
epoch itself. `complete-work-ownership-from-closeout` is a close that is refused for more reasons. Handoffs edited by hand, with malformed estimates, are left out.

## 3. Runs

| run | question | instance |
|---|---|---|
| `self_check` | is the election justified, and CONTINUE given exactly when every gate is open? | every list of up to three of ten chosen candidates, with requests and policies; every combination of signals over short lists, one source of uncertainty at a time |
| `epochs` | what holds when five commands race over two epochs, die anywhere, fail to undo, and stale locks are removed: one active epoch, no lost progress, final ends, a bounded run of CONTINUE? | 2 processes, 2 epochs of two tasks, 1 run, budget 1, all faults |
| `epoch_live` | do all six commands implement `EpochRegistry`, with one outcome, and every lock given back? | 2 fair processes, 1 epoch, 2 results for one task, unlink may fail |
| `handoffs` | do the handoff commands implement `HandoffRegistry`, with all faults? | 3 processes on one id, plain, gated and barred contents |
| `governed` | do start, binding and audit record of a governed start stand or fall together, under DRIVE; has a task one owner, and do directories and log agree? | 2 processes, 1 epoch, 2 ownership records of one task, claim, close, start, fail-epoch and brake, up to 4 audited commands; write, unlink, append and undo may fail |
| `invocation` | is one approval bound once, with its own result, and is a lost binding told? | 2 processes, 2 invocations, 1 approval, 2 closeouts, 1 trouble of six kinds; with and without bridge, with one and with two tasks |
| `controlled_loop` | does what is accepted rest on one version of everything, on approvals that hold, and on what happened? | three parts; 2 extras, 2 stages, 2 output files of retries, 2 terms |
| `git` | does one plan become one commit where it was approved, with clean rollbacks and an untouched source branch, and is what is published what was checked? | 2 runs, 2 publishers, 1 dirty plan, 1 plan for a new and 1 for an existing pull request, 2 troubles of five kinds |
| `git_two_plans` | *violated*: is a reported commit on the branch of its plan, when two dirty plans are run at once? | 2 runs, 2 dirty plans, no trouble |
| `handoff_claim_race` | *violated*: is what is claimed what the policy allowed, when an id is created twice? | as `handoffs`, no faults |
| `governed_rollback` | *violated*: is the epoch gone once a governed start reports that it was rolled back? | a governed start and a self-check; the append may fail |
| `stage_timeout` | *violated*: can a failed stage whose plan names a retry be retried? | the stages part, 1 extra, one retry file, one set of terms |

**Properties of the runtime.** `AtMostOneActive`, `OneOutcome` and `ContinueBounded` are invariants;
`ContinueBounded` looks at the history that results, not at the check that should
bound it. `DriveGoverns`, `TerminalFrozen`, `NoLostUpdate`, `ClaimedWasAllowed` and
`EndedForGood` restrict steps. `ImplementsRegistry` and `ImplementsHandoffs` say that the file
operations implement atomic ones. They are stated where they hold:

* `OneOutcome`, and the refinement of `EpochRegistry`, need undo to work and processes to
  live. After a crash between the terminal write and the unlink the epoch is active and completed
  at once, and a later fail-epoch adds a failed record. `TerminalFrozen`, `AtMostOneActive` and
  `ContinueBounded` survive even that, and are checked with all faults.
* `ImplementsHandoffs` and `ClaimedWasAllowed` need ids that are created once (generated
  ids, or prepare-handoff with any id, which creates exclusively). They then survive
  all faults: a handoff left in two directories is refused by `find_handoff` for good.
* `OwnershipIsAudited` is about moments at which nobody holds `work-ownership.lock`, and about
  records whose command did not report that its undo failed. It needs processes to live: a start that dies
  after `Bind` leaves a binding no log entry tells of. `StartedIsReal` does not: a start tells the log last.
* `OneBoundPerApproval`: two commands may well start two executors from one approval, since nothing is reserved; that only one of
  their records is ever bound rests on the audit log. `NoStaleResult` allows a result of an executor that was under way at the same time: the
  code cannot tell these apart. `LostBindingsAreTold` says what is left when the record cannot be updated.

**Properties of the loop.** A packet names versions, some directly and some through others, and the code compares them pair by pair.
`OneChain` (the run), `OneRunner` (up to the selected stage) and `OneStageLine` (up to a completed runner)
say that these pairs suffice: on whatever ways a packet is reached, it is the same one. `OutcomeFitsEpoch` ties the
outcome's decision to how the epoch really ended. `ActedWhileApproved` says that approvals hold when they are acted on,
not only when they were accepted: for a stage its own and that of the task that stage 2 executes. `RetriedOnce` is about retry commands for one boundary,
at once or one after the other; a boundary with another output file or other terms is another retry, and the code lets both run. `CompletedByStarter` and `RunsOnOneLine` are about executions that are
repeated, cut short, or whose output is overwritten: what started the epoch is what the runner completes on, and no process is started on packets of two lines, so that
a retry tries again the very execution whose closeout and outcome led to it. Nothing is said of *why* a stage is retried: a closeout that was blocked because
its operator named another file, secret, operator or root leads to a retry as one whose output is lost does.

**Properties of the materialisations.** `CommitsOnlyWhereApproved`, `OneApprovedCommit`, `SourceIsLeftAlone` and `UndoneLeavesNoTrace` are stated for one dirty
plan in a checkout, given to any number of runs: then the branch it proposes is created by one run at a time, and while that run owns it nobody else
moves `head`, `index` or `work`. With two dirty plans this is lost (`git_two_plans`). All of them assume that nobody works in the checkout
while a command runs: between the check of a publisher and its push only other runs and publishers may come. `UndoneLeavesNoTrace` is about rollbacks whose every step worked; for what a failed step may cost see section 5.

**Bounds.** Two processes suffice for every pair of steps to interleave, and one process may run
any number of commands in turn. Two epochs give a successor and a second CONTINUE, which a
budget of 1 must refuse; `epochs` has no set-brake, and `epoch_live`, which has it, one epoch. Brakes are DRIVE and PARK: the code compares with
DRIVE only. For handoffs a third process lets a preparation, a failure and a claim of one id
overlap. `MaxAudit` = 3 lets a record be claimed, bound by a start and closed; further commands begin only while the log is shorter than that. In
`governed` a record is closed, not failed, which differs in the directory alone. Epochs do not age in
the governed runs: nothing there reads their age. Different ids of handoffs share only the runtime lock and the brake. In `invocation`, `MaxIssues` = 2 is one
readiness and one plan; `MaxTrouble` = 1 lets one thing go wrong beside what two commands do to each other. In the loop, `MaxExtra` = 2 counts every packet after the
first of its kind (of its stage), every refusal and every trouble: two of them suffice for a packet of one run to meet packets of another on two ways, or for a
repetition and the failure it is meant for. `Window` = 1 is the longest period an approval may have. With `Total` = 2 stage 1 is continued and stage 2 completes; the parts start where the part
before ends, because the packets of a finished part are only named, not read for more than that. In `git`, two runs and two publishers let each meet another of its kind in every step, and two troubles are what a failure and
a failure of its undoing need (three troubles pass as well, with 3.6 million states); one plan for an existing pull request tells `RemoteFits` and `CanOpen` apart. Processes, epochs, owners, runs, publishers and
invocations are symmetric in safety runs; the liveness run uses no symmetry.

**Deadlock** is checked for the runtime: a command can always be invoked. In `invocation` and the loop the bounds on packets end a behaviour. In the `git` runs
everything may have been materialised, or every process have died.

**Fairness.** `FairSpec` assumes weak fairness of each process's next step (`Moves`): the operating
system runs a command until it exits. No command waits for another (a lock that is held
refuses), so no step of a command in flight depends on any other process. Nothing is
assumed of invocations, of time or of operators, and `epoch_live` has no crash: a
dead process does leave its lock, and nobody has to clear it.

Every property of a passing run has a mutant (the operators marked *mutant*): a plausible
slip in the mapped code, under which TLC finds that property violated.

## 4. Proofs

### The self-check

`SelfCheckProofs` proves, for every set of requests that the command accepts (`CasesAssumption`: scores are numbers, enumerated values
are theirs, limits are natural numbers, no candidate is listed twice; `validate_candidate`, `policy_limit`, the argument parser and
`deduplicate_candidates` see to it; a list written by hand that names a candidate twice is outside), so for candidate lists of any length:

* `ElectionIsJustified`: `Spec => []ElectionJustified`
* `ElectionNeverAgainstItself`: `Spec => []ElectionFitsItsOwnCheck`
* `ContinuesExactlyWhenGoverned`: `Spec => []ContinueExactlyWhenGoverned`

The argument. `RankedIsSorted`: the sort key, ties settled by position, is a strict total order (`RankingIsAnOrder`), so counting who is
ahead sends the electable candidates one to one to the places (`PlaceIsTaken`, by the pigeonhole principle). The loop of the election is a function
over its rounds, which exists (`ElectionExists`) and keeps an account (`ElectedSoFar`): what is elected are the candidates of the rounds that
took theirs, counted, and within the caps (`AccountIsRight`; both by the least round at which it would fail, since induction is not available). A round that
refuses its candidate does so because of rounds before it, hence because of candidates that rank before (`PassedOverIsRefused`).
`VerdictIsFirst` and `TestsHold` turn the cascade into one conjunction; what is elected comes from the request, and the uncertainty of
the request is the worst it names (`UncertaintyIsWorst`), so that decision and election see the same limit and tests 1, 2 and 11 never hold.

### Epochs

`EpochLifecycleProofs` proves, for any processes, epochs, tasks, runs, policy and faults (from the
named assumption `EpochLifecycleAssumption`: constants have their types,
"free" and "stale" are not processes, started epochs fit their policy):

* `TypeCorrect`: `Spec => []TypeOK`
* `OneActive`: `Spec => []AtMostOneActive`
* `DriveGoverned`: `Spec => DriveGoverns`
* `ClosedForGood`: `Spec => TerminalFrozen`

They are about the commands of `EpochLifecycle` alone; for governed starts among them see below. `governed_rollback`
shows why `TerminalFrozen` and `NoLostUpdate` would then need the rollback to take the epoch lock.

Further down the module proves `NothingLost`: `Spec => NoLostUpdate`, and, from `PolicyAssumption` (the limit is a
natural number, as `policy_limit` demands), `ContinuesWithinBudget`: `Spec => []ContinueBounded`; and

* `EndsOneWay`: `Spec => []OneOutcome`
* `EpochsImplementRegistry`: `Spec => ImplementsRegistry`, the refinement (also from `PolicyAssumption`)

assuming that undo works and nobody dies half-way (`"undo"`, `"crash"` not in `Faults`; without that assumption both are false).

The argument. None but `TypeCorrect` is inductive: each needs to know what a process
*still knows* about the files when it acts. `IInv` is `TypeOK` together with `Control` and `StillActive`, which say of each process:

* `LocksHeld(p)`: at each step it holds the locks that step needs, and a lock has one
  holder, so that no two processes are inside the same critical section;
* `JobFits(p)`: its job is one its operation can have at that step;
* `FoundHolds(p)`: between its load and its write, what it found is still so: no active epoch for a
  start, none but its own for every other operation, and no completed record of it where one is about to be written;
* `StillActive(p)`: its own epoch is still there, because active records are deleted under their lock only;
* `DriveSeen(p)`: after the check of the brake, a start or a CONTINUE still sees DRIVE, because
  set-brake needs the runtime lock the process holds.

Every action is shown to preserve the part about the process that takes it (`OwnStep`) and
about the others (`OthersKeep`: a step that writes a file is taken by the holder of its lock, and
then no other process has a claim about that file). Crashes and cleared stale locks fit because a lock
becomes `Stale`, not `Free`, when its holder dies, and the dead process makes no claim any more.

`NoLostUpdate` needs one thing more, `Fresh`: the document a process is about to write extends the
active record. A process gets such a document only from a load (`Loads`), and until it writes nobody
else writes the record (`OneWriter`). `OneOutcome` needs `Settling`: an active epoch that has a terminal
record is just being ended by somebody (`Arrives`, `Leaves`: how a process gets between the two writes
and out again), who holds the lock; so whoever else is about to write a terminal record finds an
epoch that has none (`NoRecordYet`), and `OneRecord`: undo deletes the only one there is.

`ContinueBounded` is about the completed records in the order they were written, which their stamps say. `BInv` says
that the stamps of *n* records are 1 .. *n* (`Stamped`): a new record gets the next one, and what an undo deletes is the last one
(`LastRecord`), because its own command still holds the lock. The budget the command has counted still holds when it writes
(`Affordable`): nobody else writes a record meanwhile (`HistoryStep`). So a new record ends a stretch that was short enough
(`HistoryAdds`), and an undo shortens one (`HistoryDrops`).

The refinement rests on one fact more. The registry's step of an ending is the deletion of the active record, and its guards (DRIVE, the
budget) were tested long before. `Spent` carries them from the terminal write to that deletion: for the
registry, the budget counts the records of epochs no longer active (`Settled`), and those stay as they are between the two writes
(`ClosingAlone`, `SettledKept`). A start maps at `StartWrite`, the brake at `BrakeWrite`, and every other step is a stutter (`StepRefines`).

### Governed execution

`GovernedExecutionProofs` proves, from `GovernedAssumption` (the bounds have their types, and "none" is no id) and for any
processes, epochs, tasks, ownership records and faults:

* `GovernedTypes`: `GovernedSpec => []GovernedTypeOK`
* `LogIsOneChain`: `GovernedSpec => []ChainUnbroken`
* `OneActiveGoverned`: `GovernedSpec => []AtMostOneActive`
* `OneOwnerEach`: `GovernedSpec => []OneOwner`
* `StartedEpochsAreReal`: `GovernedSpec => []StartedIsReal`
* `OwnershipTold`: `GovernedSpec => []OwnershipIsAudited`, if no process dies (`"crash"` not in `Faults`)
* `GovernedStartsOnDrive`: `GovernedSpec => DriveGoverns`, if neither self-check nor closeout is in use. With them it is
  false: a command that had loaded an epoch before it was rolled back writes it again, whatever the brake is by then.

The argument. The processes of `EpochLifecycle` take part with their whole invariant, so its lemmas are stated over the set
of steps a process may be at (`TypedWith`) and for what a process can rely on *although* a rollback takes no lock
(`Control`, but not `StillActive`: the epoch a process has loaded may be gone, no other has come). `GInv` adds of
each governed process that its memory fits its step (`WorkFits`), which of the four locks it has (`GovernedLocks`), and
what it has found (`GovernedFound`). `Apart` is what a step of the one kind cannot do to the other.

The invariants for the properties build on `GInv`. `OwnerInv`: a command at work on a record knows where that record is,
and a closeout that has moved it out has left its task without an owner. `AuditInv`: a record nobody is at work on is where the
log says (`Agrees`), and for one somebody is at work on, `Between` says at every step how far files and log are apart, and that the command
still has what it needs to go either way; `Heard` is what one more event does to the story of a record. `StartInv`: an epoch
the log tells of, or a start is about to tell of, is active or ended, because whoever ends it writes its terminal record first;
a rollback is of an epoch that is not told yet. `DriveInv`: from its look at the brake to its write a start sees DRIVE.

### Invocations

`ExecutorInvocationProofs` proves, for any commands, executors, packets and troubles (from
`InvocationAssumption`: the bounds are numbers and the outcomes of executors have their fields):

* `InvocationTypes`: `Spec => []InvocationTypeOK`
* `ApprovalBindsOnce`: `Spec => []OneBoundPerApproval`
* `ResultIsItsOwn`: `Spec => []NoStaleResult`
* `CreditIsBoundOrTold`: `Spec => []LostBindingsAreTold`

No lock is held while an executor runs, so mutual exclusion cannot carry the proof. The log does: it only
grows (`LogStep`), an invocation that nobody has recorded has no entry, and a record is bound only if its entry
came *right after the head of the log that the operator's approval signed* (`Anchored`, the check of the
anchor in the code). Two records of one approval would both own that one place. For `NoStaleResult` the
invariant `SInv` keeps, with every copy of a result (the file, a record, what a closeout holds in memory), that it is by
the invocation itself or by one whose executor lived beside it.

### Handoffs

`HandoffLifecycleProofs` proves, from `HandoffLifecycleAssumption` and for any commands, ids, contents and faults:

* `HandoffTypes`: `Spec => []TypeOK`
* `HandoffsImplementRegistry`: `Spec => ImplementsHandoffs`, the refinement
* `ClaimsAreAllowed`: `Spec => ClaimedWasAllowed`
* `EndsAreFinal`: `Spec => EndedForGood`

The last three assume `GivenIds["create"] = {}`: nobody passes `--id` to create-handoff. Without that they are
false, which `handoff_claim_race` shows for the claim. `IInv` says of each process which locks it holds (`Holds`) and
what it has read that still holds (`Knows`): a create or a prepare that no record of its id exists, a move
where the records of its id are and what they say, a claim that the brake is DRIVE and the content may be
picked up. Of each id it says that all its records have one content (`OneContent`) and that its approval is of
that content (`ApprovalFits`), and that an id being created is nobody else's to create or prepare (`OneCreator`): creation takes no lock,
so this is all that protects it. `Effects` lists the six ways in which a step can change the records of an id. From
them follow that other processes' knowledge lasts (`OthersKnow`), that a content once there stays (`ContentKept`), and the
refinement: the status of an id changes when a ready file gets its text and when a move deletes its source,
and in no other step (`Publishes`, `MovesStatus`). A crash anywhere else maps to a stutter.

### Materialisation

`GitMaterializationProofs` proves, from `MaterializationAssumption` (plans, branches and processes are told apart) and for any runs, publishers, plans
and troubles:

* `MaterializationTypes`: `Spec => []GitTypeOK`
* `SourceLeftAlone`: `Spec => SourceIsLeftAlone`
* `PlanBecomesOneCommit`: `Spec => []OneApprovedCommit`
* `UndoneWithoutTrace`: `Spec => UndoneLeavesNoTrace`
* `CommitsWhereApproved`: `Spec => []CommitsOnlyWhereApproved`
* `PublishedAsChecked`: `Spec => []PublishedIsWhatWasChecked`

All but the first assume one dirty plan (`DirtyPlans = {d}`); `git_two_plans` shows what happens without it. Nothing locks
the checkout, so the argument is that the branch itself is the lock. `LInv` says of a run that has created it (`Owning`) that it is the only
one, that the branch exists, and, until it returns to the source branch, that it is the branch checked out (`AtIt`); of a run that has not yet created it (`Before`)
that it changes nothing in the checkout. A run that finds the branch there fails without undoing anything, and a run that dies leaves
the branch behind, so that no run after it passes the recheck. `CInv` adds what is committed: what an owner has seen of index and
files is still so (`SeesOK`, `OwnOK`), and each reported commit is on the source head, with the approved content (`ReportsOK`, `Approved`).

On these rest three more. `UInv` (`UndoOK`): what a run remembers of files and index is still so at every step of a rollback none of whose steps
has failed. `PInv`: a publisher that has claimed its plan, by the local branch of a standard plan or the pull request of a dirty
one, is the only one that has (`Claim`, `Taken`), and what it holds, the remote branch and the reports are all the commit that was
checked (`PubAt`, `PrOK`). `HInv`: a commit a run makes for its plan is in the history of the plan's branch, and every other branch reaches commits of the
operator only (`MadeOn`, `TheOperators`). A history is a recursive function over the commits. That it exists, is
unique and stays as it is when a commit is added is proved from a least counterexample: a set of numbers that is not empty has a least
element (`LeastNumber`, from the library's `WFMin`), which needs no operator as a parameter.

### The controlled run

`ControlledRunProofs` proves, for any number of packets and troubles (from `ExtraAssumption`, the bound is a natural number, and
`ControlledAssumption`, the statuses a closeout knows):

* `RunTypeCorrect`: `RunSpec => []ControlledTypeOK`
* `RunIsOneChain`: `RunSpec => []OneChain`
* `OutcomeIsOfItsEpoch`: `RunSpec => []OutcomeFitsEpoch`

`RunSpec` is the first part of `controlled_loop` by itself: no step of the other two can be taken in it. What every packet must
be is `Fits`: if it is accepted, it names accepted packets that are there, and they agree as its command has demanded
(`StartFits` to `OutcomeFits`). This lasts, because the shelf only grows: a record of an invocation is rewritten, but not in what another packet
has taken from it (`Grows`, `FitLasts`). `OneChain` asks for more than any command compares: it follows from `AllFit` by
naming, for a given outcome plan, the one version of each kind that is found on one way, and showing kind after kind that all the other ways
lead to it (`ChainIsOne`). For the epochs the invariant is `Epochs`: a closeout that is terminal has ended its epoch, which
is never active again, so that neither a later closeout nor an operator who fails the active epoch changes how it ended.
`RunInv`, the conjunction, was also checked by TLC before it was proved.

### The controlled loop

`ControlledLoopProofs` is about the specification that `controlled_loop` checks, all three parts of it. It proves, for any number of extras
(packets printed again, refusals, lapses, deaths), any files and terms of retries, one stage or two, and whichever parts there are (from the assumptions of the
modules: bounds are numbers, `Total` is 1 or 2):

* `LoopTypeCorrect`: `Spec => []TypeOK`
* `LoopIsOneChain`: `Spec => []OneChain`; `LoopOutcomeIsOfItsEpoch`: `Spec => []OutcomeFitsEpoch`
* `RunnerIsOneLine`: `Spec => []OneRunner`
* `StagesAreOneLine`: `Spec => []OneStageLine`
* `RunnerCompletesOnItsStarter`: `Spec => []CompletedByStarter`
* `RunsAreOneLine`: `Spec => []RunsOnOneLine`
* `LoopActsWhileApproved`: `Spec => ActedWhileApproved`
* `RetriesRunOnce`: `Spec => RetriedOnce`

All follow from `LoopKeepsToIt`: `Spec => []LoopInv`. `LoopInv` has one invariant for each part: `RunInv` as above, `RunnerInv`, `StageInv`, with what a part
never touches (`RunFrame`, `StagesAreNoRun`). The last two set each packet against the packets that it names (`Of`): a table says which kinds it names
(`RunnerGives`, `StageGives`), and `RunnerLinks` and `StageLinks` what its command found when it compared them. As nothing on the shelf is ever written over
(`Keeps`), such a link holds for good once it held (`OfLasts`), and each command needs one lemma: what it prints is linked in this way
(`...Keeps` for the runner, `...Says` for the stages).

`OneRunner` follows by walking down from the stage that was selected and showing at each kind that every packet that names it names that version (`RunnerClimbs`).
The stages are harder: not every command compares everything. The packet that settles a stage is its outcome plan, whose command reads all of the stage at once (`TrailLinks`);
a completed runner reaches stage 1 only through the binding of stage 2, so that `ToldIs` and `SecondTold` show what each way leads to, and a retry hangs on the
stage's own outcome (`RetryIsOne`). The invariant needs a fact that is nowhere written: a bound stage was never retried, because the input binding does
not accept an outcome that a retry followed (section 5, 6).

For `CompletedByStarter`, `Starters`: only the process that starts the epoch can end in order in stage 2. For `RunsOnOneLine`, `JobFits`: the files a process was given
hang together as those of an outcome (`OnTrail`) or of a reviewed retry (`OnRetry`) do, and stay so, as packets are never written over. For `RetriedOnce`, `Reserves`: exactly
the retries that were started are reserved. `ActedWhileApproved` needs no history: the two commands that run a process
and the one that starts the runner are the only ones that do (`LoopFrame`), and each verifies the signatures in the step in which it acts (`StepIsApproved`).
`StageInv` was checked by TLC, conjunct by conjunct, before it was proved; this is how the two stronger links for outcome and binding were found.

### What stays with TLC

Every invariant the passing runs check is proved. Only model-checked: `LocksReturned`, because liveness is out of the prover's reach.

## 5. Where code and documents disagree

1. **Closeout and the brake** (no run). The evidence is validated against a brake read without
   a lock (`cli.py` 35796); the locked part (`epochs.py` 706) does not read it again. With
   PARK set in between, completion is recorded, against the validation's own message and `docs/protocol.md` 1310.
2. **Closeout replay** (no run). The run record is read before the lock (`cli.py`
   36904) and marked closed after it (37090). Two closeouts of one run both find it pending; the
   epoch records it twice, against `docs/protocol.md` 1341-1342.
3. **Create races claim** (`handoff_claim_race`). create-handoff tests and replaces without a lock
   (`cli.py` 313-315). If the replacement falls between a claim's policy check (1429) and its move
   (1219 reads the record again), gated work is claimed without approval, against `docs/protocol.md` 929.

4. **Rollback of a governed start** (`governed_rollback`). When the audit append fails, the epoch is unlinked
   after `active-epoch.lock` was given back (`cli.py` 970, and 927 for a failed binding). A self-check that loaded the
   epoch before writes it again: the packet says `epoch_started: false`, and the epoch is active, against
   `docs/protocol.md` 1299-1303 and the assertion at `tests/test_cadence.py` 6012.

5. **A stage that ran out of time** (`stage_timeout`). It has no exit code and is *failed* (`cli.py` 31377-31381, 31479), its outcome plan names
   a retry (`docs/protocol.md` 2512, 2750-2752); a retry plan asks for an integer exit code that is not 0 (17179-17196), so that it is always refused.
6. **A stage after a retry** (no run). A continuation may be selected from a retry's outcome, and `docs/protocol.md` 3800-3804 says that it is then bound by
   the input binding. The binding demands an outcome plan of the stage itself that selected the next stage (`cli.py` 24531-24612), and
   that plan says *failed* or *blocked*: a runner whose first stage was retried stops there. `BindingOutcome` models it as it is.
7. **Two dirty plans in one checkout** (`git_two_plans`). The branch a run creates, what it stages and what it commits are whatever is
   checked out by then (`git_pr_plan.py` 2797-2820), and the commit is checked at `HEAD` (2850-2905). Another plan's `switch -c` in between puts the first plan's commit
   on the second plan's branch, and the packet says *materialized*; `README.md` 2314-2315 and `docs/session-handoff.md` 20 promise the approved branch.
8. **A rollback that goes on** (no run). If a check after the commit fails and then `git reset` does, the remaining steps run all the same (`git_pr_plan.py`
   2710-2725). When the change had been staged, the switch finds a clean checkout and restores the source's files, and `branch -D` drops the commit: the approved
   change is left in the reflog only. The packet does report the failed step; the test at `tests/test_git_pr_plan.py` 1197-1256 covers rollbacks whose steps work.

## 6. Not modelled, and what is left

* **Plans for commits and pull requests** (`git_pr_plan.py` up to 2425, `branch_policy.py`): read-only packets; a materialisation makes its plan again, and of that
  `GitMaterialization` keeps what concerns the checkout, the branches and the remote.
* **Review response, GitHub evidence, PR readiness, PR cycle, merge decision** (`review_response.py`, `github_evidence.py`, `pr_readiness.py`,
  `pr_cycle.py`, `merge_decision.py`): packets over evidence that GitHub gives, in the manner of `Evidence`; the resolution of a review thread is the one step with an effect.
* **Roles, resume verification, loop policy, estimates**: decisions over packets without state of their own. `ExecutorReadiness` takes the verdict of a role packet.
* **Audit replay**: its verdict (`clean`, `torn`) is modelled, the recomputation of hashes is not.
* **The brake on first use**: `ensure_layout` writes DRIVE if it saw no file (`store.py` 183), also if another process set PARK in between. All instances
  start from a root that is laid out.
* **The fixture executor** (`executor_runner.py`): what it may do is `Outcomes`.
* Left to state and prove: an abstract specification of a governed start with one atomic step, and more than two stages (the code's continuation knows no third).

Out of scope: capturing repository state (git), rendering and parsing of packets, scanning of
repository text for candidates, packaging checks, adapters and examples.
