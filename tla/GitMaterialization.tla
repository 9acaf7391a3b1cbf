-------------------------- MODULE GitMaterialization --------------------------
(***************************************************************************)
(* Turning approved plans into a commit, a pushed branch and a pull        *)
(* request: git-pr-dirty-commit-materialize and git-pr-materialize         *)
(* (git_pr_plan.py).                                                       *)
(*                                                                         *)
(* All commands share one checkout and nothing locks it.  A command reads  *)
(* the repository, then changes it one git process at a time; what others  *)
(* do in between interleaves, every process may fail, and the command may  *)
(* die between any two.  That git refuses to create a branch that exists   *)
(* is all that keeps two runs of one plan apart.                           *)
(*                                                                         *)
(* The planned files are taken together: a tree, the index and the working *)
(* files each hold one content.  Plans are told apart by the branch they   *)
(* propose; plans of one task share source head, files and message.  What  *)
(* a recheck finds wrong with the evidence files, the base branch, the     *)
(* branch policy, the brake or the body only refuses, and changes nothing. *)
(***************************************************************************)
EXTENDS Naturals, FiniteSets, Sequences

CONSTANTS
  Runs,         \* processes of git-pr-dirty-commit-materialize
  Publishers,   \* processes of git-pr-materialize
  Source,       \* the branch the plans were made on
  DirtyPlans,   \* dirty-worktree plans, by the branch each proposes
  CleanPlans,   \* standard plans, by the branch each proposes
  Updates,      \* those approved for an existing pull request
  MaxTrouble,   \* bound: failures, deaths and the operator's own steps
  Troubles      \* which of those occur

Plans == DirtyPlans \union CleanPlans
Branches == Plans \union {Source}

ASSUME MaterializationAssumption ==
  /\ DirtyPlans \intersect CleanPlans = {} /\ Source \notin Plans
  /\ Updates \subseteq CleanPlans /\ MaxTrouble \in Nat /\ Runs \intersect Publishers = {}
  /\ "operator" \notin Runs \union Publishers

VARIABLES
  commits,  \* the commits, in the order they were made: parent, tree, author
  head,     \* the branch that is checked out
  refs,     \* local branch -> commit, 0 if there is none
  index,    \* content of the planned files in the index
  work,     \* and on disk
  remote,   \* branch on the remote -> commit, 0 if there is none
  pulls,    \* the branches with a pull request
  planned,  \* the fingerprint the dirty plans recorded: what was staged, what was on disk
  log,      \* the audit records
  packets,  \* the dirty commit results that were emitted as materialized
  pc, job,  \* each process: where it is, what it holds in memory
  trouble   \* troubles so far

repo == <<commits, head, refs, index, work>>
hub == <<remote, pulls>>
records == <<log, packets>>
gvars == <<repo, hub, records, planned, pc, job, trouble>>

Contents == {"source", "change", "edit"}
Trees == Contents \union {"base"}
SourceHead == 2      \* the commit the plans were made at; 1 is its parent
Procs == Runs \union Publishers
NoJob == [plan |-> Source, snap |-> "source", found |-> "source", owns |-> FALSE,
          undone |-> FALSE, commit |-> 0]

Tree(c) == commits[c].tree
HeadTree == Tree(refs[head])
Fingerprint == <<index, work>>
Clean == Fingerprint = <<HeadTree, HeadTree>>

\* The commits reachable from c.
History(c) ==
  LET reach[k \in 0..Len(commits)] == IF k = 0 THEN {} ELSE {k} \union reach[commits[k].parent]
  IN  reach[c]

Init ==
  /\ commits = <<[parent |-> 0, tree |-> "base", by |-> "operator"],
                 [parent |-> 1, tree |-> "source", by |-> "operator"]>>
  /\ head = Source /\ refs = [b \in Branches |-> IF b = Source THEN SourceHead ELSE 0]
  /\ \/ work = "source" /\ index = "source"
     \/ work = "change" /\ index \in Contents
  /\ planned = Fingerprint
  /\ pulls = Updates
  /\ \E seen \in {1, SourceHead} : remote = [b \in Branches |-> IF b \in Updates THEN seen ELSE 0]
  /\ log = {} /\ packets = {}
  /\ pc = [p \in Procs |-> "idle"] /\ job = [p \in Procs |-> NoJob] /\ trouble = 0

------------------------------------------------------------------------------
(* Git, as far as the commands use it                                       *)

\* A trouble of a kind, within the bound.
Meets(kind) == kind \in Troubles /\ trouble < MaxTrouble /\ trouble' = trouble + 1

\* git switch carries changes along, unless they touch what the switch has to change.
CanSwitch(c) == HeadTree = Tree(c) \/ Clean \/ index = Tree(c)
SwitchTo(b, c) ==
  /\ CanSwitch(c) /\ head' = b
  /\ IF HeadTree # Tree(c) /\ Clean THEN index' = Tree(c) /\ work' = Tree(c)
     ELSE UNCHANGED <<index, work>>

\* git commit records the index on top of whatever branch is checked out.
CommitIndex(author) ==
  /\ index # HeadTree
  /\ commits' = Append(commits, [parent |-> refs[head], tree |-> index, by |-> author])
  /\ refs' = [refs EXCEPT ![head] = Len(commits) + 1]

CanPush(b) == refs[b] # 0 /\ (remote[b] = 0 \/ remote[b] \in History(refs[b]))

------------------------------------------------------------------------------
(* A process                                                                *)

Goto(p, step, j) == pc' = [pc EXCEPT ![p] = step] /\ job' = [job EXCEPT ![p] = j]
Next_(p, step) == Goto(p, step, job[p])
Exit(p) == Goto(p, "idle", NoJob)
Branch(p) == job[p].plan

\* An audit record is appended, or the append fails and the step goes on to another place.
\* A log that is torn or does not replay makes the append raise what nobody catches: no
\* record, no packet, and the command ends where it is, which is Die.
Record(p, kind, how) == [kind |-> kind, by |-> p, plan |-> Branch(p), commit |-> job[p].commit, how |-> how]

Quiet == \A p \in Procs : pc[p] \in {"idle", "dead"}

Die(p) ==
  /\ pc[p] \notin {"idle", "dead"} /\ Meets("crash")
  /\ Goto(p, "dead", NoJob) /\ UNCHANGED <<repo, hub, records, planned>>

------------------------------------------------------------------------------
(* git-pr-dirty-commit-materialize                                          *)

PlanStands_NotTheChange(b) ==                  \* mutant: the change is not compared again
  head = Source /\ refs[Source] = SourceHead /\ ~Clean /\ refs[b] = 0
\* The approved token is for this plan; the plan is made again and compared.
PlanStands(b) ==
  /\ head = Source /\ refs[Source] = SourceHead
  /\ Fingerprint = planned /\ ~Clean
  /\ refs[b] = 0

Recheck(r) ==
  /\ pc[r] = "idle"
  /\ \E b \in DirtyPlans : PlanStands(b) /\ Goto(r, "checked", [NoJob EXCEPT !.plan = b])
  /\ UNCHANGED <<repo, hub, records, planned, trouble>>

Announce(r) ==
  /\ pc[r] = "checked"
  /\ \/ /\ log' = log \union {Record(r, "commit_intent", "approved")}
        /\ Next_(r, "announced") /\ UNCHANGED trouble
     \/ Meets("audit") /\ Exit(r) /\ UNCHANGED log
  /\ UNCHANGED <<repo, hub, packets, planned>>

AfterFailure_AlwaysUndone(r) == "resetting"    \* mutant: also a run without a branch of its own undoes
\* What a failed command leads to: only a run that has created its branch undoes.
AfterFailure(r) == IF job[r].owns THEN "resetting" ELSE "failed"

Fail(r) ==
  /\ pc[r] \in {"announced", "snapped", "branched", "added", "staged", "committed"}
  /\ Meets("command") /\ Next_(r, AfterFailure(r))
  /\ UNCHANGED <<repo, hub, records, planned>>

SnapshotIndex(r) ==
  /\ pc[r] = "announced" /\ Goto(r, "snapped", [job[r] EXCEPT !.snap = index])
  /\ UNCHANGED <<repo, hub, records, planned, trouble>>

\* git switch -c refuses a branch that exists.
CanCreate(b) == refs[b] = 0
CreateAndSwitch_Stays(r) ==                    \* mutant: git branch, without switching to it
  /\ pc[r] = "snapped" /\ CanCreate(Branch(r))
  /\ refs' = [refs EXCEPT ![Branch(r)] = SourceHead]
  /\ Goto(r, "branched", [job[r] EXCEPT !.owns = TRUE, !.found = work])
  /\ UNCHANGED <<commits, head, index, work, hub, records, planned, trouble>>
CreateAndSwitch(r) ==
  /\ pc[r] = "snapped"
  /\ IF CanCreate(Branch(r)) /\ CanSwitch(SourceHead)
     THEN /\ SwitchTo(Branch(r), SourceHead)
          /\ refs' = [refs EXCEPT ![Branch(r)] = SourceHead]
          /\ Goto(r, "branched", [job[r] EXCEPT !.owns = TRUE, !.found = work])
     ELSE Next_(r, AfterFailure(r)) /\ UNCHANGED <<head, refs, index, work>>
  /\ UNCHANGED <<commits, hub, records, planned, trouble>>

StagePlanned(r) ==
  /\ pc[r] = "branched" /\ index' = work /\ Next_(r, "added")
  /\ UNCHANGED <<commits, head, refs, work, hub, records, planned, trouble>>

\* git diff --cached names the planned files, or it does not.
CheckStaged(r) ==
  /\ pc[r] = "added"
  /\ Next_(r, IF index # HeadTree THEN "staged" ELSE AfterFailure(r))
  /\ UNCHANGED <<repo, hub, records, planned, trouble>>

CreateCommit(r) ==
  /\ pc[r] = "staged"
  /\ \/ CommitIndex(r) /\ Next_(r, "committed")
     \/ index = HeadTree /\ Next_(r, AfterFailure(r)) /\ UNCHANGED <<commits, refs>>
  /\ UNCHANGED <<head, index, work, hub, records, planned, trouble>>

\* HEAD is looked at, not the branch: parent, message and files must be as approved.
CheckCommit(r) ==
  /\ pc[r] = "committed"
  /\ LET c == refs[head] IN
       Goto(r, IF commits[c].parent = SourceHead /\ Tree(c) # Tree(SourceHead)
               THEN "verified" ELSE AfterFailure(r),
            [job[r] EXCEPT !.commit = c])
  /\ UNCHANGED <<repo, hub, records, planned, trouble>>

\* A result without its audit record is emitted as blocked.
ReportCommit(r) ==
  /\ pc[r] = "verified"
  /\ \/ /\ log' = log \union {Record(r, "commit_result", "materialized")}
        /\ Next_(r, "recorded") /\ UNCHANGED trouble
     \/ Meets("audit") /\ Exit(r) /\ UNCHANGED log
  /\ UNCHANGED <<repo, hub, packets, planned>>

EmitCommit(r) ==
  /\ pc[r] = "recorded"
  /\ packets' = packets \union {[plan |-> Branch(r), commit |-> job[r].commit]}
  /\ Exit(r) /\ UNCHANGED <<repo, hub, log, planned, trouble>>

\* The rollback: each command is tried, also after one before it has failed.
Undo(r, step, next, works, effect) ==
  /\ pc[r] = step
  /\ \/ works /\ effect /\ Next_(r, next) /\ UNCHANGED trouble
     \/ /\ IF works THEN Meets("command") ELSE UNCHANGED trouble
        /\ Goto(r, next, [job[r] EXCEPT !.undone = FALSE])
        /\ UNCHANGED <<head, refs, index, work>>
  /\ UNCHANGED <<commits, hub, records, planned>>

ResetToSource_Hard(r) ==                       \* mutant: git reset --hard
  /\ pc[r] = "resetting" /\ Goto(r, "rereading", [job[r] EXCEPT !.undone = TRUE])
  /\ refs' = [refs EXCEPT ![head] = SourceHead]
  /\ index' = Tree(SourceHead) /\ work' = Tree(SourceHead)
  /\ UNCHANGED <<commits, head, hub, records, planned, trouble>>
\* git reset --mixed moves whatever branch is checked out.
ResetToSource(r) ==
  /\ pc[r] = "resetting"
  /\ \/ /\ refs' = [refs EXCEPT ![head] = SourceHead] /\ index' = Tree(SourceHead)
        /\ Goto(r, "rereading", [job[r] EXCEPT !.undone = TRUE]) /\ UNCHANGED trouble
     \/ Meets("command") /\ Next_(r, "rereading") /\ UNCHANGED <<refs, index>>
  /\ UNCHANGED <<commits, head, work, hub, records, planned>>
RestoreIndex(r) ==
  Undo(r, "rereading", "returning", TRUE, index' = job[r].snap /\ UNCHANGED <<head, refs, work>>)
ReturnToSource(r) ==
  Undo(r, "returning", "deleting", CanSwitch(refs[Source]),
       SwitchTo(Source, refs[Source]) /\ UNCHANGED refs)
DeleteBranch_CheckedOut(r) ==                  \* mutant: git update-ref -d, which asks nothing
  Undo(r, "deleting", "failed", refs[Branch(r)] # 0,
       refs' = [refs EXCEPT ![Branch(r)] = 0] /\ UNCHANGED <<head, index, work>>)
DeleteBranch(r) ==
  Undo(r, "deleting", "failed", head # Branch(r) /\ refs[Branch(r)] # 0,
       refs' = [refs EXCEPT ![Branch(r)] = 0] /\ UNCHANGED <<head, index, work>>)

ReportFailure(p, kind) ==
  /\ pc[p] = "failed"
  /\ \/ log' = log \union {Record(p, kind, "blocked")} /\ UNCHANGED trouble
     \/ Meets("audit") /\ UNCHANGED log
  /\ Exit(p) /\ UNCHANGED <<repo, hub, packets, planned>>

RunStep(r) ==
  \/ Recheck(r) \/ Announce(r) \/ SnapshotIndex(r) \/ CreateAndSwitch(r) \/ StagePlanned(r)
  \/ CheckStaged(r) \/ CreateCommit(r) \/ CheckCommit(r) \/ ReportCommit(r) \/ EmitCommit(r)
  \/ Fail(r) \/ ResetToSource(r) \/ RestoreIndex(r) \/ ReturnToSource(r) \/ DeleteBranch(r)
  \/ ReportFailure(r, "commit_result") \/ Die(r)

------------------------------------------------------------------------------
(* git-pr-materialize                                                       *)

CommitStands_NotTheHead(b, k) ==               \* mutant: the branch's own head is not looked at
  k.plan = b /\ commits[k.commit].parent = SourceHead /\ Tree(k.commit) # Tree(SourceHead) /\ Clean
\* The dirty commit result is checked against the plan and against the repository.
CommitStands(b, k) ==
  /\ k.plan = b
  /\ refs[b] = k.commit
  /\ commits[k.commit].parent = SourceHead /\ Tree(k.commit) # Tree(SourceHead)
  /\ Clean

\* A standard plan is made again: same branch and head, clean, and nothing in its way.
CleanPlanStands(b) == head = Source /\ refs[Source] = SourceHead /\ Clean /\ refs[b] = 0

\* A new pull request needs a fresh remote branch, an update one that shows the commit.
RemoteFits(b, c) == IF b \in Updates THEN b \in pulls /\ remote[b] = c ELSE remote[b] = 0

CheckPlan(g) ==
  /\ pc[g] = "idle"
  /\ \/ \E b \in DirtyPlans, k \in packets :
          CommitStands(b, k) /\ RemoteFits(b, k.commit) /\ Goto(g, "checked", [NoJob EXCEPT !.plan = b, !.commit = k.commit])
     \/ \E b \in CleanPlans :
          CleanPlanStands(b) /\ RemoteFits(b, SourceHead) /\ Goto(g, "checked", [NoJob EXCEPT !.plan = b, !.commit = SourceHead])
  /\ UNCHANGED <<repo, hub, records, planned, trouble>>

AnnouncePr(g) ==
  /\ pc[g] = "checked"
  /\ \/ /\ log' = log \union {Record(g, "pr_intent", "approved")}
        /\ Next_(g, IF Branch(g) \in DirtyPlans THEN "branched" ELSE "announced") /\ UNCHANGED trouble
     \/ Meets("audit") /\ Exit(g) /\ UNCHANGED log
  /\ UNCHANGED <<repo, hub, packets, planned>>

\* git branch, at the head that was checked, without switching.
CreateBranch(g) ==
  /\ pc[g] = "announced"
  /\ IF CanCreate(Branch(g))
     THEN refs' = [refs EXCEPT ![Branch(g)] = job[g].commit] /\ Next_(g, "branched")
     ELSE Next_(g, "failed") /\ UNCHANGED refs
  /\ UNCHANGED <<commits, head, index, work, hub, records, planned, trouble>>

\* git push sends what the branch points to by then; its answer may be lost.
Push(g) ==
  /\ pc[g] = "branched"
  /\ IF CanPush(Branch(g))
     THEN /\ remote' = [remote EXCEPT ![Branch(g)] = refs[Branch(g)]]
          /\ \/ Next_(g, "pushed") /\ UNCHANGED trouble
             \/ Meets("answer") /\ Next_(g, "failed")
     ELSE Next_(g, "failed") /\ UNCHANGED <<remote, trouble>>
  /\ UNCHANGED <<repo, pulls, records, planned>>

\* gh pr create refuses a second pull request for a branch, gh pr edit needs one.
CanOpen(b) == remote[b] # 0 /\ (b \in pulls <=> b \in Updates)
OpenPr(g) ==
  /\ pc[g] = "pushed"
  /\ IF CanOpen(Branch(g))
     THEN /\ pulls' = pulls \union {Branch(g)}
          /\ \/ Next_(g, "opened") /\ UNCHANGED trouble
             \/ Meets("answer") /\ Next_(g, "failed")
     ELSE Next_(g, "failed") /\ UNCHANGED <<pulls, trouble>>
  /\ UNCHANGED <<repo, remote, records, planned>>

FailPr(g) ==
  /\ pc[g] \in {"announced", "branched", "pushed"} /\ Meets("command") /\ Next_(g, "failed")
  /\ UNCHANGED <<repo, hub, records, planned>>

ReportPr(g) ==
  /\ pc[g] = "opened"
  /\ \/ log' = log \union {Record(g, "pr_result", "materialized")} /\ UNCHANGED trouble
     \/ Meets("audit") /\ UNCHANGED log
  /\ Exit(g) /\ UNCHANGED <<repo, hub, packets, planned>>

PublishStep(g) ==
  \/ CheckPlan(g) \/ AnnouncePr(g) \/ CreateBranch(g) \/ Push(g) \/ OpenPr(g)
  \/ FailPr(g) \/ ReportPr(g) \/ ReportFailure(g, "pr_result") \/ Die(g)

------------------------------------------------------------------------------
(* The operator works in the same checkout, but not while a command runs    *)

Edit ==
  /\ Meets("operator") /\ \E c \in Contents : work' = c
  /\ UNCHANGED <<commits, head, refs, index>>
OperatorCommit ==
  /\ Meets("operator") /\ work # HeadTree
  /\ commits' = Append(commits, [parent |-> refs[head], tree |-> work, by |-> "operator"])
  /\ refs' = [refs EXCEPT ![head] = Len(commits) + 1] /\ index' = work
  /\ UNCHANGED <<head, work>>
OperatorReturns ==
  /\ Meets("operator") /\ head # Source /\ SwitchTo(Source, refs[Source]) /\ UNCHANGED <<commits, refs>>

OperatorStep ==
  Quiet /\ (Edit \/ OperatorCommit \/ OperatorReturns)
  /\ UNCHANGED <<hub, records, planned, pc, job>>

Next == (\E r \in Runs : RunStep(r)) \/ (\E g \in Publishers : PublishStep(g)) \/ OperatorStep
Spec == Init /\ [][Next]_gvars

------------------------------------------------------------------------------
(* Properties                                                               *)

Steps == {"idle", "dead", "checked", "announced", "snapped", "branched", "added", "staged",
          "committed", "verified", "recorded", "resetting", "rereading", "returning",
          "deleting", "failed", "pushed", "opened"}

\* Type correctness.
GitTypeOK ==
  /\ commits \in Seq([parent : Nat, tree : Trees, by : Procs \union {"operator"}])
  /\ head \in Branches /\ refs \in [Branches -> 0..Len(commits)] /\ refs[head] # 0
  /\ index \in Trees /\ work \in Trees /\ planned \in Contents \X Contents
  /\ remote \in [Branches -> 0..Len(commits)] /\ pulls \subseteq Plans
  /\ log \subseteq [kind : {"commit_intent", "commit_result", "pr_intent", "pr_result"},
                    by : Procs, plan : Plans, commit : 0..Len(commits),
                    how : {"approved", "materialized", "blocked"}]
  /\ packets \subseteq [plan : DirtyPlans, commit : 1..Len(commits)]
  /\ pc \in [Procs -> Steps]
  /\ job \in [Procs -> [plan : Branches, snap : Trees, found : Trees, owns : BOOLEAN,
                        undone : BOOLEAN, commit : 0..Len(commits)]]
  /\ trouble \in 0..MaxTrouble

Reported(kind) == {e \in log : e.kind = kind /\ e.how = "materialized"}

\* The commit a dirty plan was turned into is in the history of the branch the plan proposes
\* and of no other local branch: not of the source branch, whatever other runs create, undo
\* or leave behind in the same checkout (materialize_dirty_commit_plan).
CommitsOnlyWhereApproved ==
  \A e \in Reported("commit_result"), b \in Branches :
    e.commit \in History(refs[b]) <=> b = e.plan

\* While a command runs, the branch the plans were made on does not move: no command commits
\* to it or resets it, whichever branch it finds checked out (materialize_dirty_commit_plan).
SourceIsLeftAlone == [][~Quiet => refs'[Source] = refs[Source]]_gvars

\* A dirty plan becomes one commit, once: on the approved head, with the approved content,
\* however many runs are given the plan, retried or cut short.
OneApprovedCommit ==
  /\ \A e \in Reported("commit_result") :
       commits[e.commit].parent = SourceHead /\ Tree(e.commit) = planned[2]
  /\ \A e, f \in Reported("commit_result") : e.plan = f.plan => e = f

\* A run that could undo everything leaves the source branch checked out, its own branch
\* gone, the index as the run found it and the files as they were when it made the branch.
UndoneLeavesNoTrace ==
  [][\A r \in Runs :
       pc[r] = "deleting" /\ pc'[r] = "failed" /\ job'[r].undone =>
         /\ head' = Source /\ refs'[Branch(r)] = 0 /\ refs'[Source] = SourceHead
         /\ index' = job[r].snap /\ work' = job[r].found]_gvars

\* What a pull request reported as opened shows on the remote is the commit that was checked,
\* for a dirty plan one that a run reported; and a pull request is reported once.
PublishedIsWhatWasChecked ==
  \A e \in Reported("pr_result") :
    /\ remote[e.plan] = e.commit /\ e.plan \in pulls
    /\ IF e.plan \in DirtyPlans
       THEN \E k \in Reported("commit_result") : k.plan = e.plan /\ k.commit = e.commit
       ELSE e.commit = SourceHead
    /\ \A f \in Reported("pr_result") : f.plan = e.plan => f = e
===============================================================================
