----------------------- MODULE GitMaterializationProofs -----------------------
(***************************************************************************)
(* What holds of the materialisation of plans for every number of          *)
(* processes and troubles.  The commands take no lock; if only one dirty   *)
(* plan is about, the branch it proposes is one: git refuses to create a   *)
(* branch that exists, and nobody but the run that has created it removes  *)
(* it.  From this follow that the source branch is left alone and that the *)
(* plan becomes one commit, as approved.                                   *)
(***************************************************************************)
EXTENDS GitMaterialization, SequenceTheorems, WellFoundedInduction, TLAPS

------------------------------------------------------------------------------
(* Types                                                                    *)

Commit == [parent : Nat, tree : Trees, by : Procs \union {"operator"}]
Job(n) == [plan : Branches, snap : Trees, found : Trees, owns : BOOLEAN, undone : BOOLEAN,
           commit : 0..n]
Entry(n) == [kind : {"commit_intent", "commit_result", "pr_intent", "pr_result"},
             by : Procs, plan : Plans, commit : 0..n, how : {"approved", "materialized", "blocked"}]

Working(p) == pc[p] \notin {"idle", "dead"}

\* What a process that is at work knows of its plan.
Busy ==
  /\ \A r \in Runs : Working(r) => Branch(r) \in DirtyPlans
  /\ \A r \in Runs : pc[r] \in {"verified", "recorded"} => job[r].commit # 0
  /\ \A g \in Publishers : Working(g) => Branch(g) \in Plans
  /\ \A g \in Publishers : pc[g] = "announced" => Branch(g) \in CleanPlans

TInv == GitTypeOK /\ Len(commits) >= 2 /\ refs[Source] # 0 /\ Busy

\* What a step of a process does to the processes.
LEMMA GotoTyped ==
  ASSUME TInv, NEW p \in Procs, NEW step \in Steps, NEW j \in Job(Len(commits)), Goto(p, step, j)
  PROVE  /\ pc' \in [Procs -> Steps] /\ job' \in [Procs -> Job(Len(commits))]
         /\ pc'[p] = step /\ job'[p] = j
         /\ \A q \in Procs : q # p => pc'[q] = pc[q] /\ job'[q] = job[q]
BY DEF TInv, GitTypeOK, Goto, Job

\* A longer history has room for what a shorter one had.
LEMMA MoreCommits ==
  ASSUME TInv, NEW c \in Commit, commits' = Append(commits, c)
  PROVE  /\ commits' \in Seq(Commit) /\ Len(commits') = Len(commits) + 1
         /\ Len(commits) \in Nat /\ Len(commits') \in Nat
         /\ \A k \in 1..Len(commits) : commits'[k] = commits[k]
         /\ commits'[Len(commits) + 1] = c
         /\ 0..Len(commits) \subseteq 0..Len(commits')
         /\ Job(Len(commits)) \subseteq Job(Len(commits'))
         /\ Entry(Len(commits)) \subseteq Entry(Len(commits'))
<1>1. commits \in Seq(Commit)
  BY DEF TInv, GitTypeOK, Commit
<1>2. /\ commits' \in Seq(Commit) /\ Len(commits') = Len(commits) + 1
      /\ \A k \in 1..Len(commits) : commits'[k] = commits[k]
      /\ commits'[Len(commits) + 1] = c
  BY <1>1, AppendProperties
<1>3. Len(commits) \in Nat /\ Len(commits') \in Nat
  BY <1>1, <1>2, LenProperties
<1>4. 0..Len(commits) \subseteq 0..Len(commits')
  BY <1>2, <1>3
<1> HIDE <1>2
<1>5. Job(Len(commits)) \subseteq Job(Len(commits')) /\ Entry(Len(commits)) \subseteq Entry(Len(commits'))
  BY <1>4 DEF Job, Entry
<1> QED
  BY <1>2, <1>3, <1>4, <1>5

LEMMA InitTyped == ASSUME Init PROVE TInv
<1>1. commits \in Seq(Commit) /\ Len(commits) = 2
  BY DEF Init, Commit, Trees, Contents
<1>2. Source \in Branches /\ Plans \subseteq Branches /\ Updates \subseteq Plans /\ Source \notin Plans
  BY MaterializationAssumption DEF Branches, Plans
<1>3. refs \in [Branches -> 0..2] /\ refs[Source] = SourceHead /\ head = Source
  BY <1>2 DEF Init, SourceHead
<1>4. NoJob \in Job(2)
  BY <1>2 DEF NoJob, Job, Trees, Contents
<1>5. /\ remote \in [Branches -> 0..2] /\ pulls \subseteq Plans
      /\ index \in Trees /\ work \in Trees /\ planned \in Contents \X Contents
  BY <1>2 DEF Init, SourceHead, Trees, Contents, Fingerprint
<1>6. /\ pc \in [Procs -> Steps] /\ job \in [Procs -> Job(2)] /\ trouble \in 0..MaxTrouble
      /\ log = {} /\ packets = {} /\ \A p \in Procs : pc[p] = "idle"
  BY <1>4, MaterializationAssumption DEF Init, Steps
<1>7. GitTypeOK
  BY <1>1, <1>2, <1>3, <1>5, <1>6 DEF GitTypeOK, Commit, Job, SourceHead
<1>8. Busy
  BY <1>6 DEF Busy, Procs, Working
<1> QED
  BY <1>1, <1>3, <1>7, <1>8 DEF TInv, SourceHead

LEMMA TroubleTyped ==
  ASSUME TInv, NEW kind, Meets(kind) \/ UNCHANGED trouble
  PROVE  trouble' \in 0..MaxTrouble
BY MaterializationAssumption DEF TInv, GitTypeOK, Meets

\* A run that is at work goes on with its plan, or ends.
LEMMA RunGoes ==
  ASSUME TInv, NEW r \in Runs, RunStep(r)
  PROVE  \E step \in Steps, j \in Job(Len(commits)) :
           /\ Goto(r, step, j)
           /\ step \notin {"idle", "dead"} => j.plan \in DirtyPlans
           /\ step \in {"verified", "recorded"} => j.commit # 0
<1> DEFINE Goes == \E step \in Steps, j \in Job(Len(commits)) :
                     /\ Goto(r, step, j)
                     /\ step \notin {"idle", "dead"} => j.plan \in DirtyPlans
                     /\ step \in {"verified", "recorded"} => j.commit # 0
<1>0. /\ job[r] \in Job(Len(commits)) /\ NoJob \in Job(Len(commits)) /\ Len(commits) \in Nat
      /\ pc[r] \in Steps /\ (Working(r) => job[r].plan \in DirtyPlans)
      /\ DirtyPlans \subseteq Branches
  <2>1. commits \in Seq(Commit) /\ Len(commits) \in Nat
    BY LenProperties DEF TInv, GitTypeOK, Commit
  <2>2. NoJob \in Job(Len(commits))
    BY <2>1 DEF NoJob, Job, Trees, Contents, Branches
  <2> QED
    BY <2>1, <2>2 DEF TInv, GitTypeOK, Busy, Procs, Job, Branch, Branches, Plans
<1>1. ASSUME NEW step \in Steps, Next_(r, step), step \notin {"verified", "recorded"}, Working(r) PROVE Goes
  BY <1>0, <1>1 DEF Next_
<1>2. ASSUME Exit(r) PROVE Goes
  BY <1>0, <1>2 DEF Exit, Steps
<1>3. AfterFailure(r) \in Steps \ {"idle", "dead", "verified", "recorded"}
  BY DEF AfterFailure, Steps
<1>4. ASSUME NEW step \in Steps, step \notin {"verified", "recorded"}, Working(r),
             NEW j \in Job(Len(commits)), j.plan = job[r].plan, Goto(r, step, j)
      PROVE  Goes
  BY <1>0, <1>4
<1>5. CASE Recheck(r)
  <2>1. PICK b \in DirtyPlans : Goto(r, "checked", [NoJob EXCEPT !.plan = b])
    BY <1>5 DEF Recheck
  <2>2. [NoJob EXCEPT !.plan = b] \in Job(Len(commits)) /\ [NoJob EXCEPT !.plan = b].plan = b
    BY <1>0 DEF Job
  <2> QED
    BY <2>1, <2>2 DEF Steps
<1>6. CASE Announce(r)
  BY <1>1, <1>2, <1>6 DEF Announce, Steps, Working
<1>7. CASE SnapshotIndex(r)
  <2>1. [job[r] EXCEPT !.snap = index] \in Job(Len(commits)) /\ [job[r] EXCEPT !.snap = index].plan = job[r].plan
    BY <1>0 DEF TInv, GitTypeOK, Job
  <2> QED
    BY <1>4, <1>7, <2>1 DEF SnapshotIndex, Steps, Working
<1>8. CASE CreateAndSwitch(r)
  <2>1. /\ [job[r] EXCEPT !.owns = TRUE, !.found = work] \in Job(Len(commits))
        /\ [job[r] EXCEPT !.owns = TRUE, !.found = work].plan = job[r].plan
    BY <1>0 DEF TInv, GitTypeOK, Job
  <2> QED
    BY <1>1, <1>3, <1>4, <1>8, <2>1 DEF CreateAndSwitch, Steps, Working
<1>9. CASE StagePlanned(r)
  BY <1>1, <1>9 DEF StagePlanned, Steps, Working
<1>10. CASE CheckStaged(r)
  BY <1>1, <1>3, <1>10 DEF CheckStaged, Steps, Working
<1>11. CASE CreateCommit(r)
  BY <1>1, <1>3, <1>11 DEF CreateCommit, Steps, Working
<1>12. CASE CheckCommit(r)
  <2> DEFINE j == [job[r] EXCEPT !.commit = refs[head]]
  <2>1. refs[head] \in 0..Len(commits) /\ refs[head] # 0
    BY DEF TInv, GitTypeOK
  <2>2. j \in Job(Len(commits)) /\ j.plan = job[r].plan /\ j.commit # 0
    BY <1>0, <2>1 DEF Job
  <2>3. PICK step \in {"verified", AfterFailure(r)} : Goto(r, step, j)
    BY <1>12 DEF CheckCommit
  <2> QED
    BY <1>0, <1>3, <1>12, <2>2, <2>3 DEF CheckCommit, Steps, Working
<1>13. CASE ReportCommit(r)
  <2>1. job[r].commit # 0
    BY <1>13 DEF ReportCommit, TInv, Busy
  <2> QED
    BY <1>0, <1>2, <1>13, <2>1 DEF ReportCommit, Next_, Steps, Working
<1>14. CASE EmitCommit(r)
  BY <1>2, <1>14 DEF EmitCommit
<1>15. CASE Fail(r)
  BY <1>1, <1>3, <1>15 DEF Fail, Steps, Working
<1>16. CASE ResetToSource(r)
  <2>1. [job[r] EXCEPT !.undone = TRUE] \in Job(Len(commits)) /\ [job[r] EXCEPT !.undone = TRUE].plan = job[r].plan
    BY <1>0 DEF Job
  <2> QED
    BY <1>1, <1>4, <1>16, <2>1 DEF ResetToSource, Steps, Working
<1>17. CASE RestoreIndex(r) \/ ReturnToSource(r) \/ DeleteBranch(r)
  <2>1. [job[r] EXCEPT !.undone = FALSE] \in Job(Len(commits)) /\ [job[r] EXCEPT !.undone = FALSE].plan = job[r].plan
    BY <1>0 DEF Job
  <2> QED
    BY <1>1, <1>4, <1>17, <2>1 DEF RestoreIndex, ReturnToSource, DeleteBranch, Undo, Steps, Working
<1>18. CASE ReportFailure(r, "commit_result")
  BY <1>2, <1>18 DEF ReportFailure
<1>19. CASE Die(r)
  BY <1>0, <1>19 DEF Die, Steps
<1> QED
  BY <1>5, <1>6, <1>7, <1>8, <1>9, <1>10, <1>11, <1>12, <1>13, <1>14, <1>15, <1>16, <1>17, <1>18, <1>19
     DEF RunStep

\* What is typed of the checkout.
RepoOK ==
  /\ commits \in Seq(Commit) /\ Len(commits) \in Nat /\ Len(commits) >= 2
  /\ head \in Branches /\ refs \in [Branches -> 0..Len(commits)]
  /\ refs[head] # 0 /\ refs[Source] # 0
  /\ index \in Trees /\ work \in Trees

LEMMA TypedRepo ==
  ASSUME TInv
  PROVE  /\ RepoOK /\ Source \in Branches /\ Source \notin Plans /\ DirtyPlans \subseteq Plans
         /\ CleanPlans \subseteq Plans /\ Plans \subseteq Branches
         /\ \A c \in 1..Len(commits) : Tree(c) \in Trees /\ commits[c].parent \in Nat
<1>1. commits \in Seq(Commit) /\ Len(commits) \in Nat
  BY LenProperties DEF TInv, GitTypeOK, Commit
<1>2. \A c \in 1..Len(commits) : commits[c] \in Commit
  BY <1>1, ElementOfSeq
<1> QED
  BY <1>1, <1>2, MaterializationAssumption DEF TInv, GitTypeOK, RepoOK, Branches, Plans, Tree, Commit

LEMMA SwitchTyped ==
  ASSUME TInv, NEW b \in Branches, NEW c \in 1..Len(commits), SwitchTo(b, c)
  PROVE  head' = b /\ index' \in Trees /\ work' \in Trees
BY TypedRepo DEF SwitchTo, RepoOK

LEMMA CommitTyped ==
  ASSUME TInv, NEW p \in Procs, CommitIndex(p)
  PROVE  /\ commits' = Append(commits, [parent |-> refs[head], tree |-> index, by |-> p])
         /\ [parent |-> refs[head], tree |-> index, by |-> p] \in Commit
         /\ refs' = [refs EXCEPT ![head] = Len(commits) + 1]
BY TypedRepo DEF CommitIndex, RepoOK, Commit

\* A run leaves the checkout well formed: on a branch that exists, the source branch there.
LEMMA RunRepo ==
  ASSUME TInv, NEW r \in Runs, RunStep(r)
  PROVE  RepoOK' /\ (commits' = commits \/ \E c \in Commit : commits' = Append(commits, c))
<1>0. /\ RepoOK /\ Source \in Branches /\ SourceHead \in 1..Len(commits)
      /\ (Working(r) => Branch(r) \in DirtyPlans) /\ DirtyPlans \subseteq Branches /\ Source \notin DirtyPlans
      /\ Tree(SourceHead) \in Trees /\ refs[Source] \in 1..Len(commits) /\ r \in Procs
  BY TypedRepo DEF TInv, Busy, RepoOK, SourceHead, Procs
<1>1. ASSUME UNCHANGED repo PROVE RepoOK'
  BY <1>0, <1>1 DEF repo, RepoOK
<1>2. CASE UNCHANGED repo
  BY <1>1, <1>2 DEF repo
<1>3. CASE CreateAndSwitch(r)
  <2>1. CASE UNCHANGED <<head, refs, index, work>>
    BY <1>2, <1>3, <2>1 DEF CreateAndSwitch, repo
  <2>2. CASE SwitchTo(Branch(r), SourceHead) /\ refs' = [refs EXCEPT ![Branch(r)] = SourceHead]
    <3>1. Branch(r) \in Branches
      BY <1>0, <1>3 DEF CreateAndSwitch, Working
    <3> QED
      BY <1>0, <1>3, <2>2, <3>1, SwitchTyped DEF CreateAndSwitch, RepoOK, SourceHead
  <2> QED
    BY <1>3, <2>1, <2>2 DEF CreateAndSwitch
<1>4. CASE StagePlanned(r)
  BY <1>0, <1>4 DEF StagePlanned, RepoOK
<1>5. CASE CreateCommit(r)
  <2>1. CASE CommitIndex(r)
    <3>1. PICK c \in Commit : commits' = Append(commits, c)
      BY <1>0, <2>1, CommitTyped
    <3>2. /\ commits' \in Seq(Commit) /\ Len(commits') = Len(commits) + 1 /\ Len(commits) \in Nat
          /\ Len(commits) >= 2
      BY <1>0, <3>1, MoreCommits DEF RepoOK
    <3>3. UNCHANGED <<head, index, work>> /\ refs' = [refs EXCEPT ![head] = Len(commits) + 1]
      BY <1>0, <1>5, <2>1, CommitTyped DEF CreateCommit
    <3>4. refs' \in [Branches -> 0..Len(commits')] /\ refs'[head] # 0 /\ refs'[Source] # 0
      BY <1>0, <3>2, <3>3 DEF RepoOK
    <3> QED
      BY <1>0, <3>1, <3>2, <3>3, <3>4 DEF RepoOK
  <2>2. CASE UNCHANGED <<commits, refs>>
    BY <1>2, <1>5, <2>2 DEF CreateCommit, repo
  <2> QED
    BY <1>5, <2>1, <2>2 DEF CreateCommit
<1>6. CASE ResetToSource(r)
  BY <1>0, <1>6 DEF ResetToSource, RepoOK, SourceHead
<1>7. CASE RestoreIndex(r)
  <2>1. job[r].snap \in Trees
    BY <1>0 DEF TInv, GitTypeOK
  <2> QED
    BY <1>0, <1>7, <2>1 DEF RestoreIndex, Undo, RepoOK
<1>8. CASE ReturnToSource(r)
  <2>1. CASE SwitchTo(Source, refs[Source]) /\ UNCHANGED refs
    BY <1>0, <1>8, <2>1, SwitchTyped DEF ReturnToSource, Undo, RepoOK
  <2>2. CASE UNCHANGED <<head, refs, index, work>>
    BY <1>2, <1>8, <2>2 DEF ReturnToSource, Undo, repo
  <2> QED
    BY <1>8, <2>1, <2>2 DEF ReturnToSource, Undo
<1>9. CASE DeleteBranch(r)
  <2>1. Branch(r) # Source
    BY <1>0, <1>9 DEF DeleteBranch, Undo, Working
  <2> QED
    BY <1>0, <1>9, <2>1 DEF DeleteBranch, Undo, RepoOK
<1> QED
  BY <1>2, <1>3, <1>4, <1>5, <1>6, <1>7, <1>8, <1>9
     DEF RunStep, Recheck, Announce, SnapshotIndex, CheckStaged, CheckCommit, ReportCommit,
         EmitCommit, Fail, ReportFailure, Die

\* What is typed of the remote and of the records, for a history of n commits.
RecordsOK(n) ==
  /\ remote \in [Branches -> 0..n] /\ pulls \subseteq Plans
  /\ log \subseteq Entry(n) /\ packets \subseteq [plan : DirtyPlans, commit : 1..n]
  /\ trouble \in 0..MaxTrouble /\ planned \in Contents \X Contents

\* An audit record a process at work makes.
LEMMA RecordTyped ==
  ASSUME TInv, NEW p \in Procs, Working(p),
         NEW kind \in {"commit_intent", "commit_result", "pr_intent", "pr_result"},
         NEW how \in {"approved", "materialized", "blocked"}
  PROVE  Record(p, kind, how) \in Entry(Len(commits))
<1>1. Branch(p) \in Plans
  BY TypedRepo DEF TInv, Busy, Procs
<1>2. job[p].commit \in 0..Len(commits)
  BY DEF TInv, GitTypeOK
<1> QED
  BY <1>1, <1>2 DEF Record, Entry

LEMMA RunRecords ==
  ASSUME TInv, NEW r \in Runs, RunStep(r) PROVE RecordsOK(Len(commits))'
<1>0. RecordsOK(Len(commits)) /\ Len(commits) \in Nat /\ r \in Procs /\ (Working(r) => Branch(r) \in DirtyPlans)
  BY TypedRepo DEF TInv, GitTypeOK, RecordsOK, Entry, RepoOK, Procs, Busy
<1>1. trouble' \in 0..MaxTrouble /\ planned' = planned /\ UNCHANGED hub
  <2>1. (\E kind \in {"command", "audit", "crash"} : Meets(kind)) \/ UNCHANGED trouble
    BY DEF RunStep, Recheck, Announce, SnapshotIndex, CreateAndSwitch, StagePlanned, CheckStaged,
           CreateCommit, CheckCommit, ReportCommit, EmitCommit, Fail, ResetToSource, RestoreIndex,
           ReturnToSource, DeleteBranch, Undo, ReportFailure, Die
  <2>2. planned' = planned /\ UNCHANGED hub
    BY DEF RunStep, Recheck, Announce, SnapshotIndex, CreateAndSwitch, StagePlanned, CheckStaged,
           CreateCommit, CheckCommit, ReportCommit, EmitCommit, Fail, ResetToSource, RestoreIndex,
           ReturnToSource, DeleteBranch, Undo, ReportFailure, Die
  <2> QED
    BY <2>1, <2>2, TroubleTyped
<1>2. log' \subseteq Entry(Len(commits))
  <2>1. log' = log \/ \E kind \in {"commit_intent", "commit_result"}, how \in {"approved", "materialized", "blocked"} :
                        Working(r) /\ log' = log \union {Record(r, kind, how)}
    BY DEF RunStep, Recheck, Announce, SnapshotIndex, CreateAndSwitch, StagePlanned, CheckStaged,
           CreateCommit, CheckCommit, ReportCommit, EmitCommit, Fail, ResetToSource, RestoreIndex,
           ReturnToSource, DeleteBranch, Undo, ReportFailure, Die, records, Working
  <2> QED
    BY <1>0, <2>1, RecordTyped DEF RecordsOK
<1>3. packets' \subseteq [plan : DirtyPlans, commit : 1..Len(commits)]
  <2>1. CASE EmitCommit(r)
    <3>1. job[r].commit \in 1..Len(commits) /\ Branch(r) \in DirtyPlans
      BY <1>0, <2>1 DEF EmitCommit, TInv, Busy, GitTypeOK, Working
    <3> QED
      BY <1>0, <2>1, <3>1 DEF EmitCommit, RecordsOK
  <2>2. CASE ~EmitCommit(r)
    <3>1. packets' = packets
      BY <2>2 DEF RunStep, Recheck, Announce, SnapshotIndex, CreateAndSwitch, StagePlanned, CheckStaged,
           CreateCommit, CheckCommit, ReportCommit, EmitCommit, Fail, ResetToSource, RestoreIndex,
           ReturnToSource, DeleteBranch, Undo, ReportFailure, Die, records
    <3> QED
      BY <1>0, <3>1 DEF RecordsOK
  <2> QED
    BY <2>1, <2>2
<1>4. 0..Len(commits) \subseteq 0..Len(commits') /\ 1..Len(commits) \subseteq 1..Len(commits')
      /\ Entry(Len(commits)) \subseteq Entry(Len(commits'))
  BY <1>0, RunRepo, MoreCommits
<1> QED
  BY <1>0, <1>1, <1>2, <1>3, <1>4 DEF RecordsOK, hub

\* What a step of a process has to keep.
LEMMA StepTyped ==
  ASSUME TInv, RepoOK', RecordsOK(Len(commits))',
         commits' = commits \/ \E c \in Commit : commits' = Append(commits, c),
         NEW p \in Procs, NEW step \in Steps, NEW j \in Job(Len(commits)), Goto(p, step, j),
         p \in Runs => /\ step \notin {"idle", "dead"} => j.plan \in DirtyPlans
                       /\ step \in {"verified", "recorded"} => j.commit # 0,
         p \in Publishers => /\ step \notin {"idle", "dead"} => j.plan \in Plans
                             /\ step = "announced" => j.plan \in CleanPlans
  PROVE  TInv'
<1>1. /\ pc' \in [Procs -> Steps] /\ job' \in [Procs -> Job(Len(commits))]
      /\ pc'[p] = step /\ job'[p] = j
      /\ \A q \in Procs : q # p => pc'[q] = pc[q] /\ job'[q] = job[q]
  BY GotoTyped
<1>2. Job(Len(commits)) \subseteq Job(Len(commits'))
  BY MoreCommits
<1>3. GitTypeOK'
  BY <1>1, <1>2 DEF GitTypeOK, RepoOK, RecordsOK, Commit, Entry, Job
<1>4. Busy'
  BY <1>1 DEF TInv, Busy, Working, Branch, Procs
<1> QED
  BY <1>3, <1>4 DEF TInv, RepoOK

LEMMA RunTyped == ASSUME TInv, NEW r \in Runs, RunStep(r) PROVE TInv'
<1>1. PICK step \in Steps, j \in Job(Len(commits)) :
        /\ Goto(r, step, j)
        /\ step \notin {"idle", "dead"} => j.plan \in DirtyPlans
        /\ step \in {"verified", "recorded"} => j.commit # 0
  BY RunGoes
<1>2. r \in Procs /\ r \notin Publishers
  BY MaterializationAssumption DEF Procs
<1> QED
  BY <1>1, <1>2, RunRepo, RunRecords, StepTyped

LEMMA PublishGoes ==
  ASSUME TInv, NEW g \in Publishers, PublishStep(g)
  PROVE  \E step \in Steps, j \in Job(Len(commits)) :
           /\ Goto(g, step, j)
           /\ step \notin {"idle", "dead"} => j.plan \in Plans
           /\ step = "announced" => j.plan \in CleanPlans
<1> DEFINE Goes == \E step \in Steps, j \in Job(Len(commits)) :
                     /\ Goto(g, step, j)
                     /\ step \notin {"idle", "dead"} => j.plan \in Plans
                     /\ step = "announced" => j.plan \in CleanPlans
<1>0. /\ job[g] \in Job(Len(commits)) /\ NoJob \in Job(Len(commits)) /\ Len(commits) \in Nat
      /\ SourceHead \in 0..Len(commits) /\ (Working(g) => job[g].plan \in Plans)
      /\ Plans \subseteq Branches /\ Plans = DirtyPlans \union CleanPlans
  <2>1. NoJob \in Job(Len(commits))
    BY TypedRepo DEF NoJob, Job, Trees, Contents, RepoOK
  <2>2. /\ Len(commits) \in Nat /\ SourceHead \in 0..Len(commits) /\ Plans \subseteq Branches
        /\ Plans = DirtyPlans \union CleanPlans
    BY TypedRepo DEF Plans, RepoOK, SourceHead
  <2>3. g \in Procs /\ job[g] \in Job(Len(commits))
    BY DEF TInv, GitTypeOK, Procs, Job
  <2>4. Working(g) => job[g].plan \in Plans
    BY DEF TInv, Busy, Branch
  <2> QED
    BY <2>1, <2>2, <2>3, <2>4
<1>1. ASSUME NEW step \in Steps \ {"announced"}, Next_(g, step), Working(g) PROVE Goes
  BY <1>0, <1>1 DEF Next_
<1>2. ASSUME Exit(g) PROVE Goes
  BY <1>0, <1>2 DEF Exit, Steps
<1>3. CASE CheckPlan(g)
  <2>1. PICK b \in Plans, c \in 0..Len(commits) :
          Goto(g, "checked", [NoJob EXCEPT !.plan = b, !.commit = c])
    <3>1. \A k \in packets : k.commit \in 0..Len(commits)
      BY <1>0 DEF TInv, GitTypeOK
    <3> QED
      BY <1>0, <1>3, <3>1 DEF CheckPlan
  <2>2. /\ [NoJob EXCEPT !.plan = b, !.commit = c] \in Job(Len(commits))
        /\ [NoJob EXCEPT !.plan = b, !.commit = c].plan = b
    BY <1>0 DEF Job
  <2> QED
    BY <2>1, <2>2 DEF Steps
<1>4. CASE AnnouncePr(g)
  <2>1. CASE Next_(g, IF Branch(g) \in DirtyPlans THEN "branched" ELSE "announced")
    <3>1. Branch(g) \in Plans
      BY <1>0, <1>4 DEF AnnouncePr, Working, Branch
    <3> QED
      BY <1>0, <2>1, <3>1 DEF Next_, Steps, Branch
  <2> QED
    BY <1>2, <1>4, <2>1 DEF AnnouncePr
<1>5. CASE CreateBranch(g)
  BY <1>1, <1>5 DEF CreateBranch, Steps, Working
<1>6. CASE Push(g)
  BY <1>1, <1>6 DEF Push, Steps, Working
<1>7. CASE OpenPr(g)
  BY <1>1, <1>7 DEF OpenPr, Steps, Working
<1>8. CASE FailPr(g)
  BY <1>1, <1>8 DEF FailPr, Steps, Working
<1>9. CASE ReportPr(g) \/ ReportFailure(g, "pr_result")
  BY <1>2, <1>9 DEF ReportPr, ReportFailure
<1>10. CASE Die(g)
  BY <1>0, <1>10 DEF Die, Steps
<1> QED
  BY <1>3, <1>4, <1>5, <1>6, <1>7, <1>8, <1>9, <1>10 DEF PublishStep

\* A publisher leaves the checkout alone but for a branch it creates.
LEMMA PublishRepo ==
  ASSUME TInv, NEW g \in Publishers, PublishStep(g)
  PROVE  /\ RepoOK' /\ UNCHANGED <<commits, head, index, work>>
         /\ \/ refs' = refs
            \/ /\ pc[g] = "announced" /\ Branch(g) \in CleanPlans
               /\ refs' = [refs EXCEPT ![Branch(g)] = job[g].commit] /\ refs[Branch(g)] = 0
<1>1. CASE CreateBranch(g) /\ CanCreate(Branch(g))
  <2>1. /\ Branch(g) \in CleanPlans /\ Branch(g) \in Branches /\ refs[Branch(g)] = 0
        /\ job[g].commit \in 0..Len(commits)
    BY <1>1, TypedRepo DEF CreateBranch, CanCreate, TInv, Busy, Procs, GitTypeOK
  <2> QED
    BY <1>1, <2>1, TypedRepo DEF CreateBranch, RepoOK
<1>2. CASE ~(CreateBranch(g) /\ CanCreate(Branch(g)))
  <2>1. UNCHANGED repo
    BY <1>2 DEF PublishStep, CheckPlan, AnnouncePr, CreateBranch, Push, OpenPr, FailPr, ReportPr,
                ReportFailure, Die, repo
  <2> QED
    BY <2>1, TypedRepo DEF repo, RepoOK
<1> QED
  BY <1>1, <1>2

LEMMA PublishRecords ==
  ASSUME TInv, NEW g \in Publishers, PublishStep(g) PROVE RecordsOK(Len(commits))'
<1>0. /\ RecordsOK(Len(commits)) /\ Len(commits) \in Nat /\ g \in Procs
      /\ (Working(g) => Branch(g) \in Plans /\ Branch(g) \in Branches)
      /\ refs \in [Branches -> 0..Len(commits)] /\ commits' = commits
  BY TypedRepo, PublishRepo DEF TInv, GitTypeOK, RecordsOK, Entry, RepoOK, Procs, Busy
<1>1. trouble' \in 0..MaxTrouble /\ UNCHANGED <<planned, packets>>
  <2>1. (\E kind \in {"command", "audit", "crash", "answer"} : Meets(kind)) \/ UNCHANGED trouble
    BY DEF PublishStep, CheckPlan, AnnouncePr, CreateBranch, Push, OpenPr, FailPr, ReportPr,
           ReportFailure, Die
  <2>2. UNCHANGED <<planned, packets>>
    BY DEF PublishStep, CheckPlan, AnnouncePr, CreateBranch, Push, OpenPr, FailPr, ReportPr,
           ReportFailure, Die, records
  <2> QED
    BY <2>1, <2>2, TroubleTyped
<1>2. log' \subseteq Entry(Len(commits))
  <2>1. log' = log \/ \E kind \in {"pr_intent", "pr_result"}, how \in {"approved", "materialized", "blocked"} :
                        Working(g) /\ log' = log \union {Record(g, kind, how)}
    BY DEF PublishStep, CheckPlan, AnnouncePr, CreateBranch, Push, OpenPr, FailPr, ReportPr,
           ReportFailure, Die, records, Working
  <2> QED
    BY <1>0, <2>1, RecordTyped DEF RecordsOK
<1>3. remote' \in [Branches -> 0..Len(commits)] /\ pulls' \subseteq Plans
  <2>1. CASE Push(g)
    BY <1>0, <2>1 DEF Push, Working, RecordsOK
  <2>2. CASE OpenPr(g)
    BY <1>0, <2>2 DEF OpenPr, Working, RecordsOK
  <2>3. CASE ~Push(g) /\ ~OpenPr(g)
    BY <1>0, <2>3 DEF PublishStep, CheckPlan, AnnouncePr, CreateBranch, FailPr, ReportPr,
                      ReportFailure, Die, hub, RecordsOK
  <2> QED
    BY <2>1, <2>2, <2>3
<1> QED
  BY <1>0, <1>1, <1>2, <1>3 DEF RecordsOK

LEMMA OperatorTyped == ASSUME TInv, OperatorStep PROVE TInv'
<1>0. RepoOK /\ RecordsOK(Len(commits)) /\ Source \in Branches /\ refs[Source] \in 1..Len(commits)
      /\ pc \in [Procs -> Steps] /\ job \in [Procs -> Job(Len(commits))] /\ Busy /\ Contents \subseteq Trees
  <2>1. RepoOK /\ Source \in Branches /\ refs[Source] \in 1..Len(commits)
    BY TypedRepo DEF RepoOK
  <2>2. RecordsOK(Len(commits))
    BY DEF TInv, GitTypeOK, RecordsOK, Entry
  <2>3. pc \in [Procs -> Steps] /\ job \in [Procs -> Job(Len(commits))] /\ Busy
    BY DEF TInv, GitTypeOK, Job
  <2> QED
    BY <2>1, <2>2, <2>3 DEF Trees
<1>1. UNCHANGED <<hub, records, planned, pc, job>> /\ trouble' \in 0..MaxTrouble
  BY TroubleTyped DEF OperatorStep, Edit, OperatorCommit, OperatorReturns
<1>2. RepoOK' /\ (commits' = commits \/ \E c \in Commit : commits' = Append(commits, c))
  <2>1. CASE Edit
    BY <1>0, <2>1 DEF Edit, RepoOK
  <2>2. CASE OperatorCommit
    <3> DEFINE c == [parent |-> refs[head], tree |-> work, by |-> "operator"]
    <3>1. c \in Commit /\ commits' = Append(commits, c) /\ UNCHANGED <<head, work>> /\ index' = work
          /\ refs' = [refs EXCEPT ![head] = Len(commits) + 1]
      BY <1>0, <2>2 DEF OperatorCommit, RepoOK, Commit
    <3>2. /\ commits' \in Seq(Commit) /\ Len(commits') = Len(commits) + 1 /\ Len(commits) \in Nat
          /\ Len(commits) >= 2
      BY <1>0, <3>1, MoreCommits DEF RepoOK
    <3>3. refs' \in [Branches -> 0..Len(commits')] /\ refs'[head] # 0 /\ refs'[Source] # 0
      BY <1>0, <3>1, <3>2 DEF RepoOK
    <3> QED
      BY <1>0, <3>1, <3>2, <3>3 DEF RepoOK
  <2>3. CASE OperatorReturns
    BY <1>0, <2>3, SwitchTyped DEF OperatorReturns, RepoOK
  <2> QED
    BY <2>1, <2>2, <2>3 DEF OperatorStep
<1>3. /\ 0..Len(commits) \subseteq 0..Len(commits') /\ 1..Len(commits) \subseteq 1..Len(commits')
      /\ Entry(Len(commits)) \subseteq Entry(Len(commits')) /\ Job(Len(commits)) \subseteq Job(Len(commits'))
  BY <1>0, <1>2, MoreCommits DEF RepoOK
<1>4. RecordsOK(Len(commits))'
  BY <1>0, <1>1, <1>3 DEF RecordsOK, hub, records
<1>5. GitTypeOK'
  BY <1>0, <1>1, <1>2, <1>3, <1>4 DEF GitTypeOK, RepoOK, RecordsOK, Commit, Entry, Job
<1>6. Busy'
  BY <1>0, <1>1 DEF Busy, Working, Branch
<1> QED
  BY <1>2, <1>5, <1>6 DEF TInv, RepoOK

LEMMA NextTyped == ASSUME TInv, [Next]_gvars PROVE TInv'
<1>1. CASE UNCHANGED gvars
  BY <1>1 DEF gvars, repo, hub, records, TInv, GitTypeOK, Busy, Working, Branch
<1>2. ASSUME NEW g \in Publishers, PublishStep(g) PROVE TInv'
  <2>1. PICK step \in Steps, j \in Job(Len(commits)) :
          /\ Goto(g, step, j)
          /\ step \notin {"idle", "dead"} => j.plan \in Plans
          /\ step = "announced" => j.plan \in CleanPlans
    BY <1>2, PublishGoes
  <2>2. g \in Procs /\ g \notin Runs
    BY MaterializationAssumption DEF Procs
  <2> QED
    BY <1>2, <2>1, <2>2, PublishRepo, PublishRecords, StepTyped
<1> QED
  BY <1>1, <1>2, RunTyped, OperatorTyped DEF Next

\* Type correctness, for all processes, plans, branches and bounds.
THEOREM MaterializationTypes == Spec => []GitTypeOK
<1>1. Init => TInv
  BY InitTyped
<1>2. TInv /\ [Next]_gvars => TInv'
  BY NextTyped
<1>3. TInv => GitTypeOK
  BY DEF TInv
<1> QED
  BY <1>1, <1>2, <1>3, PTL DEF Spec

------------------------------------------------------------------------------
(* The branch of the plan is a lock                                         *)

\* A run that has created its branch and has neither ended nor removed it; one that still
\* needs it checked out.
Owning(r) == pc[r] \in {"branched", "added", "staged", "committed", "verified", "recorded",
                        "resetting", "rereading", "returning", "deleting"}
AtIt(r) == pc[r] \in {"branched", "added", "staged", "committed", "resetting", "rereading", "returning"}
Before(r) == pc[r] \in {"checked", "announced", "snapped"}

LInv ==
  /\ \A r \in Runs : Owning(r) => refs[Branch(r)] # 0
  /\ \A r, q \in Runs : Owning(r) /\ Owning(q) => r = q
  /\ \A r \in Runs : AtIt(r) => head = Branch(r)
  /\ \A r \in Runs : Before(r) => ~job[r].owns

\* What happens to the others when r goes on.
Moves(r) ==
  /\ \A q \in Procs : q # r => pc'[q] = pc[q] /\ job'[q] = job[q]
  /\ r \in Procs

LEMMA RunMoves ==
  ASSUME TInv, NEW r \in Runs, RunStep(r) PROVE Moves(r)
<1>1. PICK step \in Steps, j \in Job(Len(commits)) : Goto(r, step, j)
  BY RunGoes
<1> QED
  BY <1>1, GotoTyped DEF Procs, Moves

LEMMA PublishMoves ==
  ASSUME TInv, NEW g \in Publishers, PublishStep(g) PROVE Moves(g)
<1>1. PICK step \in Steps, j \in Job(Len(commits)) : Goto(g, step, j)
  BY PublishGoes
<1> QED
  BY <1>1, GotoTyped DEF Procs, Moves

\* The steps of a run that leave the branches alone.
LEMMA CalmRun ==
  ASSUME TInv, LInv, NEW r \in Runs, RunStep(r), UNCHANGED <<head, refs>>
  PROVE  /\ Owning(r)' => Owning(r) /\ Branch(r)' = Branch(r)
         /\ AtIt(r)' => AtIt(r)
         /\ Before(r)' => ~job'[r].owns
<1> DEFINE Calm == /\ Owning(r)' => Owning(r) /\ Branch(r)' = Branch(r)
                   /\ AtIt(r)' => AtIt(r)
                   /\ Before(r)' => ~job'[r].owns
<1>0. /\ r \in Procs /\ pc \in [Procs -> Steps] /\ job \in [Procs -> Job(Len(commits))]
      /\ (Before(r) => ~job[r].owns)
  BY DEF TInv, GitTypeOK, Job, Procs, LInv
<1>1. ASSUME NEW step, NEW j, Goto(r, step, j) PROVE pc'[r] = step /\ job'[r] = j
  BY <1>0, <1>1 DEF Goto
<1>2. ASSUME Exit(r) PROVE Calm
  BY <1>1, <1>2 DEF Exit, Owning, AtIt, Before
<1>3. ASSUME Next_(r, AfterFailure(r)), pc[r] \in {"announced", "snapped", "branched", "added", "staged", "committed"}
      PROVE  Calm
  BY <1>0, <1>1, <1>3 DEF Next_, AfterFailure, Owning, AtIt, Before, Branch
<1>4. CASE Recheck(r)
  <2>1. PICK b \in DirtyPlans : pc'[r] = "checked" /\ job'[r] = [NoJob EXCEPT !.plan = b]
    BY <1>1, <1>4 DEF Recheck
  <2> QED
    BY <2>1 DEF Owning, AtIt, NoJob
<1>5. CASE Announce(r)
  BY <1>0, <1>1, <1>2, <1>5 DEF Announce, Next_, Owning, AtIt, Before
<1>6. CASE SnapshotIndex(r)
  BY <1>0, <1>1, <1>6 DEF SnapshotIndex, Owning, AtIt, Before, Job
<1>7. CASE CreateAndSwitch(r)
  <2>1. CASE Next_(r, AfterFailure(r))
    BY <1>3, <1>7, <2>1 DEF CreateAndSwitch
  <2>2. CASE CanCreate(Branch(r)) /\ refs' = [refs EXCEPT ![Branch(r)] = SourceHead]
    BY <1>0, <1>7, <2>2, TypedRepo DEF CreateAndSwitch, CanCreate, SourceHead, RepoOK, TInv, Busy, Working
  <2> QED
    BY <1>7, <2>1, <2>2 DEF CreateAndSwitch
<1>8. CASE StagePlanned(r)
  BY <1>1, <1>8 DEF StagePlanned, Next_, Owning, AtIt, Before, Branch
<1>9. CASE CheckStaged(r)
  BY <1>1, <1>3, <1>9 DEF CheckStaged, Next_, Owning, AtIt, Before, Branch
<1>10. CASE CreateCommit(r)
  <2>1. CASE Next_(r, "committed")
    BY <1>1, <1>10, <2>1 DEF CreateCommit, Next_, Owning, AtIt, Before, Branch
  <2> QED
    BY <1>3, <1>10, <2>1 DEF CreateCommit
<1>11. CASE CheckCommit(r)
  <2>1. PICK step \in {"verified", AfterFailure(r)}, c \in {refs[head]} : pc'[r] = step /\ job'[r] = [job[r] EXCEPT !.commit = c]
    BY <1>1, <1>11 DEF CheckCommit
  <2>2. job'[r].plan = job[r].plan
    BY <1>0, <2>1 DEF Job
  <2> QED
    BY <1>11, <2>1, <2>2 DEF CheckCommit, AfterFailure, Owning, AtIt, Before, Branch
<1>12. CASE ReportCommit(r)
  BY <1>1, <1>2, <1>12 DEF ReportCommit, Next_, Owning, AtIt, Before, Branch
<1>13. CASE EmitCommit(r) \/ ReportFailure(r, "commit_result")
  BY <1>2, <1>13 DEF EmitCommit, ReportFailure
<1>14. CASE Fail(r)
  BY <1>3, <1>14 DEF Fail
<1>15. CASE ResetToSource(r)
  <2>1. pc'[r] = "rereading" /\ job'[r].plan = job[r].plan
    BY <1>0, <1>1, <1>15 DEF ResetToSource, Next_, Job
  <2> QED
    BY <1>15, <2>1 DEF ResetToSource, Owning, AtIt, Before, Branch
<1>16. CASE RestoreIndex(r)
  <2>1. pc'[r] = "returning" /\ job'[r].plan = job[r].plan
    BY <1>0, <1>1, <1>16 DEF RestoreIndex, Undo, Next_, Job
  <2> QED
    BY <1>16, <2>1 DEF RestoreIndex, Undo, Owning, AtIt, Before, Branch
<1>17. CASE ReturnToSource(r)
  <2>1. pc'[r] = "deleting" /\ job'[r].plan = job[r].plan
    BY <1>0, <1>1, <1>17 DEF ReturnToSource, Undo, Next_, Job
  <2> QED
    BY <1>17, <2>1 DEF ReturnToSource, Undo, Owning, AtIt, Before, Branch
<1>18. CASE DeleteBranch(r)
  <2>1. pc'[r] = "failed"
    BY <1>0, <1>1, <1>18 DEF DeleteBranch, Undo, Next_
  <2> QED
    BY <2>1 DEF Owning, AtIt, Before
<1>19. CASE Die(r)
  BY <1>1, <1>19 DEF Die, Owning, AtIt, Before
<1> QED
  BY <1>4, <1>5, <1>6, <1>7, <1>8, <1>9, <1>10, <1>11, <1>12, <1>13, <1>14, <1>15, <1>16, <1>17, <1>18, <1>19
     DEF RunStep

\* With one dirty plan, who owns a branch owns that of the plan.
LEMMA RunLocks ==
  ASSUME TInv, LInv, NEW d, DirtyPlans = {d}, NEW r \in Runs, RunStep(r)
  PROVE  LInv'
<1>0. /\ r \in Procs /\ Runs \subseteq Procs /\ d \in Branches /\ d # Source /\ RepoOK
      /\ pc \in [Procs -> Steps] /\ job \in [Procs -> Job(Len(commits))]
      /\ \A q \in Runs : Working(q) => Branch(q) = d
      /\ \A q \in Runs : Owning(q) => refs[d] # 0
      /\ \A q \in Runs : q # r => /\ pc'[q] = pc[q] /\ job'[q] = job[q]
  <2>1. \A q \in Runs : q # r => /\ pc'[q] = pc[q] /\ job'[q] = job[q]
    BY RunMoves DEF Moves, Procs
  <2>2. \A q \in Runs : Working(q) => Branch(q) = d
    BY DEF TInv, Busy
  <2>3. \A q \in Runs : Owning(q) => Working(q)
    BY DEF Owning, Working
  <2>4. pc \in [Procs -> Steps] /\ job \in [Procs -> Job(Len(commits))] /\ r \in Procs /\ Runs \subseteq Procs
    BY DEF TInv, GitTypeOK, Job, Procs
  <2>5. d \in Branches /\ d # Source /\ RepoOK
    BY TypedRepo
  <2>6. \A q \in Runs : Owning(q) => refs[d] # 0
    BY <2>2, <2>3 DEF LInv
  <2> QED
    BY <2>1, <2>2, <2>4, <2>5, <2>6
<1>1. CASE UNCHANGED <<head, refs>>
  <2>1. \A q \in Runs : /\ Owning(q)' => Owning(q) /\ Branch(q)' = Branch(q)
                        /\ AtIt(q)' => AtIt(q)
                        /\ Before(q)' => ~job'[q].owns
    <3>1. ASSUME NEW q \in Runs, q # r
          PROVE  /\ Owning(q)' => Owning(q) /\ Branch(q)' = Branch(q)
                 /\ AtIt(q)' => AtIt(q)
                 /\ Before(q)' => ~job'[q].owns
      BY <1>0, <3>1 DEF Owning, AtIt, Before, Branch, LInv
    <3>2. /\ Owning(r)' => Owning(r) /\ Branch(r)' = Branch(r)
          /\ AtIt(r)' => AtIt(r)
          /\ Before(r)' => ~job'[r].owns
      BY <1>1, CalmRun
    <3> QED
      BY <3>1, <3>2
  <2>2. \A q \in Runs : Owning(q)' => refs[Branch(q)]' # 0
    BY <1>1, <2>1 DEF LInv
  <2>3. \A q, p \in Runs : Owning(q)' /\ Owning(p)' => q = p
    BY <2>1 DEF LInv
  <2>4. \A q \in Runs : AtIt(q)' => Owning(q)'
    BY DEF AtIt, Owning
  <2>5. \A q \in Runs : AtIt(q)' => head' = Branch(q)'
    BY <1>1, <2>1, <2>4 DEF LInv
  <2> QED
    BY <2>1, <2>2, <2>3, <2>5 DEF LInv
<1>2. ASSUME NEW step, NEW j, Goto(r, step, j) PROVE pc'[r] = step /\ job'[r] = j
  BY <1>0, <1>2 DEF Goto
<1>3. CASE CreateAndSwitch(r) /\ CanCreate(Branch(r)) /\ CanSwitch(SourceHead)
  <2>1. /\ head' = d /\ refs[d] = 0 /\ refs' = [refs EXCEPT ![d] = SourceHead]
        /\ pc'[r] = "branched" /\ job'[r].plan = d
    <3>1. Branch(r) = d
      BY <1>0, <1>3 DEF CreateAndSwitch, Working
    <3>2. [job[r] EXCEPT !.owns = TRUE, !.found = work].plan = d
      BY <1>0, <3>1 DEF Job, Branch
    <3> QED
      BY <1>2, <1>3, <3>1, <3>2 DEF CreateAndSwitch, CanCreate, SwitchTo
  <2>2. \A q \in Runs : ~Owning(q)
    BY <1>0, <2>1
  <2>3. \A q \in Runs : Owning(q)' => q = r
    BY <1>0, <2>2 DEF Owning
  <2>4. refs'[d] # 0
    BY <1>0, <2>1 DEF RepoOK, SourceHead
  <2>5. \A q \in Runs : AtIt(q)' => Owning(q)'
    BY DEF AtIt, Owning
  <2>6. \A q \in Runs : Before(q)' => ~job'[q].owns
    BY <1>0, <2>1 DEF Before, LInv
  <2> QED
    BY <2>1, <2>3, <2>4, <2>5, <2>6 DEF LInv, Branch
<1>4. CASE (CreateCommit(r) /\ CommitIndex(r)) \/ (ResetToSource(r) /\ refs' = [refs EXCEPT ![head] = SourceHead])
  <2>1. /\ pc'[r] \in {"committed", "rereading", "resetting"} /\ Owning(r) /\ AtIt(r)
        /\ job'[r].plan = job[r].plan /\ head' = head
        /\ \E c \in Nat \ {0} : refs' = [refs EXCEPT ![head] = c]
    <3>1. CASE CreateCommit(r) /\ CommitIndex(r)
      <4>1. /\ pc'[r] = "committed" /\ job'[r] = job[r]
            /\ refs' = [refs EXCEPT ![head] = Len(commits) + 1] /\ head' = head
        BY <1>2, <3>1 DEF CreateCommit, CommitIndex, Next_
      <4>2. Owning(r) /\ AtIt(r)
        BY <3>1 DEF CreateCommit, Owning, AtIt
      <4>3. Len(commits) + 1 \in Nat \ {0}
        BY <1>0 DEF RepoOK
      <4> QED
        BY <4>1, <4>2, <4>3
    <3>2. CASE ResetToSource(r) /\ refs' = [refs EXCEPT ![head] = SourceHead]
      <4>1. pc'[r] = "rereading" /\ job'[r].plan = job[r].plan
        BY <1>0, <1>2, <3>2 DEF ResetToSource, Next_, Job
      <4>2. Owning(r) /\ AtIt(r) /\ head' = head
        BY <3>2 DEF ResetToSource, Owning, AtIt
      <4>3. SourceHead \in Nat \ {0}
        BY DEF SourceHead
      <4> QED
        BY <3>2, <4>1, <4>2, <4>3
    <3> QED
      BY <1>4, <3>1, <3>2
  <2>2. \A q \in Runs : Owning(q)' => q = r
    BY <1>0, <2>1 DEF LInv, Owning
  <2>3. head' = Branch(r) /\ Branch(r)' = Branch(r) /\ refs'[head] # 0
    BY <1>0, <2>1 DEF LInv, Branch, RepoOK
  <2>4. \A q \in Runs : AtIt(q)' => Owning(q)'
    BY DEF AtIt, Owning
  <2>5. \A q \in Runs : Before(q)' => ~job'[q].owns
    BY <1>0, <2>1 DEF Before, LInv
  <2> QED
    BY <2>1, <2>2, <2>3, <2>4, <2>5 DEF LInv
<1>5. CASE ReturnToSource(r) /\ SwitchTo(Source, refs[Source]) /\ UNCHANGED refs
  <2>1. pc'[r] = "deleting" /\ Owning(r) /\ job'[r].plan = job[r].plan
    <3>1. pc'[r] = "deleting" /\ job'[r].plan = job[r].plan
      BY <1>0, <1>2, <1>5 DEF ReturnToSource, Undo, Next_, Job
    <3> QED
      BY <1>5, <3>1 DEF ReturnToSource, Undo, Owning
  <2>2. \A q \in Runs : Owning(q)' => q = r
    BY <1>0, <2>1 DEF LInv, Owning
  <2>3. \A q \in Runs : ~AtIt(q)'
    BY <1>0, <2>1, <2>2 DEF AtIt, Owning
  <2>4. \A q \in Runs : Before(q)' => ~job'[q].owns
    BY <1>0, <2>1 DEF Before, LInv
  <2> QED
    BY <1>0, <1>5, <2>1, <2>2, <2>3, <2>4 DEF LInv, Branch
<1>6. CASE DeleteBranch(r) /\ refs' = [refs EXCEPT ![Branch(r)] = 0]
  <2>1. pc'[r] = "failed" /\ Owning(r)
    <3>1. pc'[r] = "failed"
      BY <1>2, <1>6 DEF DeleteBranch, Undo, Next_
    <3> QED
      BY <1>6, <3>1 DEF DeleteBranch, Undo, Owning
  <2>2. \A q \in Runs : ~Owning(q)'
    BY <1>0, <2>1 DEF LInv, Owning
  <2>3. \A q \in Runs : AtIt(q)' => Owning(q)'
    BY DEF AtIt, Owning
  <2>4. \A q \in Runs : Before(q)' => ~job'[q].owns
    BY <1>0, <2>1 DEF Before, LInv
  <2> QED
    BY <2>2, <2>3, <2>4 DEF LInv
<1> QED
  BY <1>1, <1>3, <1>4, <1>5, <1>6
     DEF RunStep, Recheck, Announce, SnapshotIndex, CreateAndSwitch, StagePlanned, CheckStaged,
         CreateCommit, CheckCommit, ReportCommit, EmitCommit, Fail, ResetToSource, RestoreIndex,
         ReturnToSource, DeleteBranch, Undo, ReportFailure, Die, repo

LEMMA PublishLocks ==
  ASSUME TInv, LInv, NEW d, DirtyPlans = {d}, NEW g \in Publishers, PublishStep(g)
  PROVE  LInv'
<1>1. \A q \in Runs : pc'[q] = pc[q] /\ job'[q] = job[q]
  BY PublishMoves, MaterializationAssumption DEF Moves, Procs
<1>2. /\ head' = head /\ RepoOK /\ Source \in Branches
      /\ refs' = refs \/ (Branch(g) \in CleanPlans /\ refs' = [refs EXCEPT ![Branch(g)] = job[g].commit])
  BY PublishRepo, TypedRepo
<1>3. \A q \in Runs : Owning(q) => Branch(q) \in DirtyPlans /\ Branch(q) \in Branches
  BY TypedRepo DEF TInv, Busy, Owning, Working
<1>4. \A q \in Runs : Owning(q) => refs'[Branch(q)] = refs[Branch(q)]
  BY <1>2, <1>3, MaterializationAssumption DEF RepoOK
<1> QED
  BY <1>1, <1>2, <1>4 DEF LInv, Owning, AtIt, Before, Branch

LEMMA LocksHold ==
  ASSUME TInv, LInv, NEW d, DirtyPlans = {d}, [Next]_gvars
  PROVE  LInv'
<1>1. CASE OperatorStep
  <2>1. \A q \in Runs : pc'[q] = pc[q] /\ job'[q] = job[q] /\ pc[q] \in {"idle", "dead"}
    BY <1>1 DEF OperatorStep, Quiet, Procs
  <2> QED
    BY <2>1 DEF LInv, Owning, AtIt, Before
<1>2. CASE UNCHANGED gvars
  BY <1>2 DEF gvars, repo, LInv, Owning, AtIt, Before, Branch
<1> QED
  BY <1>1, <1>2, RunLocks, PublishLocks DEF Next

LEMMA InitLocks == ASSUME Init PROVE LInv
BY DEF Init, Procs, LInv, Owning, AtIt, Before

\* No process at work moves the source branch.
LEMMA SourceStays ==
  ASSUME TInv, LInv, NEW d, DirtyPlans = {d}, [Next]_gvars, ~Quiet
  PROVE  refs'[Source] = refs[Source]
<1>0. RepoOK /\ Source \in Branches /\ Source # d /\ Source \notin CleanPlans
  BY TypedRepo
<1>1. CASE UNCHANGED gvars
  BY <1>1 DEF gvars, repo
<1>2. ASSUME NEW g \in Publishers, PublishStep(g) PROVE refs'[Source] = refs[Source]
  BY <1>0, <1>2, PublishRepo DEF RepoOK
<1>3. ASSUME NEW r \in Runs, RunStep(r) PROVE refs'[Source] = refs[Source]
  <2>1. Working(r) => Branch(r) # Source
    BY <1>0 DEF TInv, Busy
  <2>2. AtIt(r) => head = Branch(r)
    BY DEF LInv
  <2>3. refs' = refs \/ \E b \in Branches : \E c : b # Source /\ refs' = [refs EXCEPT ![b] = c]
    <3>0. (Working(r) => Branch(r) \in Branches) /\ head \in Branches
      BY <1>0, TypedRepo DEF TInv, Busy, RepoOK
    <3>1. CASE CreateAndSwitch(r)
      BY <2>1, <3>0, <3>1 DEF CreateAndSwitch, Working
    <3>2. CASE CreateCommit(r)
      BY <2>1, <2>2, <3>0, <3>2 DEF CreateCommit, CommitIndex, Working, AtIt
    <3>3. CASE ResetToSource(r)
      BY <2>1, <2>2, <3>0, <3>3 DEF ResetToSource, Working, AtIt
    <3>4. CASE DeleteBranch(r)
      BY <2>1, <3>0, <3>4 DEF DeleteBranch, Undo, Working
    <3> QED
      BY <1>3, <3>1, <3>2, <3>3, <3>4
         DEF RunStep, Recheck, Announce, SnapshotIndex, StagePlanned, CheckStaged, CheckCommit,
             ReportCommit, EmitCommit, Fail, RestoreIndex, ReturnToSource, Undo, ReportFailure, Die, repo
  <2> QED
    BY <1>0, <2>3 DEF RepoOK
<1>4. ~OperatorStep
  BY DEF OperatorStep
<1> QED
  BY <1>1, <1>2, <1>3, <1>4 DEF Next

\* While a command runs the source branch does not move, with one dirty plan about and
\* whatever number of runs, publishers, failures and deaths (materialize_dirty_commit_plan).
THEOREM SourceLeftAlone ==
  ASSUME NEW d, DirtyPlans = {d} PROVE Spec => SourceIsLeftAlone
<1>1. Init => TInv /\ LInv
  BY InitTyped, InitLocks
<1>2. TInv /\ LInv /\ [Next]_gvars => TInv' /\ LInv'
  BY NextTyped, LocksHold
<1>3. TInv /\ LInv /\ [Next]_gvars => [~Quiet => refs'[Source] = refs[Source]]_gvars
  BY SourceStays
<1> QED
  BY <1>1, <1>2, <1>3, PTL DEF Spec, SourceIsLeftAlone

------------------------------------------------------------------------------
(* One commit, as approved                                                  *)

Approved(c) == c \in 1..Len(commits) /\ commits[c].parent = SourceHead /\ Tree(c) = planned[2]

\* What a run knows of the checkout at each place it can be at, and what its report means.
OwnOK(r) ==
  /\ pc[r] \in {"branched", "added", "staged"} => refs[Branch(r)] = SourceHead
  /\ pc[r] \in {"added", "staged"} => index = work
  /\ pc[r] = "committed" => Approved(refs[Branch(r)])
  /\ pc[r] \in {"verified", "recorded"} => Approved(job[r].commit)
SeesOK(r) == Working(r) => refs[Source] = SourceHead /\ work \in {planned[2], Tree(SourceHead)}
ReportsOK ==
  \A e \in Reported("commit_result") :
    /\ Approved(e.commit) /\ e.plan \in DirtyPlans /\ refs[e.plan] # 0
    /\ \A r \in Runs : Owning(r) => pc[r] = "recorded"
    /\ \A f \in Reported("commit_result") : e = f

CInv ==
  /\ head \in {Source} \union DirtyPlans
  /\ \A r \in Runs : SeesOK(r) /\ OwnOK(r)
  /\ ReportsOK

\* Commits are only added to.
LEMMA ApprovedStays ==
  ASSUME TInv, commits' = commits \/ (\E c \in Commit : commits' = Append(commits, c)), planned' = planned
  PROVE  /\ \A c : Approved(c) => Approved(c)'
         /\ \A c \in 1..Len(commits) : Tree(c)' = Tree(c)
         /\ SourceHead \in 1..Len(commits)
<1>1. \A c \in 1..Len(commits) : commits'[c] = commits[c]
  BY MoreCommits
<1>2. 1..Len(commits) \subseteq 1..Len(commits')
  BY MoreCommits
<1>3. SourceHead \in 1..Len(commits)
  BY TypedRepo DEF RepoOK, SourceHead
<1> QED
  BY <1>1, <1>2, <1>3 DEF Approved, Tree

\* The branch that is checked out is the source branch unless a dirty plan's exists.
LEMMA OnSource ==
  ASSUME TInv, CInv, NEW d, DirtyPlans = {d}, refs[d] = 0
  PROVE  head = Source
BY TypedRepo DEF CInv, RepoOK

\* What a run does to the checkout if it owns no branch, and to the files in any case.
LEMMA RunTouches ==
  ASSUME TInv, LInv, CInv, NEW d, DirtyPlans = {d}, NEW r \in Runs, RunStep(r)
  PROVE  /\ planned' = planned /\ head' \in {Source, d}
         /\ \/ UNCHANGED repo
            \/ Owning(r)
            \/ pc[r] = "snapped" /\ refs[d] = 0 /\ refs' = [refs EXCEPT ![d] = SourceHead]
         /\ work' = work \/ (Working(r) /\ work' = Tree(SourceHead))
         /\ refs'[d] = 0 => refs[d] = 0 \/ pc[r] = "deleting"
<1>0. /\ head \in {Source, d} /\ (Working(r) => Branch(r) = d) /\ RepoOK /\ d \in Branches
      /\ (Working(r) => refs[Source] = SourceHead)
  BY TypedRepo DEF TInv, Busy, CInv, SeesOK
<1>1. planned' = planned
  BY DEF RunStep, Recheck, Announce, SnapshotIndex, CreateAndSwitch, StagePlanned, CheckStaged,
         CreateCommit, CheckCommit, ReportCommit, EmitCommit, Fail, ResetToSource, RestoreIndex,
         ReturnToSource, DeleteBranch, Undo, ReportFailure, Die
<1>2. CASE UNCHANGED repo
  BY <1>0, <1>1, <1>2 DEF repo
<1>3. CASE CreateAndSwitch(r)
  <2>1. CASE CanCreate(Branch(r)) /\ CanSwitch(SourceHead)
    <3>1. Branch(r) = d /\ refs[d] = 0 /\ refs[Source] = SourceHead
      BY <1>0, <1>3, <2>1 DEF CreateAndSwitch, CanCreate, Working
    <3>2. HeadTree = Tree(SourceHead)
      BY <3>1, OnSource DEF HeadTree
    <3>3. head' = d /\ work' = work /\ refs' = [refs EXCEPT ![d] = SourceHead] /\ pc[r] = "snapped"
      BY <1>3, <2>1, <3>1, <3>2 DEF CreateAndSwitch, SwitchTo
    <3> QED
      BY <1>0, <1>1, <3>1, <3>3 DEF RepoOK, SourceHead
  <2>2. CASE ~(CanCreate(Branch(r)) /\ CanSwitch(SourceHead))
    BY <1>2, <1>3, <2>2 DEF CreateAndSwitch, repo
  <2> QED
    BY <2>1, <2>2
<1>4. CASE StagePlanned(r)
  BY <1>0, <1>1, <1>4 DEF StagePlanned, Owning
<1>5. CASE CreateCommit(r)
  <2>1. pc[r] = "staged" /\ UNCHANGED <<head, work>>
    BY <1>5 DEF CreateCommit
  <2>2. refs'[d] = 0 => refs[d] = 0
    BY <1>0, <1>5 DEF CreateCommit, CommitIndex, RepoOK
  <2> QED
    BY <1>0, <1>1, <2>1, <2>2 DEF Owning
<1>6. CASE ResetToSource(r)
  <2>1. pc[r] = "resetting" /\ UNCHANGED <<head, work>>
    BY <1>6 DEF ResetToSource
  <2>2. refs'[d] = 0 => refs[d] = 0
    BY <1>0, <1>6 DEF ResetToSource, RepoOK, SourceHead
  <2> QED
    BY <1>0, <1>1, <2>1, <2>2 DEF Owning
<1>7. CASE RestoreIndex(r)
  BY <1>0, <1>1, <1>7 DEF RestoreIndex, Undo, Owning
<1>8. CASE ReturnToSource(r)
  <2>1. pc[r] = "returning" /\ Working(r) /\ refs' = refs
    BY <1>8 DEF ReturnToSource, Undo, Working
  <2>2. head' \in {Source, d} /\ (work' = work \/ work' = Tree(SourceHead))
    BY <1>0, <1>8, <2>1 DEF ReturnToSource, Undo, SwitchTo
  <2> QED
    BY <1>1, <2>1, <2>2 DEF Owning
<1>9. CASE DeleteBranch(r)
  BY <1>0, <1>1, <1>9 DEF DeleteBranch, Undo, Owning
<1> QED
  BY <1>2, <1>3, <1>4, <1>5, <1>6, <1>7, <1>8, <1>9
     DEF RunStep, Recheck, Announce, SnapshotIndex, CheckStaged, CheckCommit, ReportCommit,
         EmitCommit, Fail, ReportFailure, Die

\* What a run does, it does as approved.
LEMMA RunApproved ==
  ASSUME TInv, LInv, CInv, NEW d, DirtyPlans = {d}, NEW r \in Runs, RunStep(r)
  PROVE  OwnOK(r)'
<1>0. /\ r \in Procs /\ RepoOK /\ pc \in [Procs -> Steps] /\ job \in [Procs -> Job(Len(commits))]
      /\ (Working(r) => Branch(r) = d /\ SeesOK(r)) /\ OwnOK(r) /\ d \in Branches
      /\ (AtIt(r) => head = Branch(r))
  <2>1. r \in Procs /\ pc \in [Procs -> Steps] /\ job \in [Procs -> Job(Len(commits))]
    BY DEF TInv, GitTypeOK, Job, Procs
  <2>2. RepoOK /\ (Working(r) => Branch(r) = d) /\ d \in Branches
    BY TypedRepo DEF TInv, Busy
  <2> QED
    BY <2>1, <2>2 DEF CInv, LInv
<1>1. ASSUME NEW step, NEW j, Goto(r, step, j) PROVE pc'[r] = step /\ job'[r] = j
  BY <1>0, <1>1 DEF Goto
<1>2. CASE pc'[r] \notin {"branched", "added", "staged", "committed", "verified", "recorded"}
  BY <1>2 DEF OwnOK
<1>3. AfterFailure(r) \notin {"branched", "added", "staged", "committed", "verified", "recorded"}
  BY DEF AfterFailure
<1>4. CASE CreateAndSwitch(r)
  <2>1. CASE CanCreate(Branch(r)) /\ CanSwitch(SourceHead)
    <3>1. pc'[r] = "branched" /\ job'[r].plan = d
      <4>1. [job[r] EXCEPT !.owns = TRUE, !.found = work].plan = job[r].plan /\ Branch(r) = d
        BY <1>0, <1>4 DEF Job, CreateAndSwitch, Working
      <4> QED
        BY <1>1, <1>4, <2>1, <4>1 DEF CreateAndSwitch, Branch
    <3>2. refs'[d] = SourceHead
      BY <1>0, <1>4, <2>1 DEF CreateAndSwitch, Working, RepoOK
    <3> QED
      BY <3>1, <3>2 DEF OwnOK, Branch
  <2>2. CASE ~(CanCreate(Branch(r)) /\ CanSwitch(SourceHead))
    BY <1>1, <1>2, <1>3, <1>4, <2>2 DEF CreateAndSwitch, Next_
  <2> QED
    BY <2>1, <2>2
<1>5. CASE StagePlanned(r)
  <2>1. pc'[r] = "added" /\ job'[r] = job[r] /\ pc[r] = "branched"
    BY <1>1, <1>5 DEF StagePlanned, Next_
  <2> QED
    BY <1>0, <1>5, <2>1 DEF StagePlanned, OwnOK, Branch
<1>6. CASE CheckStaged(r)
  <2>1. CASE Next_(r, "staged")
    <3>1. pc'[r] = "staged" /\ job'[r] = job[r] /\ pc[r] = "added"
      BY <1>1, <1>6, <2>1 DEF CheckStaged, Next_
    <3> QED
      BY <1>0, <1>6, <3>1 DEF CheckStaged, repo, OwnOK, Branch
  <2> QED
    BY <1>1, <1>2, <1>3, <1>6, <2>1 DEF CheckStaged, Next_
<1>7. CASE CreateCommit(r)
  <2>1. CASE CommitIndex(r) /\ Next_(r, "committed")
    <3> DEFINE c == [parent |-> refs[head], tree |-> index, by |-> r]
    <3>1. pc'[r] = "committed" /\ job'[r] = job[r] /\ pc[r] = "staged" /\ Branch(r) = d /\ head = d
      BY <1>0, <1>1, <1>7, <2>1 DEF CreateCommit, Next_, Working, AtIt
    <3>2. refs[d] = SourceHead /\ index = work /\ work \in {planned[2], Tree(SourceHead)}
      BY <1>0, <3>1 DEF OwnOK, SeesOK, Working
    <3>3. index # Tree(SourceHead)
      BY <2>1, <3>1, <3>2 DEF CommitIndex, HeadTree
    <3>4. /\ commits' = Append(commits, c) /\ c \in Commit
          /\ refs' = [refs EXCEPT ![head] = Len(commits) + 1]
      BY <1>0, <2>1, CommitTyped
    <3>5. /\ commits'[Len(commits) + 1] = c /\ Len(commits) + 1 \in 1..Len(commits')
      BY <1>0, <3>4, MoreCommits DEF RepoOK
    <3>6. c.parent = SourceHead /\ c.tree = planned[2] /\ planned' = planned
      BY <1>7, <3>1, <3>2, <3>3 DEF CreateCommit
    <3>7. refs'[d] = Len(commits) + 1
      BY <1>0, <3>1, <3>4 DEF RepoOK
    <3>8. Approved(refs[d])'
      BY <3>5, <3>6, <3>7 DEF Approved, Tree, SourceHead
    <3>9. Branch(r)' = d
      BY <3>1 DEF Branch
    <3> QED
      BY <3>1, <3>8, <3>9 DEF OwnOK
  <2> QED
    BY <1>1, <1>2, <1>3, <1>7, <2>1 DEF CreateCommit, Next_
<1>8. CASE CheckCommit(r)
  <2>1. head = Branch(r) /\ Approved(refs[Branch(r)])
    BY <1>0, <1>8 DEF CheckCommit, AtIt, OwnOK
  <2>2. job'[r].commit = refs[head] /\ pc'[r] \in {"verified", AfterFailure(r)}
    <3>1. PICK step \in {"verified", AfterFailure(r)} : Goto(r, step, [job[r] EXCEPT !.commit = refs[head]])
      BY <1>8 DEF CheckCommit
    <3>2. [job[r] EXCEPT !.commit = refs[head]].commit = refs[head]
      BY <1>0 DEF Job
    <3> QED
      BY <1>1, <3>1, <3>2
  <2>3. UNCHANGED <<commits, planned>>
    BY <1>8 DEF CheckCommit, repo
  <2> QED
    BY <1>3, <2>1, <2>2, <2>3 DEF OwnOK, Approved, Tree
<1>9. CASE ReportCommit(r)
  <2>1. CASE Next_(r, "recorded")
    <3>1. pc'[r] = "recorded" /\ job'[r] = job[r] /\ pc[r] = "verified"
      BY <1>1, <1>9, <2>1 DEF ReportCommit, Next_
    <3> QED
      BY <1>0, <1>9, <3>1 DEF ReportCommit, repo, OwnOK, Approved, Tree
  <2>2. CASE Exit(r)
    BY <1>1, <1>2, <2>2 DEF Exit
  <2> QED
    BY <1>9, <2>1, <2>2 DEF ReportCommit
<1>10. CASE Recheck(r) \/ Announce(r) \/ SnapshotIndex(r) \/ EmitCommit(r) \/ Die(r) \/ ReportFailure(r, "commit_result")
  BY <1>1, <1>2, <1>10 DEF Recheck, Announce, SnapshotIndex, EmitCommit, Die, ReportFailure, Next_, Exit
<1>11. CASE Fail(r)
  BY <1>1, <1>2, <1>3, <1>11 DEF Fail, Next_
<1>12. CASE ResetToSource(r) \/ RestoreIndex(r) \/ ReturnToSource(r) \/ DeleteBranch(r)
  BY <1>1, <1>2, <1>12 DEF ResetToSource, RestoreIndex, ReturnToSource, DeleteBranch, Undo, Next_
<1> QED
  BY <1>4, <1>5, <1>6, <1>7, <1>8, <1>9, <1>10, <1>11, <1>12 DEF RunStep

\* While a run owns its branch no other run touches the checkout.
LEMMA OthersWait ==
  ASSUME TInv, LInv, CInv, NEW d, DirtyPlans = {d}, NEW r \in Runs, RunStep(r),
         NEW q \in Runs, q # r, OwnOK(q)
  PROVE  OwnOK(q)'
<1>1. pc'[q] = pc[q] /\ job'[q] = job[q]
  BY RunMoves DEF Moves, Procs
<1>2. \A c : Approved(c) => Approved(c)'
  BY RunRepo, RunTouches, ApprovedStays
<1>3. Owning(q) => UNCHANGED repo
  <2>1. SUFFICES ASSUME Owning(q) PROVE UNCHANGED repo
    OBVIOUS
  <2>2. refs[d] # 0 /\ ~Owning(r)
    BY <2>1 DEF LInv, TInv, Busy, Owning, Working
  <2> QED
    BY <2>2, RunTouches
<1> QED
  BY <1>1, <1>2, <1>3 DEF OwnOK, Owning, repo, Branch

\* A run that is at work sees the source branch at the head that was approved.
LEMMA RunSees ==
  ASSUME TInv, LInv, CInv, NEW d, DirtyPlans = {d}, NEW r \in Runs, RunStep(r), NEW q \in Runs
  PROVE  SeesOK(q)'
<1>0. /\ r \in Procs /\ q \in Procs /\ pc \in [Procs -> Steps] /\ planned' = planned
      /\ Tree(SourceHead)' = Tree(SourceHead)
      /\ \A p \in Procs : p # r => pc'[p] = pc[p]
  BY RunMoves, RunRepo, RunTouches, ApprovedStays DEF TInv, GitTypeOK, Moves, Procs
<1>1. CASE Recheck(r) /\ ~Working(q)
  BY <1>0, <1>1 DEF Recheck, PlanStands, SeesOK, Working, Fingerprint, repo
<1>2. CASE Working(q)
  <2>1. ~Quiet
    BY <1>0, <1>2 DEF Quiet, Working
  <2>2. refs'[Source] = refs[Source]
    BY <2>1, SourceStays DEF Next
  <2> QED
    BY <1>0, <1>2, <2>2, RunTouches DEF CInv, SeesOK
<1>3. CASE ~Recheck(r) /\ ~Working(q)
  <2>1. Working(r)
    BY <1>3 DEF RunStep, Announce, SnapshotIndex, CreateAndSwitch, StagePlanned, CheckStaged,
         CreateCommit, CheckCommit, ReportCommit, EmitCommit, Fail, ResetToSource, RestoreIndex,
         ReturnToSource, DeleteBranch, Undo, ReportFailure, Die, Working
  <2> QED
    BY <1>0, <1>3, <2>1 DEF SeesOK, Working
<1> QED
  BY <1>1, <1>2, <1>3

\* A run that reports is the only one that owns the branch, and nothing is reported before.
LEMMA RunReports ==
  ASSUME TInv, LInv, CInv, NEW d, DirtyPlans = {d}, NEW r \in Runs, RunStep(r)
  PROVE  ReportsOK'
<1> DEFINE R == Reported("commit_result")
<1>0. /\ r \in Procs /\ pc \in [Procs -> Steps] /\ job \in [Procs -> Job(Len(commits))]
      /\ \A q \in Runs : q # r => pc'[q] = pc[q]
      /\ \A c : Approved(c) => Approved(c)'
      /\ (Working(r) => Branch(r) = d)
  BY RunMoves, RunRepo, RunTouches, ApprovedStays DEF TInv, GitTypeOK, Moves, Procs, Busy, Job
<1>1. ASSUME NEW step, NEW j, Goto(r, step, j) PROVE pc'[r] = step /\ job'[r] = j
  BY <1>0, <1>1 DEF Goto
<1>2. ASSUME R # {}
      PROVE  /\ Owning(r)' => pc'[r] = "recorded"
             /\ refs'[d] # 0
  <2>1. refs[d] # 0 /\ (Owning(r) => pc[r] = "recorded")
    BY <1>2 DEF CInv, ReportsOK
  <2>2. refs'[d] # 0
    <3>1. pc[r] # "deleting"
      BY <2>1 DEF Owning
    <3> QED
      BY <2>1, <3>1, RunTouches
  <2>3. CASE Owning(r)
    <3>1. EmitCommit(r) \/ Die(r)
      BY <2>1, <2>3 DEF RunStep, Recheck, Announce, SnapshotIndex, CreateAndSwitch, StagePlanned,
           CheckStaged, CreateCommit, CheckCommit, ReportCommit, Fail, ResetToSource, RestoreIndex,
           ReturnToSource, DeleteBranch, Undo, ReportFailure
    <3> QED
      BY <1>1, <2>2, <3>1 DEF EmitCommit, Die, Exit, Owning
  <2>4. CASE ~Owning(r)
    <3>1. ~(CanCreate(Branch(r)) /\ CreateAndSwitch(r))
      BY <1>0, <2>1 DEF CanCreate, CreateAndSwitch, Working
    <3>2. UNCHANGED <<head, refs>>
      <4>1. UNCHANGED repo
        BY <2>1, <2>4, RunTouches
      <4> QED
        BY <4>1 DEF repo
    <3>3. ~Owning(r)'
      BY <2>4, <3>2, CalmRun
    <3> QED
      BY <2>2, <3>3
  <2> QED
    BY <2>3, <2>4
<1>3. CASE R' = R
  <2>1. \A q \in Runs : q # r /\ Owning(q)' => Owning(q)
    BY <1>0 DEF Owning
  <2> QED
    BY <1>0, <1>2, <1>3, <2>1 DEF CInv, ReportsOK
<1>4. CASE /\ ReportCommit(r) /\ Next_(r, "recorded")
           /\ log' = log \union {Record(r, "commit_result", "materialized")}
  <2>1. /\ pc[r] = "verified" /\ pc'[r] = "recorded" /\ job'[r] = job[r] /\ Branch(r) = d
        /\ UNCHANGED repo /\ Owning(r)
    BY <1>0, <1>1, <1>4 DEF ReportCommit, Next_, Working, Owning
  <2>2. R = {}
    BY <2>1 DEF CInv, ReportsOK
  <2>3. R' \subseteq {Record(r, "commit_result", "materialized")}
    BY <1>4, <2>2 DEF Reported
  <2>4. /\ Record(r, "commit_result", "materialized").commit = job[r].commit
        /\ Record(r, "commit_result", "materialized").plan = d
    BY <2>1 DEF Record
  <2>5. (\A c : c = job[r].commit => Approved(c)') /\ refs'[d] # 0
    <3>1. Approved(job[r].commit)
      BY <2>1 DEF CInv, OwnOK
    <3>2. refs[d] # 0 /\ refs' = refs
      BY <2>1 DEF LInv, repo
    <3> QED
      BY <1>0, <3>1, <3>2
  <2>6. \A q \in Runs : Owning(q)' => pc'[q] = "recorded"
    BY <1>0, <2>1 DEF LInv, Owning
  <2>7. \A e \in R' : e.commit = job[r].commit /\ e.plan = d
    BY <2>3, <2>4
  <2>8. \A e, f \in R' : e = f
    BY <2>3
  <2> HIDE DEF R
  <2>9. \A e \in R' : Approved(e.commit)' /\ e.plan \in DirtyPlans /\ refs'[e.plan] # 0
    BY <2>5, <2>7
  <2>10. \A e \in R' : (\A q \in Runs : Owning(q)' => pc'[q] = "recorded") /\ (\A f \in R' : e = f)
    BY <2>6, <2>8
  <2> USE DEF R
  <2> QED
    BY <2>9, <2>10 DEF ReportsOK
<1>5. CASE ~(/\ ReportCommit(r) /\ Next_(r, "recorded")
             /\ log' = log \union {Record(r, "commit_result", "materialized")})
  <2>1. log' = log \/ \E how \in {"approved", "blocked"} : \E kind : log' = log \union {Record(r, kind, how)}
    BY <1>5 DEF RunStep, Recheck, Announce, SnapshotIndex, CreateAndSwitch, StagePlanned, CheckStaged,
         CreateCommit, CheckCommit, ReportCommit, EmitCommit, Fail, ResetToSource, RestoreIndex,
         ReturnToSource, DeleteBranch, Undo, ReportFailure, Die, records
  <2> QED
    BY <1>3, <2>1 DEF Reported, Record
<1> QED
  BY <1>4, <1>5

LEMMA RunCommits ==
  ASSUME TInv, LInv, CInv, NEW d, DirtyPlans = {d}, NEW r \in Runs, RunStep(r)
  PROVE  CInv'
<1>1. head' \in {Source} \union DirtyPlans
  BY RunTouches
<1>2. \A q \in Runs : OwnOK(q)'
  BY RunApproved, OthersWait DEF CInv
<1> QED
  BY <1>1, <1>2, RunSees, RunReports DEF CInv

LEMMA PublishCommits ==
  ASSUME TInv, LInv, CInv, NEW d, DirtyPlans = {d}, NEW g \in Publishers, PublishStep(g)
  PROVE  CInv'
<1>1. \A q \in Runs : pc'[q] = pc[q] /\ job'[q] = job[q]
  BY PublishMoves, MaterializationAssumption DEF Moves, Procs
<1>2. UNCHANGED <<commits, head, index, work, planned>>
  BY PublishRepo DEF PublishStep, CheckPlan, AnnouncePr, CreateBranch, Push, OpenPr, FailPr, ReportPr,
                     ReportFailure, Die
<1>3. refs'[d] = refs[d] /\ refs'[Source] = refs[Source]
  BY PublishRepo, TypedRepo, MaterializationAssumption DEF RepoOK
<1>4. Reported("commit_result")' = Reported("commit_result")
  <2>1. log' = log \/ \E kind \in {"pr_intent", "pr_result"} : \E how : log' = log \union {Record(g, kind, how)}
    BY DEF PublishStep, CheckPlan, AnnouncePr, CreateBranch, Push, OpenPr, FailPr, ReportPr,
           ReportFailure, Die, records
  <2> QED
    BY <2>1 DEF Reported, Record
<1>5. \A q \in Runs : Working(q) => Branch(q) = d
  BY DEF TInv, Busy
<1>6. \A c : Approved(c)' <=> Approved(c)
  BY <1>2 DEF Approved, Tree
<1>7. \A q \in Runs : SeesOK(q)' /\ OwnOK(q)'
  <2>1. ASSUME NEW q \in Runs PROVE SeesOK(q)'
    BY <1>1, <1>2, <1>3 DEF CInv, SeesOK, Working, Tree
  <2>2. ASSUME NEW q \in Runs PROVE OwnOK(q)'
    BY <1>1, <1>2, <1>3, <1>5, <1>6 DEF CInv, OwnOK, Working, Branch
  <2> QED
    BY <2>1, <2>2
<1>8. ReportsOK'
  BY <1>1, <1>3, <1>4, <1>6 DEF CInv, ReportsOK, Owning
<1> QED
  BY <1>2, <1>7, <1>8 DEF CInv

LEMMA OperatorCommits ==
  ASSUME TInv, CInv, NEW d, DirtyPlans = {d}, OperatorStep
  PROVE  CInv'
<1>0. RepoOK /\ d \in Branches /\ head \in {Source, d}
  BY TypedRepo DEF CInv
<1>1. \A q \in Runs : pc'[q] = pc[q] /\ job'[q] = job[q] /\ pc[q] \in {"idle", "dead"}
  BY DEF OperatorStep, Quiet, Procs
<1>2. UNCHANGED <<planned, log>> /\ (commits' = commits \/ \E c \in Commit : commits' = Append(commits, c))
  BY <1>0 DEF OperatorStep, Edit, OperatorCommit, OperatorReturns, records, RepoOK, Commit
<1>3. \A c : Approved(c) => Approved(c)'
  BY <1>2, ApprovedStays
<1>4. refs'[d] = 0 => refs[d] = 0
  BY <1>0 DEF OperatorStep, Edit, OperatorCommit, OperatorReturns, RepoOK
<1>5. head' \in {Source, d}
  BY <1>0 DEF OperatorStep, Edit, OperatorCommit, OperatorReturns, SwitchTo
<1>6. \A q \in Runs : SeesOK(q)' /\ OwnOK(q)' /\ ~Owning(q)'
  BY <1>1 DEF SeesOK, OwnOK, Working, Owning
<1>7. ReportsOK'
  BY <1>2, <1>3, <1>4, <1>6 DEF CInv, ReportsOK, Reported
<1> QED
  BY <1>5, <1>6, <1>7 DEF CInv

LEMMA InitCommits == ASSUME Init PROVE CInv
<1>1. \A r \in Runs : ~Working(r) /\ pc[r] = "idle"
  BY DEF Init, Procs, Working
<1>2. log = {} /\ head = Source
  BY DEF Init
<1> QED
  BY <1>1, <1>2 DEF CInv, SeesOK, OwnOK, ReportsOK, Reported

LEMMA CommitsHold ==
  ASSUME TInv, LInv, CInv, NEW d, DirtyPlans = {d}, [Next]_gvars
  PROVE  CInv'
<1>1. CASE UNCHANGED gvars
  BY <1>1 DEF gvars, repo, records, CInv, SeesOK, OwnOK, ReportsOK, Reported, Working, Owning, Branch,
              Approved, Tree
<1> QED
  BY <1>1, RunCommits, PublishCommits, OperatorCommits DEF Next

\* With one dirty plan about, however many runs are given it, retried, failed or cut short, it
\* becomes one commit, once: on the approved head, with the approved content
\* (materialize_dirty_commit_plan).
THEOREM PlanBecomesOneCommit ==
  ASSUME NEW d, DirtyPlans = {d} PROVE Spec => []OneApprovedCommit
<1>1. Init => TInv /\ LInv /\ CInv
  BY InitTyped, InitLocks, InitCommits
<1>2. TInv /\ LInv /\ CInv /\ [Next]_gvars => TInv' /\ LInv' /\ CInv'
  BY NextTyped, LocksHold, CommitsHold
<1>3. CInv => OneApprovedCommit
  BY DEF CInv, ReportsOK, OneApprovedCommit, Approved
<1> QED
  BY <1>1, <1>2, <1>3, PTL DEF Spec

------------------------------------------------------------------------------
(* What is undone leaves no trace                                           *)

\* What a run remembers of the checkout from when it made its branch on, and how far it has
\* come with the rollback if nothing of it has failed so far.
UndoOK(r) ==
  /\ Before(r) \/ pc[r] \in {"branched", "added", "staged", "committed", "resetting"} => ~job[r].undone
  /\ pc[r] \in {"branched", "added", "staged", "committed", "resetting"} => job[r].found = work
  /\ pc[r] = "rereading" /\ job[r].undone => refs[Branch(r)] = SourceHead /\ job[r].found = work
  /\ pc[r] = "returning" /\ job[r].undone =>
       refs[Branch(r)] = SourceHead /\ job[r].found = work /\ job[r].snap = index
  /\ pc[r] = "deleting" /\ job[r].undone =>
       head = Source /\ job[r].found = work /\ job[r].snap = index

UInv == \A r \in Runs : UndoOK(r)

\* What a run does while it makes its commit.
LEMMA RunRemembers ==
  ASSUME TInv, LInv, CInv, NEW d, DirtyPlans = {d}, NEW r \in Runs, RunStep(r), UndoOK(r),
         ~ResetToSource(r), ~RestoreIndex(r), ~ReturnToSource(r), ~DeleteBranch(r)
  PROVE  UndoOK(r)'
<1>0. /\ r \in Procs /\ pc \in [Procs -> Steps] /\ job \in [Procs -> Job(Len(commits))]
      /\ (Working(r) => Branch(r) = d) /\ RepoOK /\ d \in Branches
      /\ (Before(r) => ~job[r].owns)
  BY TypedRepo DEF TInv, GitTypeOK, Job, Procs, Busy, LInv
<1>1. ASSUME NEW step, NEW j, Goto(r, step, j) PROVE pc'[r] = step /\ job'[r] = j
  BY <1>0, <1>1 DEF Goto
<1>2. CASE pc'[r] \in {"idle", "dead", "verified", "recorded", "failed"}
  BY <1>2 DEF UndoOK, Before
<1>3. ASSUME Next_(r, AfterFailure(r)), UNCHANGED work,
             pc[r] \in {"announced", "snapped", "branched", "added", "staged", "committed"}
      PROVE  UndoOK(r)'
  <2>1. job'[r] = job[r] /\ pc'[r] = AfterFailure(r)
    BY <1>1, <1>3 DEF Next_
  <2>2. CASE job[r].owns
    BY <1>0, <1>3, <2>1, <2>2 DEF AfterFailure, UndoOK, Before
  <2>3. CASE ~job[r].owns
    BY <1>2, <2>1, <2>3 DEF AfterFailure
  <2> QED
    BY <2>2, <2>3
<1>4. CASE Recheck(r)
  <2>1. PICK b \in DirtyPlans : pc'[r] = "checked" /\ job'[r] = [NoJob EXCEPT !.plan = b]
    BY <1>1, <1>4 DEF Recheck
  <2>2. job'[r].undone = FALSE
    BY <2>1 DEF NoJob
  <2> QED
    BY <2>1, <2>2 DEF UndoOK, Before
<1>5. CASE Announce(r)
  <2>1. CASE Next_(r, "announced")
    BY <1>1, <1>5, <2>1 DEF Announce, Next_, UndoOK, Before
  <2>2. CASE Exit(r)
    BY <1>1, <1>2, <2>2 DEF Exit
  <2> QED
    BY <1>5, <2>1, <2>2 DEF Announce
<1>6. CASE SnapshotIndex(r)
  <2>1. pc'[r] = "snapped" /\ job'[r] = [job[r] EXCEPT !.snap = index] /\ pc[r] = "announced"
    BY <1>1, <1>6 DEF SnapshotIndex
  <2>2. job'[r].undone <=> job[r].undone
    BY <1>0, <2>1 DEF Job
  <2> QED
    BY <2>1, <2>2 DEF UndoOK, Before
<1>7. CASE CreateAndSwitch(r)
  <2>1. CASE CanCreate(Branch(r)) /\ CanSwitch(SourceHead)
    <3>1. Branch(r) = d /\ refs[d] = 0 /\ refs[Source] = SourceHead /\ pc[r] = "snapped"
      BY <1>0, <1>7, <2>1 DEF CreateAndSwitch, CanCreate, Working, CInv, SeesOK
    <3>2. HeadTree = Tree(SourceHead)
      BY <3>1, OnSource DEF HeadTree
    <3>3. work' = work
      BY <1>7, <2>1, <3>2 DEF CreateAndSwitch, SwitchTo
    <3>4. pc'[r] = "branched" /\ job'[r] = [job[r] EXCEPT !.owns = TRUE, !.found = work]
      BY <1>1, <1>7, <2>1 DEF CreateAndSwitch
    <3>5. job'[r].found = work /\ (job'[r].undone <=> job[r].undone)
      BY <1>0, <3>4 DEF Job
    <3>6. ~job[r].undone
      BY <3>1 DEF UndoOK, Before
    <3> QED
      BY <3>3, <3>4, <3>5, <3>6 DEF UndoOK, Before
  <2>2. CASE ~(CanCreate(Branch(r)) /\ CanSwitch(SourceHead))
    BY <1>3, <1>7, <2>2 DEF CreateAndSwitch
  <2> QED
    BY <2>1, <2>2
<1>8. CASE StagePlanned(r)
  BY <1>1, <1>8 DEF StagePlanned, Next_, UndoOK, Before
<1>9. CASE CheckStaged(r)
  <2>1. CASE Next_(r, "staged")
    BY <1>1, <1>9, <2>1 DEF CheckStaged, Next_, UndoOK, Before, repo
  <2>2. CASE Next_(r, AfterFailure(r))
    BY <1>3, <1>9, <2>2 DEF CheckStaged, repo
  <2> QED
    BY <1>9, <2>1, <2>2 DEF CheckStaged
<1>10. CASE CreateCommit(r)
  <2>1. CASE Next_(r, "committed")
    BY <1>1, <1>10, <2>1 DEF CreateCommit, Next_, UndoOK, Before
  <2>2. CASE Next_(r, AfterFailure(r))
    BY <1>3, <1>10, <2>2 DEF CreateCommit
  <2> QED
    BY <1>10, <2>1, <2>2 DEF CreateCommit
<1>11. CASE CheckCommit(r)
  <2>1. PICK step \in {"verified", AfterFailure(r)}, c \in {refs[head]} :
          pc'[r] = step /\ job'[r] = [job[r] EXCEPT !.commit = c]
    BY <1>1, <1>11 DEF CheckCommit
  <2>2. job'[r].found = job[r].found /\ (job'[r].undone <=> job[r].undone)
    BY <1>0, <2>1 DEF Job
  <2>3. work' = work /\ pc[r] = "committed"
    BY <1>11 DEF CheckCommit, repo
  <2>4. CASE step = "verified"
    BY <1>2, <2>1, <2>4
  <2>5. CASE step = AfterFailure(r)
    <3>1. pc'[r] \in {"resetting", "failed"}
      BY <2>1, <2>5 DEF AfterFailure
    <3> QED
      BY <2>2, <2>3, <3>1 DEF UndoOK, Before
  <2> QED
    BY <2>1, <2>4, <2>5
<1>12. CASE ReportCommit(r)
  BY <1>1, <1>2, <1>12 DEF ReportCommit, Next_, Exit
<1>13. CASE EmitCommit(r) \/ ReportFailure(r, "commit_result") \/ Die(r)
  BY <1>1, <1>2, <1>13 DEF EmitCommit, ReportFailure, Die, Exit
<1>14. CASE Fail(r)
  BY <1>3, <1>14 DEF Fail, repo
<1> QED
  BY <1>4, <1>5, <1>6, <1>7, <1>8, <1>9, <1>10, <1>11, <1>12, <1>13, <1>14 DEF RunStep

\* What it does when it undoes: each step keeps what the ones before it have put back.
LEMMA RunUndoes ==
  ASSUME TInv, LInv, CInv, NEW d, DirtyPlans = {d}, NEW r \in Runs, UndoOK(r),
         ResetToSource(r) \/ RestoreIndex(r) \/ ReturnToSource(r) \/ DeleteBranch(r)
  PROVE  UndoOK(r)'
<1>0. /\ r \in Procs /\ pc \in [Procs -> Steps] /\ job \in [Procs -> Job(Len(commits))]
      /\ Branch(r) = d /\ RepoOK /\ d \in Branches /\ refs[Source] = SourceHead
      /\ (AtIt(r) => head = d)
  <2>1. Working(r)
    BY DEF ResetToSource, RestoreIndex, ReturnToSource, DeleteBranch, Undo, Working
  <2> QED
    BY <2>1, TypedRepo DEF TInv, GitTypeOK, Job, Procs, Busy, LInv, CInv, SeesOK
<1>1. ASSUME NEW step, NEW j, Goto(r, step, j) PROVE pc'[r] = step /\ job'[r] = j
  BY <1>0, <1>1 DEF Goto
<1>2. [job[r] EXCEPT !.undone = FALSE].undone = FALSE
  BY <1>0 DEF Job
<1>3. ASSUME NEW step \in {"returning", "deleting", "failed"},
             Goto(r, step, [job[r] EXCEPT !.undone = FALSE])
      PROVE  UndoOK(r)'
  BY <1>1, <1>2, <1>3 DEF UndoOK, Before
<1>4. CASE ResetToSource(r)
  <2>1. pc[r] = "resetting" /\ work' = work /\ head = d
    BY <1>0, <1>4 DEF ResetToSource, AtIt
  <2>2. CASE /\ refs' = [refs EXCEPT ![head] = SourceHead]
             /\ Goto(r, "rereading", [job[r] EXCEPT !.undone = TRUE])
    <3>1. pc'[r] = "rereading" /\ job'[r] = [job[r] EXCEPT !.undone = TRUE] /\ refs'[d] = SourceHead
      BY <1>0, <1>1, <2>1, <2>2 DEF RepoOK
    <3>2. job'[r].found = job[r].found /\ job'[r].plan = d
      BY <1>0, <3>1 DEF Job, Branch
    <3> QED
      BY <2>1, <3>1, <3>2 DEF UndoOK, Before, Branch
  <2>3. CASE Next_(r, "rereading")
    BY <1>1, <2>1, <2>3 DEF Next_, UndoOK, Before
  <2> QED
    BY <1>4, <2>2, <2>3 DEF ResetToSource
<1>5. CASE RestoreIndex(r)
  <2>1. CASE index' = job[r].snap /\ UNCHANGED <<head, refs, work>> /\ Next_(r, "returning")
    <3>1. pc[r] = "rereading" /\ pc'[r] = "returning" /\ job'[r] = job[r]
      BY <1>1, <1>5, <2>1 DEF RestoreIndex, Undo, Next_
    <3> QED
      BY <2>1, <3>1 DEF UndoOK, Before, Branch
  <2> QED
    BY <1>3, <1>5, <2>1 DEF RestoreIndex, Undo
<1>6. CASE ReturnToSource(r)
  <2>1. CASE SwitchTo(Source, refs[Source]) /\ Next_(r, "deleting")
    <3>1. pc[r] = "returning" /\ pc'[r] = "deleting" /\ job'[r] = job[r] /\ head' = Source
      BY <1>1, <1>6, <2>1 DEF ReturnToSource, Undo, Next_, SwitchTo
    <3>2. ASSUME job[r].undone PROVE UNCHANGED <<index, work>>
      <4>1. HeadTree = Tree(refs[Source])
        BY <1>0, <3>1, <3>2 DEF UndoOK, AtIt, HeadTree
      <4> QED
        BY <2>1, <4>1 DEF SwitchTo
    <3> QED
      BY <3>1, <3>2 DEF UndoOK, Before
  <2> QED
    BY <1>3, <1>6, <2>1 DEF ReturnToSource, Undo
<1>7. CASE DeleteBranch(r)
  <2>1. pc'[r] = "failed"
    BY <1>1, <1>7 DEF DeleteBranch, Undo, Next_
  <2> QED
    BY <2>1 DEF UndoOK, Before
<1> QED
  BY <1>4, <1>5, <1>6, <1>7

LEMMA UndoHolds ==
  ASSUME TInv, LInv, CInv, UInv, NEW d, DirtyPlans = {d}, [Next]_gvars
  PROVE  UInv'
<1>0. RepoOK /\ d \in Branches /\ d \notin CleanPlans
  BY TypedRepo, MaterializationAssumption
<1>1. ASSUME NEW q \in Runs, pc'[q] = pc[q], job'[q] = job[q],
             Owning(q) => UNCHANGED <<head, index, work>> /\ refs'[d] = refs[d]
      PROVE  UndoOK(q)'
  <2>1. Owning(q) => Branch(q) = d
    BY DEF TInv, Busy, Owning, Working
  <2> QED
    BY <1>1, <2>1 DEF UInv, UndoOK, Owning, Before, Branch
<1>2. ASSUME NEW r \in Runs, RunStep(r) PROVE UInv'
  <2>1. ASSUME NEW q \in Runs, q # r PROVE UndoOK(q)'
    <3>1. pc'[q] = pc[q] /\ job'[q] = job[q]
      BY <1>2, <2>1, RunMoves DEF Moves, Procs
    <3>2. ASSUME Owning(q) PROVE UNCHANGED repo
      <4>1. refs[d] # 0 /\ ~Owning(r)
        BY <2>1, <3>2 DEF LInv, TInv, Busy, Owning, Working
      <4> QED
        BY <1>2, <4>1, RunTouches
    <3> QED
      BY <1>1, <3>1, <3>2 DEF repo
  <2>2. UndoOK(r)'
    BY <1>2, RunRemembers, RunUndoes DEF UInv
  <2> QED
    BY <2>1, <2>2 DEF UInv
<1>3. ASSUME NEW g \in Publishers, PublishStep(g) PROVE UInv'
  <2>1. \A q \in Runs : pc'[q] = pc[q] /\ job'[q] = job[q]
    BY <1>3, PublishMoves, MaterializationAssumption DEF Moves, Procs
  <2>2. UNCHANGED <<head, index, work>> /\ refs'[d] = refs[d]
    BY <1>0, <1>3, PublishRepo DEF RepoOK
  <2> QED
    BY <1>1, <2>1, <2>2 DEF UInv
<1>4. CASE OperatorStep
  <2>1. \A q \in Runs : pc'[q] = pc[q] /\ job'[q] = job[q] /\ ~Owning(q)
    BY <1>4 DEF OperatorStep, Quiet, Procs, Owning
  <2> QED
    BY <1>1, <2>1 DEF UInv
<1>5. CASE UNCHANGED gvars
  BY <1>1, <1>5 DEF gvars, repo, UInv
<1> QED
  BY <1>2, <1>3, <1>4, <1>5 DEF Next

\* With one dirty plan about, a run that could undo everything leaves the source branch checked
\* out, its own branch gone, the index as it found it and the files as they were when it made the
\* branch, whatever the others do meanwhile (materialize_dirty_commit_plan).
THEOREM UndoneWithoutTrace ==
  ASSUME NEW d, DirtyPlans = {d} PROVE Spec => UndoneLeavesNoTrace
<1> DEFINE Undone == \A r \in Runs :
                       pc[r] = "deleting" /\ pc'[r] = "failed" /\ job'[r].undone =>
                         /\ head' = Source /\ refs'[Branch(r)] = 0 /\ refs'[Source] = SourceHead
                         /\ index' = job[r].snap /\ work' = job[r].found
<1>1. Init => TInv /\ LInv /\ CInv /\ UInv
  <2>1. Init => UInv
    BY DEF Init, Procs, UInv, UndoOK, Before
  <2> QED
    BY <2>1, InitTyped, InitLocks, InitCommits
<1>2. TInv /\ LInv /\ CInv /\ UInv /\ [Next]_gvars => TInv' /\ LInv' /\ CInv' /\ UInv'
  BY NextTyped, LocksHold, CommitsHold, UndoHolds
<1>3. ASSUME TInv, LInv, CInv, UInv, [Next]_gvars PROVE [Undone]_gvars
  <2>1. SUFFICES ASSUME Next, NEW r \in Runs, pc[r] = "deleting", pc'[r] = "failed", job'[r].undone
                 PROVE  /\ head' = Source /\ refs'[Branch(r)] = 0 /\ refs'[Source] = SourceHead
                        /\ index' = job[r].snap /\ work' = job[r].found
    BY <1>3
  <2>0. /\ r \in Procs /\ pc \in [Procs -> Steps] /\ job \in [Procs -> Job(Len(commits))]
        /\ RepoOK /\ Branch(r) = d /\ d \in Branches /\ d # Source /\ refs[Source] = SourceHead
        /\ UndoOK(r) /\ Source \in Branches
    BY <1>3, <2>1, TypedRepo DEF TInv, GitTypeOK, Job, Procs, Busy, Working, CInv, SeesOK, UInv
  <2>2. DeleteBranch(r)
    <3>1. ~OperatorStep
      BY <2>0, <2>1 DEF OperatorStep
    <3>2. ASSUME NEW p \in Procs, p # r, Moves(p) PROVE FALSE
      BY <2>0, <2>1, <3>2 DEF Moves
    <3>3. ~\E g \in Publishers : PublishStep(g)
      BY <1>3, <2>0, <3>2, PublishMoves, MaterializationAssumption DEF Procs
    <3>4. ~\E q \in Runs : q # r /\ RunStep(q)
      BY <1>3, <3>2, RunMoves DEF Procs
    <3>5. RunStep(r)
      BY <2>1, <3>1, <3>3, <3>4 DEF Next
    <3>6. ~Die(r)
      BY <2>0, <2>1 DEF Die, Goto
    <3> QED
      BY <2>1, <3>5, <3>6 DEF RunStep, Recheck, Announce, SnapshotIndex, CreateAndSwitch, StagePlanned,
           CheckStaged, CreateCommit, CheckCommit, ReportCommit, EmitCommit, Fail, ResetToSource,
           RestoreIndex, ReturnToSource, Undo, ReportFailure
  <2>3. ~Goto(r, "failed", [job[r] EXCEPT !.undone = FALSE])
    <3>1. [job[r] EXCEPT !.undone = FALSE].undone = FALSE
      BY <2>0 DEF Job
    <3> QED
      BY <2>0, <2>1, <3>1 DEF Goto
  <2>4. /\ refs' = [refs EXCEPT ![Branch(r)] = 0] /\ UNCHANGED <<head, index, work>>
        /\ Next_(r, "failed")
    BY <2>2, <2>3 DEF DeleteBranch, Undo
  <2>5. job[r].undone
    BY <2>0, <2>1, <2>4 DEF Next_, Goto
  <2>6. refs'[Branch(r)] = 0 /\ refs'[Source] = SourceHead
    BY <2>0, <2>4 DEF RepoOK
  <2> QED
    BY <2>0, <2>1, <2>4, <2>5, <2>6 DEF UndoOK
<1> QED
  BY <1>1, <1>2, <1>3, PTL DEF Spec, UndoneLeavesNoTrace

------------------------------------------------------------------------------
(* Histories                                                                *)

\* Every set of numbers that is not empty has a least one.
LEMMA LeastNumber ==
  ASSUME NEW T \in SUBSET Nat, T # {}
  PROVE  \E k \in T : \A j \in T : ~(j < k)
<1>1. PICK k \in T : \A j \in T : ~(<<j, k>> \in OpToRel(<, Nat))
  BY NatLessThanWellFounded, WFMin
<1>2. ASSUME NEW j \in T, j < k PROVE FALSE
  <2>1. <<j, k>> \in Nat \X Nat /\ <<j, k>>[1] < <<j, k>>[2]
    BY <1>2
  <2>2. <<j, k>> \in OpToRel(<, Nat)
    BY <2>1 DEF OpToRel
  <2> QED
    BY <1>1, <2>2
<1> QED
  BY <1>2

\* The function that History defines, for n commits of which each has the given parent.
Reaches(f, n, parent) == f = [k \in 0..n |-> IF k = 0 THEN {} ELSE {k} \union f[parent[k]]]

\* Parents come before; another function has the same parents, so far.
Below(n, parent) == n \in Nat /\ parent \in [1..n -> Nat] /\ \A k \in 1..n : parent[k] < k
Extends(m, parent2, n, parent) == m \in Nat /\ n <= m /\ \A k \in 1..n : parent2[k] = parent[k]

\* There is one: what every set that has k, and with a commit its parent, has in common.
LEMMA ReachExists ==
  ASSUME NEW n \in Nat, NEW parent \in [1..n -> 0..n]
  PROVE  \E f : Reaches(f, n, parent)
<1> DEFINE Closed(S) == \A j \in S : parent[j] # 0 => parent[j] \in S
           Down(k) == {j \in 1..n : \A S \in SUBSET (1..n) : k \in S /\ Closed(S) => j \in S}
           f == [k \in 0..n |-> IF k = 0 THEN {} ELSE Down(k)]
<1>1. ASSUME NEW k \in 1..n PROVE f[k] = {k} \union f[parent[k]]
  <2>1. parent[k] \in 0..n /\ f[k] = Down(k)
    OBVIOUS
  <2>2. ASSUME NEW j \in Down(k), j # k PROVE parent[k] # 0 /\ j \in Down(parent[k])
    <3>1. ASSUME NEW S \in SUBSET (1..n), Closed(S), parent[k] # 0 => parent[k] \in S PROVE j \in S
      <4>1. S \union {k} \in SUBSET (1..n) /\ k \in S \union {k} /\ Closed(S \union {k})
        BY <3>1
      <4> QED
        BY <2>2, <4>1
    <3>2. {} \in SUBSET (1..n) /\ Closed({})
      OBVIOUS
    <3>3. parent[k] # 0
      <4> HIDE DEF Closed, Down
      <4> QED
        BY <3>1, <3>2
    <3> QED
      BY <2>1, <2>2, <3>1, <3>3
  <2>3. ASSUME parent[k] # 0, NEW j \in Down(parent[k]) PROVE j \in Down(k)
    BY <2>1, <2>3
  <2>4. k \in Down(k)
    OBVIOUS
  <2>5. f[parent[k]] = IF parent[k] = 0 THEN {} ELSE Down(parent[k])
    BY <2>1
  <2> HIDE DEF f, Down
  <2> QED
    BY <2>1, <2>2, <2>3, <2>4, <2>5
<1>2. f = [k \in 0..n |-> IF k = 0 THEN {} ELSE {k} \union f[parent[k]]]
  <2>1. f = [k \in 0..n |-> f[k]] /\ f[0] = {}
    OBVIOUS
  <2> HIDE DEF f
  <2>2. \A k \in 0..n : f[k] = IF k = 0 THEN {} ELSE {k} \union f[parent[k]]
    BY <1>1, <2>1
  <2> QED
    BY <2>1, <2>2
<1> QED
  BY <1>2 DEF Reaches

LEMMA ReachSteps ==
  ASSUME NEW n \in Nat, NEW parent, NEW f, Reaches(f, n, parent)
  PROVE  f[0] = {} /\ \A k \in 1..n : f[k] = {k} \union f[parent[k]]
<1>1. ASSUME NEW k \in 0..n PROVE f[k] = IF k = 0 THEN {} ELSE {k} \union f[parent[k]]
  BY DEF Reaches
<1>2. 0 \in 0..n
  OBVIOUS
<1>3. f[0] = {}
  BY <1>1, <1>2
<1>4. ASSUME NEW k \in 1..n PROVE f[k] = {k} \union f[parent[k]]
  <2>1. k \in 0..n /\ k # 0
    OBVIOUS
  <2> QED
    BY <1>1, <2>1
<1> QED
  BY <1>3, <1>4

\* If parents come first it has only the commits so far, ...
LEMMA ReachBelow ==
  ASSUME NEW n, NEW parent, NEW f, Below(n, parent), Reaches(f, n, parent)
  PROVE  \A k \in 0..n : f[k] \subseteq 1..n
<1> USE DEF Below
<1> DEFINE T == {k \in 0..n : ~(f[k] \subseteq 1..n)}
<1> SUFFICES ASSUME T # {} PROVE FALSE
  OBVIOUS
<1>0. T \in SUBSET Nat /\ \A k : k \in T <=> k \in 0..n /\ ~(f[k] \subseteq 1..n)
  OBVIOUS
<1> HIDE DEF T
<1>1. PICK k \in T : \A j \in T : ~(j < k)
  BY <1>0, LeastNumber
<1>2. f[0] = {} /\ \A j \in 1..n : f[j] = {j} \union f[parent[j]]
  BY ReachSteps
<1>3. k \in 0..n /\ ~(f[k] \subseteq 1..n)
  BY <1>0
<1>4. k # 0
  BY <1>2, <1>3
<1>5. f[parent[k]] \subseteq 1..n
  <2>1. parent[k] \in 0..n /\ parent[k] < k
    BY <1>3, <1>4
  <2> QED
    BY <1>0, <1>1, <2>1
<1>6. f[k] = {k} \union f[parent[k]] /\ k \in 1..n
  BY <1>2, <1>3, <1>4
<1> QED
  BY <1>3, <1>5, <1>6

\* ... and more commits change nothing of it.
LEMMA ReachUnique ==
  ASSUME NEW n, NEW m, NEW parent, NEW parent2, NEW f, NEW g, Below(n, parent),
         Extends(m, parent2, n, parent), Reaches(f, n, parent), Reaches(g, m, parent2)
  PROVE  \A k \in 0..n : f[k] = g[k]
<1> USE DEF Below, Extends
<1> DEFINE T == {k \in 0..n : f[k] # g[k]}
<1> SUFFICES ASSUME T # {} PROVE FALSE
  OBVIOUS
<1>0. T \in SUBSET Nat /\ \A k : k \in T <=> k \in 0..n /\ f[k] # g[k]
  OBVIOUS
<1> HIDE DEF T
<1>1. PICK k \in T : \A j \in T : ~(j < k)
  BY <1>0, LeastNumber
<1>2. /\ f[0] = {} /\ \A j \in 1..n : f[j] = {j} \union f[parent[j]]
      /\ g[0] = {} /\ \A j \in 1..m : g[j] = {j} \union g[parent2[j]]
  BY ReachSteps
<1>3. k \in 0..n /\ k \in 0..m /\ f[k] # g[k]
  BY <1>0
<1>4. k # 0
  BY <1>2, <1>3
<1>5. f[parent[k]] = g[parent[k]]
  <2>1. parent[k] \in 0..n /\ parent[k] < k
    BY <1>3, <1>4
  <2> QED
    BY <1>0, <1>1, <2>1
<1>6. parent2[k] = parent[k]
  BY <1>3, <1>4
<1>7. f[k] = {k} \union f[parent[k]] /\ g[k] = {k} \union g[parent2[k]]
  BY <1>2, <1>3, <1>4
<1> QED
  BY <1>3, <1>5, <1>6, <1>7

\* History for any sequence of commits, to compare it before and after a step.
HistoryOf(cs, c) ==
  LET reach[k \in 0..Len(cs)] == IF k = 0 THEN {} ELSE {k} \union reach[cs[k].parent]
  IN  reach[c]
Parents(cs) == [k \in 1..Len(cs) |-> cs[k].parent]
Ordered(cs) == Len(cs) \in Nat /\ \A k \in 1..Len(cs) : cs[k].parent \in Nat /\ cs[k].parent < k

LEMMA HistoryIs ==
  ASSUME NEW cs, Ordered(cs)
  PROVE  \E f : Reaches(f, Len(cs), Parents(cs)) /\ \A c : HistoryOf(cs, c) = f[c]
<1> DEFINE n == Len(cs)
           Body(f) == f = [k \in 0..n |-> IF k = 0 THEN {} ELSE {k} \union f[cs[k].parent]]
           h == CHOOSE f : Body(f)
<1>1. n \in Nat /\ Parents(cs) \in [1..n -> 0..n]
  BY DEF Parents, Ordered
<1>2. \A f : Reaches(f, n, Parents(cs)) <=> Body(f)
  <2>1. \A k \in 0..n : k # 0 => Parents(cs)[k] = cs[k].parent
    BY <1>1 DEF Parents
  <2>2. ASSUME NEW f
        PROVE  [k \in 0..n |-> IF k = 0 THEN {} ELSE {k} \union f[Parents(cs)[k]]]
                = [k \in 0..n |-> IF k = 0 THEN {} ELSE {k} \union f[cs[k].parent]]
    BY <2>1
  <2> QED
    BY <2>2 DEF Reaches
<1>3. Body(h)
  BY <1>1, <1>2, ReachExists
<1>4. \A c : HistoryOf(cs, c) = h[c]
  BY DEF HistoryOf
<1> QED
  BY <1>2, <1>3, <1>4

LEMMA HistorySteps ==
  ASSUME NEW cs, Ordered(cs)
  PROVE  /\ HistoryOf(cs, 0) = {}
         /\ \A k \in 1..Len(cs) : HistoryOf(cs, k) = {k} \union HistoryOf(cs, cs[k].parent)
         /\ \A k \in 0..Len(cs) : HistoryOf(cs, k) \subseteq 1..Len(cs)
<1>1. PICK f : Reaches(f, Len(cs), Parents(cs)) /\ \A c : HistoryOf(cs, c) = f[c]
  BY HistoryIs
<1>2. Below(Len(cs), Parents(cs)) /\ Len(cs) \in Nat
      /\ \A k \in 1..Len(cs) : Parents(cs)[k] = cs[k].parent
  BY DEF Ordered, Parents, Below
<1>3. f[0] = {} /\ \A k \in 1..Len(cs) : f[k] = {k} \union f[Parents(cs)[k]]
  BY <1>1, <1>2, ReachSteps
<1>4. \A k \in 0..Len(cs) : f[k] \subseteq 1..Len(cs)
  BY <1>1, <1>2, ReachBelow
<1> QED
  BY <1>1, <1>2, <1>3, <1>4

LEMMA HistoryKept ==
  ASSUME NEW cs, NEW ds, Ordered(cs), Ordered(ds), Len(cs) <= Len(ds),
         \A k \in 1..Len(cs) : ds[k].parent = cs[k].parent
  PROVE  \A k \in 0..Len(cs) : HistoryOf(ds, k) = HistoryOf(cs, k)
<1>1. PICK f : Reaches(f, Len(cs), Parents(cs)) /\ \A c : HistoryOf(cs, c) = f[c]
  BY HistoryIs
<1>2. PICK g : Reaches(g, Len(ds), Parents(ds)) /\ \A c : HistoryOf(ds, c) = g[c]
  BY HistoryIs
<1>3. Below(Len(cs), Parents(cs)) /\ Extends(Len(ds), Parents(ds), Len(cs), Parents(cs))
  BY DEF Ordered, Parents, Below, Extends
<1>4. \A k \in 0..Len(cs) : f[k] = g[k]
  BY <1>1, <1>2, <1>3, ReachUnique
<1> QED
  BY <1>1, <1>2, <1>4

------------------------------------------------------------------------------
(* Whose commits a branch has                                               *)

\* A commit of a run that branch b has; a branch, or a commit, with none but the operator's.
MadeOn(c, b) == c \in History(refs[b]) /\ commits[c].by # "operator"
TheOperators(c) == \A k \in History(c) : commits[k].by = "operator"

HInv ==
  /\ Ordered(commits)
  /\ TheOperators(SourceHead)
  /\ \A b \in Branches \ DirtyPlans : TheOperators(refs[b])
  /\ \A g \in Publishers : Working(g) /\ Branch(g) \in CleanPlans => job[g].commit = SourceHead
  /\ \A r \in Runs : pc[r] = "committed" => MadeOn(refs[Branch(r)], Branch(r))
  /\ \A r \in Runs : pc[r] \in {"verified", "recorded"} => MadeOn(job[r].commit, Branch(r))
  /\ \A e \in Reported("commit_result") : MadeOn(e.commit, e.plan)

\* A commit made at the head: what was there before keeps its history and its author.
LEMMA HistoryGrows ==
  ASSUME TInv, Ordered(commits), NEW c \in Commit, c.parent <= Len(commits),
         commits' = Append(commits, c) \/ commits' = commits
  PROVE  /\ Ordered(commits')
         /\ \A k \in 0..Len(commits) : History(k)' = History(k) /\ History(k) \subseteq 1..Len(commits)
         /\ \A k \in 1..Len(commits) : commits'[k] = commits[k] /\ k \in History(k)
         /\ \A n : n = Len(commits) + 1 /\ commits' = Append(commits, c) =>
              History(n)' = {n} \union History(c.parent)
<1>1. \A k : HistoryOf(commits, k) = History(k) /\ HistoryOf(commits', k) = History(k)'
  BY DEF HistoryOf, History
<1>2. /\ Len(commits) \in Nat /\ Len(commits) <= Len(commits')
      /\ \A k \in 1..Len(commits) : commits'[k] = commits[k]
  BY MoreCommits, TypedRepo DEF RepoOK
<1>3. /\ Ordered(commits')
      /\ commits' = Append(commits, c) => Len(commits') = Len(commits) + 1 /\ commits'[Len(commits) + 1] = c
  <2>1. CASE commits' = Append(commits, c)
    <3>1. Len(commits') = Len(commits) + 1 /\ commits'[Len(commits) + 1] = c
      BY <2>1, MoreCommits
    <3>2. c.parent \in Nat
      BY DEF Commit
    <3> QED
      BY <1>2, <3>1, <3>2 DEF Ordered
  <2>2. CASE commits' = commits
    <3>1. commits # Append(commits, c)
      <4>1. ASSUME commits = Append(commits, c) PROVE FALSE
        <5>1. commits' = Append(commits, c)
          BY <2>2, <4>1
        <5>2. Len(commits') = Len(commits) + 1
          BY <5>1, MoreCommits
        <5> QED
          BY <1>2, <2>2, <5>2
      <4> QED
        BY <4>1
    <3> QED
      BY <2>2, <3>1
  <2> QED
    BY <2>1, <2>2
<1>4. /\ \A k \in 1..Len(commits) : HistoryOf(commits, k) = {k} \union HistoryOf(commits, commits[k].parent)
      /\ \A k \in 0..Len(commits) : HistoryOf(commits, k) \subseteq 1..Len(commits)
  BY HistorySteps
<1>5. \A k \in 1..Len(commits') : HistoryOf(commits', k) = {k} \union HistoryOf(commits', commits'[k].parent)
  BY <1>3, HistorySteps
<1>6. \A k \in 0..Len(commits) : HistoryOf(commits', k) = HistoryOf(commits, k)
  BY <1>2, <1>3, HistoryKept
<1>7. ASSUME commits' = Append(commits, c)
      PROVE  HistoryOf(commits', Len(commits) + 1)
               = {Len(commits) + 1} \union HistoryOf(commits, c.parent)
  <2>1. Len(commits) + 1 \in 1..Len(commits') /\ commits'[Len(commits) + 1].parent = c.parent
    BY <1>2, <1>3, <1>7
  <2>2. c.parent \in 0..Len(commits)
    BY <1>2 DEF Commit
  <2> QED
    BY <1>5, <1>6, <2>1, <2>2
<1> QED
  BY <1>1, <1>2, <1>3, <1>4, <1>6, <1>7

\* A step that leaves the commits alone, or adds one.
Grows == commits' = commits
         \/ \E c \in Commit : c.parent <= Len(commits) /\ commits' = Append(commits, c)

\* What it keeps of what branches have.
LEMMA MadeStays ==
  ASSUME TInv, HInv, Grows
  PROVE  /\ Ordered(commits')
         /\ \A c \in 0..Len(commits) : TheOperators(c) => TheOperators(c)'
         /\ \A c \in 1..Len(commits), b \in Branches :
              refs'[b] = refs[b] /\ MadeOn(c, b) => MadeOn(c, b)'
<1>0. /\ Ordered(commits) /\ RepoOK /\ [parent |-> 0, tree |-> index, by |-> "operator"] \in Commit
      /\ 0 <= Len(commits)
  BY TypedRepo DEF HInv, RepoOK, Commit
<1>1. PICK c \in Commit : c.parent <= Len(commits) /\ (commits' = Append(commits, c) \/ commits' = commits)
  <2>1. CASE commits' = commits
    BY <1>0, <2>1
  <2> QED
    BY <2>1 DEF Grows
<1>2. /\ Ordered(commits')
      /\ \A k \in 0..Len(commits) : History(k)' = History(k) /\ History(k) \subseteq 1..Len(commits)
      /\ \A k \in 1..Len(commits) : commits'[k] = commits[k]
  BY <1>0, <1>1, HistoryGrows
<1>3. ASSUME NEW k \in 0..Len(commits), TheOperators(k) PROVE TheOperators(k)'
  BY <1>2, <1>3 DEF TheOperators
<1>4. ASSUME NEW k \in 1..Len(commits), NEW b \in Branches, refs'[b] = refs[b], MadeOn(k, b)
      PROVE  MadeOn(k, b)'
  <2>1. PICK h \in 0..Len(commits) : h = refs[b]
    BY <1>0 DEF RepoOK
  <2>2. History(h)' = History(h) /\ commits'[k] = commits[k]
    BY <1>2
  <2>3. History(refs[b])' = History(h)'
    BY <1>4, <2>1 DEF History
  <2>4. History(refs[b]) = History(h)
    BY <2>1
  <2> QED
    BY <1>4, <2>2, <2>3, <2>4 DEF MadeOn
<1> QED
  BY <1>2, <1>3, <1>4

\* A run puts a commit on the branch of the plan, and moves no other branch.
LEMMA RunChanges ==
  ASSUME TInv, LInv, CInv, NEW d, DirtyPlans = {d}, NEW r \in Runs, RunStep(r)
  PROVE  \/ UNCHANGED <<commits, refs>>
         \/ /\ commits' = commits /\ \E c : refs' = [refs EXCEPT ![d] = c]
            /\ pc[r] \in {"resetting", "deleting"} \/ (pc[r] = "snapped" /\ refs[d] = 0)
         \/ /\ pc[r] = "staged" /\ pc'[r] = "committed" /\ job'[r] = job[r]
            /\ commits' = Append(commits, [parent |-> refs[d], tree |-> index, by |-> r])
            /\ refs' = [refs EXCEPT ![d] = Len(commits) + 1]
<1>0. /\ r \in Procs /\ pc \in [Procs -> Steps] /\ job \in [Procs -> Job(Len(commits))]
      /\ (Working(r) => Branch(r) = d) /\ (AtIt(r) => head = Branch(r))
  BY DEF TInv, GitTypeOK, Job, Procs, Busy, LInv
<1>1. CASE CreateAndSwitch(r)
  BY <1>0, <1>1 DEF CreateAndSwitch, CanCreate, Working
<1>2. CASE CreateCommit(r)
  <2>1. CASE CommitIndex(r) /\ Next_(r, "committed")
    <3>1. pc[r] = "staged" /\ head = d /\ pc'[r] = "committed" /\ job'[r] = job[r]
      BY <1>0, <1>2, <2>1 DEF CreateCommit, AtIt, Working, Next_, Goto
    <3> QED
      BY <2>1, <3>1 DEF CommitIndex
  <2> QED
    BY <1>2, <2>1 DEF CreateCommit
<1>3. CASE ResetToSource(r)
  <2>1. head = d /\ pc[r] = "resetting"
    BY <1>0, <1>3 DEF ResetToSource, AtIt, Working
  <2> QED
    BY <1>3, <2>1 DEF ResetToSource
<1>4. CASE DeleteBranch(r)
  BY <1>0, <1>4 DEF DeleteBranch, Undo, Working
<1> QED
  BY <1>1, <1>2, <1>3, <1>4
     DEF RunStep, Recheck, Announce, SnapshotIndex, StagePlanned, CheckStaged, CheckCommit, ReportCommit,
         EmitCommit, Fail, RestoreIndex, ReturnToSource, Undo, ReportFailure, Die, repo

LEMMA RunGrows ==
  ASSUME TInv, LInv, CInv, NEW d, DirtyPlans = {d}, NEW r \in Runs, RunStep(r)
  PROVE  Grows /\ \A b \in Branches : b # d => refs'[b] = refs[b]
<1>0. RepoOK /\ d \in Branches /\ r \in Procs
  BY TypedRepo DEF Procs
<1>1. [parent |-> refs[d], tree |-> index, by |-> r] \in Commit /\ refs[d] <= Len(commits)
  BY <1>0 DEF RepoOK, Commit
<1>2. Grows
  <2>1. CASE commits' = commits
    BY <2>1 DEF Grows
  <2>2. CASE commits' = Append(commits, [parent |-> refs[d], tree |-> index, by |-> r])
    <3>1. [parent |-> refs[d], tree |-> index, by |-> r].parent = refs[d]
      OBVIOUS
    <3> QED
      BY <1>1, <2>2, <3>1 DEF Grows
  <2> QED
    BY <2>1, <2>2, RunChanges
<1>3. \A b \in Branches : b # d => refs'[b] = refs[b]
  BY <1>0, RunChanges DEF RepoOK
<1> QED
  BY <1>2, <1>3

\* The commit a run makes is on the branch.
LEMMA RunMakes ==
  ASSUME TInv, LInv, CInv, HInv, NEW d, DirtyPlans = {d}, NEW r \in Runs, RunStep(r), pc'[r] = "committed"
  PROVE  MadeOn(refs[d], d)' /\ Branch(r)' = d
<1>0. /\ RepoOK /\ d \in Branches /\ r \in Procs /\ job \in [Procs -> Job(Len(commits))]
      /\ pc \in [Procs -> Steps] /\ (Working(r) => Branch(r) = d)
  BY TypedRepo DEF TInv, GitTypeOK, Job, Procs, Busy
<1>1. CreateCommit(r) /\ CommitIndex(r)
  <2>1. \E step, j : Goto(r, step, j)
    BY RunGoes
  <2>2. ASSUME NEW step, NEW j, Goto(r, step, j) PROVE step = "committed"
    BY <1>0, <2>2 DEF Goto
  <2>3. AfterFailure(r) # "committed"
    BY DEF AfterFailure
  <2> QED
    BY <2>2, <2>3 DEF RunStep, Recheck, Announce, SnapshotIndex, CreateAndSwitch, StagePlanned,
         CheckStaged, CreateCommit, CheckCommit, ReportCommit, EmitCommit, Fail, ResetToSource,
         RestoreIndex, ReturnToSource, DeleteBranch, Undo, ReportFailure, Die, Next_, Exit
<1>2. /\ pc[r] = "staged" /\ job'[r] = job[r]
      /\ commits' = Append(commits, [parent |-> refs[d], tree |-> index, by |-> r])
      /\ refs' = [refs EXCEPT ![d] = Len(commits) + 1]
  <2>1. pc[r] = "staged" /\ job'[r] = job[r] /\ head = d
    BY <1>0, <1>1 DEF CreateCommit, Next_, Goto, LInv, AtIt, Working
  <2> QED
    BY <1>1, <2>1 DEF CommitIndex
<1>3. PICK n \in Nat : n = Len(commits) + 1
  BY <1>0 DEF RepoOK
<1>4. PICK c \in Commit : c = [parent |-> refs[d], tree |-> index, by |-> r]
  <2>1. [parent |-> refs[d], tree |-> index, by |-> r] \in Commit
    BY <1>0 DEF RepoOK, Commit
  <2> QED
    BY <2>1
<1>5. c.parent <= Len(commits) /\ c.by = r /\ commits' = Append(commits, c)
  <2>1. c.parent = refs[d] /\ c.by = r
    BY <1>4
  <2>2. refs[d] <= Len(commits)
    BY <1>0 DEF RepoOK
  <2>3. commits' = Append(commits, c)
    BY <1>2, <1>4
  <2> QED
    BY <2>1, <2>2, <2>3
<1>6. n \in History(n)'
  <2>1. History(n)' = {n} \union History(c.parent)
    BY <1>3, <1>5, HistoryGrows DEF HInv
  <2> QED
    BY <2>1
<1>7. commits'[n].by = r /\ refs'[d] = n
  BY <1>0, <1>2, <1>3, <1>5, MoreCommits DEF RepoOK
<1>8. MadeOn(n, d)'
  <2>1. History(refs[d])' = History(n)'
    BY <1>7 DEF History
  <2>2. r # "operator"
    BY MaterializationAssumption
  <2> QED
    BY <1>6, <1>7, <2>1, <2>2 DEF MadeOn
<1>9. MadeOn(refs[d], d)'
  BY <1>7, <1>8 DEF MadeOn
<1> QED
  BY <1>0, <1>2, <1>9 DEF Working, Branch

\* What a run reports is on the branch: what it made, what it looked at, what it then records.
LEMMA RunMadeOn ==
  ASSUME TInv, LInv, CInv, HInv, NEW d, DirtyPlans = {d}, NEW r \in Runs, RunStep(r), NEW q \in Runs
  PROVE  /\ pc'[q] = "committed" => MadeOn(refs[Branch(q)], Branch(q))'
         /\ pc'[q] \in {"verified", "recorded"} => MadeOn(job[q].commit, Branch(q))'
<1>0. /\ RepoOK /\ d \in Branches /\ r \in Procs /\ q \in Procs
      /\ pc \in [Procs -> Steps] /\ job \in [Procs -> Job(Len(commits))]
      /\ (Working(r) => Branch(r) = d) /\ (Working(q) => Branch(q) = d)
  BY TypedRepo DEF TInv, GitTypeOK, Job, Procs, Busy
<1>1. ASSUME UNCHANGED repo, NEW k, MadeOn(k, d) PROVE MadeOn(k, d)'
  BY <1>1 DEF repo, MadeOn, History
<1>2. CASE q # r
  <2>1. pc'[q] = pc[q] /\ job'[q] = job[q] /\ Branch(q)' = Branch(q)
    BY <1>0, <1>2, RunMoves DEF Moves, Branch
  <2>2. CASE Owning(q)
    <3>1. UNCHANGED repo
      <4>1. refs[d] # 0 /\ ~Owning(r)
        BY <1>2, <2>2 DEF LInv, TInv, Busy, Owning, Working
      <4> QED
        BY <4>1, RunTouches
    <3>2. Branch(q) = d /\ refs' = refs
      BY <1>0, <2>2, <3>1 DEF Owning, Working, repo
    <3>3. ASSUME pc[q] = "committed" PROVE MadeOn(refs[Branch(q)], Branch(q))'
      <4>1. MadeOn(refs[d], d)
        BY <3>2, <3>3 DEF HInv
      <4>2. MadeOn(refs[d], d)'
        BY <3>1, <4>1 DEF repo, MadeOn, History
      <4> QED
        BY <2>1, <3>2, <4>2
    <3>4. ASSUME pc[q] \in {"verified", "recorded"} PROVE MadeOn(job[q].commit, Branch(q))'
      <4>1. MadeOn(job[q].commit, d)
        BY <3>2, <3>4 DEF HInv
      <4>2. PICK k \in 0..Len(commits) : k = job[q].commit
        BY <1>0 DEF Job
      <4>3. MadeOn(k, d)'
        BY <1>1, <3>1, <4>1, <4>2
      <4> QED
        BY <2>1, <3>2, <4>2, <4>3
    <3> QED
      BY <2>1, <3>3, <3>4
  <2>3. CASE ~Owning(q)
    BY <2>1, <2>3 DEF Owning
  <2> QED
    BY <2>2, <2>3
<1>3. ASSUME pc'[r] = "committed" PROVE MadeOn(refs[Branch(r)], Branch(r))'
  BY <1>3, RunMakes
<1>4. ASSUME NEW step, NEW j, Goto(r, step, j) PROVE pc'[r] = step /\ job'[r] = j
  BY <1>0, <1>4 DEF Goto
<1>5. ASSUME pc'[r] \in {"verified", "recorded"} PROVE MadeOn(job[r].commit, Branch(r))'
  <2>1. /\ UNCHANGED repo /\ Branch(r) = d
        /\ MadeOn(job'[r].commit, d) /\ Branch(r)' = d
    <3>1. CheckCommit(r) \/ ReportCommit(r)
      <4>1. \A step, j : Goto(r, step, j) => step \in {"verified", "recorded"}
        BY <1>4, <1>5
      <4>2. AfterFailure(r) \notin {"verified", "recorded"}
        BY DEF AfterFailure
      <4> QED
        BY <4>1, <4>2 DEF RunStep, Recheck, Announce, SnapshotIndex, CreateAndSwitch, StagePlanned,
             CheckStaged, CreateCommit, CheckCommit, ReportCommit, EmitCommit, Fail, ResetToSource,
             RestoreIndex, ReturnToSource, DeleteBranch, Undo, ReportFailure, Die, Next_, Exit
    <3>2. CASE CheckCommit(r)
      <4>1. pc[r] = "committed" /\ head = d /\ Branch(r) = d /\ UNCHANGED repo
        BY <1>0, <3>2 DEF CheckCommit, LInv, AtIt, Working
      <4>2. MadeOn(refs[head], d)
        BY <4>1 DEF HInv
      <4>3. job'[r] = [job[r] EXCEPT !.commit = refs[head]]
        BY <1>4, <3>2 DEF CheckCommit
      <4>4. job'[r].commit = refs[head] /\ job'[r].plan = job[r].plan
        BY <1>0, <4>3 DEF Job
      <4> QED
        BY <4>1, <4>2, <4>4 DEF Branch
    <3>3. CASE ReportCommit(r)
      <4>1. pc[r] = "verified" /\ Branch(r) = d /\ UNCHANGED repo
        BY <1>0, <3>3 DEF ReportCommit, Working
      <4>2. job'[r] = job[r]
        BY <1>4, <1>5, <3>3 DEF ReportCommit, Next_, Exit
      <4>3. MadeOn(job[r].commit, d)
        BY <4>1 DEF HInv
      <4> QED
        BY <4>1, <4>2, <4>3 DEF Branch
    <3> QED
      BY <3>1, <3>2, <3>3
  <2>2. PICK k : k = job'[r].commit
    OBVIOUS
  <2>3. MadeOn(k, d)'
    BY <1>1, <2>1, <2>2
  <2> QED
    BY <2>1, <2>2, <2>3
<1> QED
  BY <1>2, <1>3, <1>5

\* What is reported stays on the branch: only the run that reported it still owns it.
LEMMA RunReported ==
  ASSUME TInv, LInv, CInv, HInv, NEW d, DirtyPlans = {d}, NEW r \in Runs, RunStep(r),
         NEW e \in Reported("commit_result")'
  PROVE  MadeOn(e.commit, e.plan)'
<1> DEFINE R == Reported("commit_result")
<1>0. /\ RepoOK /\ d \in Branches /\ r \in Procs /\ job \in [Procs -> Job(Len(commits))]
      /\ pc \in [Procs -> Steps] /\ (Working(r) => Branch(r) = d)
  BY TypedRepo DEF TInv, GitTypeOK, Job, Procs, Busy
<1>1. CASE e \in R
  <2>1. refs[d] # 0 /\ (Owning(r) => pc[r] = "recorded") /\ e.commit \in 1..Len(commits) /\ e.plan = d
    BY <1>1 DEF CInv, ReportsOK, Approved
  <2>2. UNCHANGED <<commits, refs>>
    BY <2>1, RunChanges DEF Owning
  <2>3. MadeOn(e.commit, e.plan)
    BY <1>1 DEF HInv
  <2> QED
    BY <2>2, <2>3 DEF MadeOn, History
<1>2. CASE e \notin R
  <2>1. pc'[r] = "recorded" /\ e = Record(r, "commit_result", "materialized") /\ job'[r] = job[r] /\ Branch(r) = d
    <3>1. /\ ReportCommit(r) /\ Next_(r, "recorded")
          /\ log' = log \union {Record(r, "commit_result", "materialized")}
      <4>1. e \in log' /\ e \notin log /\ e.kind = "commit_result" /\ e.how = "materialized"
        BY <1>2 DEF Reported
      <4>2. \A kind, how : Record(r, kind, how).kind = kind /\ Record(r, kind, how).how = how
        BY DEF Record
      <4> QED
        BY <4>1, <4>2 DEF RunStep, Recheck, Announce, SnapshotIndex, CreateAndSwitch, StagePlanned,
             CheckStaged, CreateCommit, CheckCommit, ReportCommit, EmitCommit, Fail, ResetToSource,
             RestoreIndex, ReturnToSource, DeleteBranch, Undo, ReportFailure, Die, records
    <3>2. e = Record(r, "commit_result", "materialized")
      BY <1>2, <3>1 DEF Reported
    <3> QED
      BY <1>0, <3>1, <3>2 DEF ReportCommit, Next_, Goto, Working
  <2>2. e.commit = job[r].commit /\ e.plan = d
    BY <2>1 DEF Record
  <2>3. MadeOn(job[r].commit, Branch(r))'
    BY <2>1, RunMadeOn
  <2>4. Branch(r)' = d
    BY <2>1 DEF Branch
  <2> QED
    BY <2>1, <2>2, <2>3, <2>4
<1> QED
  BY <1>1, <1>2

LEMMA RunHistory ==
  ASSUME TInv, LInv, CInv, HInv, NEW d, DirtyPlans = {d}, NEW r \in Runs, RunStep(r)
  PROVE  HInv'
<1>0. RepoOK /\ SourceHead \in 0..Len(commits) /\ 0 <= Len(commits)
  BY TypedRepo DEF RepoOK, SourceHead
<1>1. Grows /\ \A b \in Branches : b # d => refs'[b] = refs[b]
  BY RunGrows
<1>2. Ordered(commits') /\ \A c \in 0..Len(commits) : TheOperators(c) => TheOperators(c)'
  BY <1>1, MadeStays
<1>3. TheOperators(SourceHead)'
  BY <1>0, <1>2 DEF HInv, SourceHead
<1>4. ASSUME NEW b \in Branches \ DirtyPlans PROVE TheOperators(refs[b])'
  <2>1. PICK c \in 0..Len(commits) : c = refs[b]
    BY <1>0 DEF RepoOK
  <2>2. TheOperators(c)' /\ refs'[b] = c
    BY <1>1, <1>2, <1>4, <2>1 DEF HInv
  <2> QED
    BY <2>2
<1>5. \A g \in Publishers : pc'[g] = pc[g] /\ job'[g] = job[g]
  BY RunMoves, MaterializationAssumption DEF Moves, Procs
<1>6. \A g \in Publishers : (Working(g) /\ Branch(g) \in CleanPlans => job[g].commit = SourceHead)'
  BY <1>5 DEF HInv, Working, Branch, SourceHead
<1>7. \A q \in Runs : /\ pc'[q] = "committed" => MadeOn(refs[Branch(q)], Branch(q))'
                      /\ pc'[q] \in {"verified", "recorded"} => MadeOn(job[q].commit, Branch(q))'
  BY RunMadeOn
<1>8. \A e \in Reported("commit_result")' : MadeOn(e.commit, e.plan)'
  BY RunReported
<1> QED
  BY <1>2, <1>3, <1>4, <1>6, <1>7, <1>8 DEF HInv

\* A publisher makes no commit; the branch it creates for a clean plan is at the source head.
LEMMA PublishHistory ==
  ASSUME TInv, LInv, CInv, HInv, NEW d, DirtyPlans = {d}, NEW g \in Publishers, PublishStep(g)
  PROVE  HInv'
<1>0. /\ RepoOK /\ d \in Branches /\ d \notin CleanPlans /\ g \in Procs
      /\ job \in [Procs -> Job(Len(commits))] /\ pc \in [Procs -> Steps]
      /\ \A q \in Runs : pc'[q] = pc[q] /\ job'[q] = job[q]
      /\ \A q \in Publishers : q # g => pc'[q] = pc[q] /\ job'[q] = job[q]
      /\ CleanPlans \subseteq Branches
  BY TypedRepo, PublishMoves, MaterializationAssumption DEF TInv, GitTypeOK, Job, Moves, Procs
<1>1. UNCHANGED <<commits, head, index, work>>
  BY PublishRepo
<1>2. \A b \in Branches : refs'[b] = refs[b] \/ (b \in CleanPlans /\ refs'[b] = SourceHead)
  <2>1. CASE refs' = refs
    BY <2>1
  <2>2. CASE /\ pc[g] = "announced" /\ Branch(g) \in CleanPlans
             /\ refs' = [refs EXCEPT ![Branch(g)] = job[g].commit]
    <3>1. job[g].commit = SourceHead
      BY <2>2 DEF HInv, Working
    <3> QED
      BY <1>0, <2>2, <3>1 DEF RepoOK
  <2> QED
    BY <2>1, <2>2, PublishRepo
<1>3. refs'[d] = refs[d]
  BY <1>0, <1>2
<1>4. \A c : TheOperators(c) => TheOperators(c)'
  BY <1>1 DEF TheOperators, History
<1>5. \A c : MadeOn(c, d) => MadeOn(c, d)'
  BY <1>1, <1>3 DEF MadeOn, History
<1>6. Ordered(commits)' /\ TheOperators(SourceHead)'
  BY <1>1, <1>4 DEF HInv, SourceHead
<1>7. ASSUME NEW b \in Branches \ DirtyPlans PROVE TheOperators(refs[b])'
  <2>1. PICK c : c = refs'[b]
    OBVIOUS
  <2>2. TheOperators(c)
    BY <1>2, <1>7, <2>1 DEF HInv
  <2> QED
    BY <1>4, <2>1, <2>2
<1>8. ASSUME NEW q \in Publishers, Working(q)', Branch(q)' \in CleanPlans PROVE job'[q].commit = SourceHead
  <2>1. CASE q # g
    BY <1>0, <1>8, <2>1 DEF HInv, Working, Branch
  <2>2. CASE q = g
    <3>0. ASSUME NEW step, NEW j, Goto(g, step, j) PROVE pc'[g] = step /\ job'[g] = j
      BY <1>0, <3>0 DEF Goto
    <3>1. CASE CheckPlan(g)
      <4>1. NoJob \in Job(Len(commits))
        BY TypedRepo DEF NoJob, Job, Trees, Contents, RepoOK
      <4>2. PICK b, c : /\ b \in Plans
                        /\ Goto(g, "checked", [NoJob EXCEPT !.plan = b, !.commit = c])
                        /\ b \in CleanPlans => c = SourceHead
        BY <1>0, <3>1 DEF CheckPlan, Plans
      <4>3. job'[g] = [NoJob EXCEPT !.plan = b, !.commit = c]
        BY <3>0, <4>2
      <4>4. job'[g].plan = b /\ job'[g].commit = c
        BY <4>1, <4>3 DEF Job
      <4> QED
        BY <1>8, <2>2, <4>2, <4>4 DEF Branch
    <3>2. ASSUME NEW step, Next_(g, step), Working(g) PROVE job'[q].commit = SourceHead
      <4>1. job'[g] = job[g]
        BY <3>0, <3>2 DEF Next_
      <4> QED
        BY <1>8, <2>2, <3>2, <4>1 DEF HInv, Branch
    <3>3. ASSUME Exit(g) PROVE FALSE
      BY <1>8, <2>2, <3>0, <3>3 DEF Exit, Working
    <3>4. CASE ~CheckPlan(g)
      <4>1. Working(g)
        BY <3>4 DEF PublishStep, AnnouncePr, CreateBranch, Push, OpenPr, FailPr, ReportPr, ReportFailure,
                    Die, Working
      <4>2. ~Die(g)
        BY <1>8, <2>2, <3>0 DEF Die, Working
      <4> QED
        BY <3>2, <3>3, <3>4, <4>1, <4>2 DEF PublishStep, AnnouncePr, CreateBranch, Push, OpenPr, FailPr,
           ReportPr, ReportFailure
    <3> QED
      BY <3>1, <3>4
  <2> QED
    BY <2>1, <2>2
<1>9. \A q \in Runs : Working(q) => Branch(q) = d
  BY DEF TInv, Busy
<1>10. ASSUME NEW q \in Runs
       PROVE  /\ pc'[q] = "committed" => MadeOn(refs[Branch(q)], Branch(q))'
              /\ pc'[q] \in {"verified", "recorded"} => MadeOn(job[q].commit, Branch(q))'
  <2>1. pc'[q] = pc[q] /\ job'[q] = job[q] /\ Branch(q)' = Branch(q)
    BY <1>0 DEF Branch
  <2>2. ASSUME pc[q] = "committed" PROVE MadeOn(refs[Branch(q)], Branch(q))'
    <3>1. Branch(q) = d /\ MadeOn(refs[d], d)
      BY <1>9, <2>2 DEF HInv, Working
    <3>2. MadeOn(refs[d], d)'
      BY <1>1, <1>3, <3>1 DEF MadeOn, History
    <3> QED
      BY <2>1, <3>1, <3>2
  <2>3. ASSUME pc[q] \in {"verified", "recorded"} PROVE MadeOn(job[q].commit, Branch(q))'
    <3>1. Branch(q) = d /\ MadeOn(job[q].commit, d)
      BY <1>9, <2>3 DEF HInv, Working
    <3>2. PICK c : c = job[q].commit
      OBVIOUS
    <3>3. MadeOn(c, d)'
      BY <1>5, <3>1, <3>2
    <3> QED
      BY <2>1, <3>1, <3>2, <3>3
  <2> QED
    BY <2>1, <2>2, <2>3
<1>11. \A e \in Reported("commit_result")' : MadeOn(e.commit, e.plan)'
  <2>1. Reported("commit_result")' = Reported("commit_result")
    <3>1. log' = log \/ \E kind \in {"pr_intent", "pr_result"} : \E how : log' = log \union {Record(g, kind, how)}
      BY DEF PublishStep, CheckPlan, AnnouncePr, CreateBranch, Push, OpenPr, FailPr, ReportPr,
             ReportFailure, Die, records
    <3> QED
      BY <3>1 DEF Reported, Record
  <2>2. \A e \in Reported("commit_result") : e.plan = d /\ MadeOn(e.commit, e.plan)
    BY DEF CInv, ReportsOK, HInv
  <2> QED
    BY <1>5, <2>1, <2>2
<1> QED
  BY <1>6, <1>7, <1>8, <1>10, <1>11 DEF HInv

\* The operator's own commits are the operator's, on whichever branch is checked out.
LEMMA OperatorHistory ==
  ASSUME TInv, CInv, HInv, NEW d, DirtyPlans = {d}, OperatorStep
  PROVE  HInv'
<1>0. /\ RepoOK /\ d \in Branches /\ head \in Branches
      /\ \A p \in Procs : pc'[p] = pc[p] /\ job'[p] = job[p] /\ ~Working(p)
      /\ log' = log /\ SourceHead \in 0..Len(commits)
  BY TypedRepo DEF OperatorStep, Quiet, Working, records, RepoOK, SourceHead
<1>1. \/ UNCHANGED <<commits, refs>>
      \/ \E c \in Commit : /\ c.parent = refs[head] /\ c.by = "operator" /\ commits' = Append(commits, c)
                           /\ refs' = [refs EXCEPT ![head] = Len(commits) + 1]
  <2>1. CASE OperatorCommit
    <3>1. [parent |-> refs[head], tree |-> work, by |-> "operator"] \in Commit
      BY <1>0 DEF RepoOK, Commit
    <3>2. /\ [parent |-> refs[head], tree |-> work, by |-> "operator"].parent = refs[head]
          /\ [parent |-> refs[head], tree |-> work, by |-> "operator"].by = "operator"
      OBVIOUS
    <3> QED
      BY <2>1, <3>1, <3>2 DEF OperatorCommit
  <2> QED
    BY <2>1 DEF OperatorStep, Edit, OperatorReturns
<1>2. Grows
  <2>1. refs[head] <= Len(commits)
    BY <1>0 DEF RepoOK
  <2> QED
    BY <1>1, <2>1 DEF Grows
<1>3. /\ Ordered(commits') /\ \A c \in 0..Len(commits) : TheOperators(c) => TheOperators(c)'
      /\ \A c \in 1..Len(commits), b \in Branches : refs'[b] = refs[b] /\ MadeOn(c, b) => MadeOn(c, b)'
  BY <1>2, MadeStays
<1>4. ASSUME NEW c \in Commit, c.parent = refs[head], c.by = "operator", commits' = Append(commits, c),
             refs' = [refs EXCEPT ![head] = Len(commits) + 1], NEW n \in Nat, n = Len(commits) + 1
      PROVE  /\ History(n)' = {n} \union History(refs[head]) /\ commits'[n].by = "operator"
             /\ refs'[head] = n
             /\ \A k \in History(refs[head]) : k \in 1..Len(commits) /\ commits'[k] = commits[k]
             /\ \A k \in 1..Len(commits) : commits'[k] = commits[k]
  <2>1. c.parent <= Len(commits) /\ c.parent \in 0..Len(commits)
    BY <1>0, <1>4 DEF RepoOK
  <2>2. /\ History(n)' = {n} \union History(c.parent) /\ History(c.parent) \subseteq 1..Len(commits)
        /\ \A k \in 1..Len(commits) : commits'[k] = commits[k]
    BY <1>4, <2>1, HistoryGrows DEF HInv
  <2>3. commits'[n] = c
    BY <1>4, MoreCommits
  <2>4. refs'[head] = n
    BY <1>0, <1>4 DEF RepoOK
  <2>5. History(c.parent) = History(refs[head])
    BY <1>4
  <2> QED
    BY <1>4, <2>2, <2>3, <2>4, <2>5
<1>5. ASSUME NEW b \in Branches \ DirtyPlans PROVE TheOperators(refs[b])'
  <2>1. PICK k \in 0..Len(commits) : k = refs[b]
    BY <1>0 DEF RepoOK
  <2>2. TheOperators(k) /\ TheOperators(k)'
    BY <1>3, <1>5, <2>1 DEF HInv
  <2>3. CASE refs'[b] = refs[b]
    BY <2>1, <2>2, <2>3
  <2>4. CASE refs'[b] # refs[b]
    <3>1. PICK c \in Commit : /\ c.parent = refs[head] /\ c.by = "operator" /\ commits' = Append(commits, c)
                              /\ refs' = [refs EXCEPT ![head] = Len(commits) + 1]
      BY <1>1, <2>4
    <3>2. PICK n \in Nat : n = Len(commits) + 1
      BY <1>0 DEF RepoOK
    <3>3. b = head
      BY <1>0, <2>4, <3>1 DEF RepoOK
    <3>4. /\ History(n)' = {n} \union History(refs[head]) /\ commits'[n].by = "operator" /\ refs'[head] = n
          /\ \A j \in History(refs[head]) : j \in 1..Len(commits) /\ commits'[j] = commits[j]
      BY <1>4, <3>1, <3>2
    <3>5. \A j \in History(refs[head]) : commits[j].by = "operator"
      BY <2>1, <2>2, <3>3 DEF TheOperators
    <3>6. TheOperators(n)'
      BY <3>4, <3>5 DEF TheOperators
    <3> QED
      BY <3>3, <3>4, <3>6
  <2> QED
    BY <2>3, <2>4
<1>6. ASSUME NEW e \in Reported("commit_result")' PROVE MadeOn(e.commit, e.plan)'
  <2>1. e \in Reported("commit_result")
    BY <1>0, <1>6 DEF Reported
  <2>2. MadeOn(e.commit, d) /\ e.plan = d /\ e.commit \in 1..Len(commits)
    BY <2>1 DEF HInv, CInv, ReportsOK, Approved
  <2>3. CASE refs'[d] = refs[d]
    BY <1>0, <1>3, <2>2, <2>3
  <2>4. CASE refs'[d] # refs[d]
    <3>1. PICK c \in Commit : /\ c.parent = refs[head] /\ c.by = "operator" /\ commits' = Append(commits, c)
                              /\ refs' = [refs EXCEPT ![head] = Len(commits) + 1]
      BY <1>1, <2>4
    <3>2. PICK n \in Nat : n = Len(commits) + 1
      BY <1>0 DEF RepoOK
    <3>3. d = head
      BY <1>0, <2>4, <3>1 DEF RepoOK
    <3>4. /\ History(n)' = {n} \union History(refs[d]) /\ refs'[d] = n
          /\ \A k \in 1..Len(commits) : commits'[k] = commits[k]
      BY <1>4, <3>1, <3>2, <3>3
    <3>5. History(refs[d])' = History(n)'
      BY <3>4 DEF History
    <3>6. e.commit \in History(refs[d])' /\ commits'[e.commit].by # "operator"
      BY <2>2, <3>4, <3>5 DEF MadeOn
    <3>7. MadeOn(e.commit, d)'
      BY <3>6 DEF MadeOn
    <3> QED
      BY <2>2, <3>7
  <2> QED
    BY <2>3, <2>4
<1>7. TheOperators(SourceHead)'
  BY <1>0, <1>3 DEF HInv, SourceHead
<1>8. /\ \A g \in Publishers : ~Working(g)'
      /\ \A r \in Runs : pc'[r] \notin {"committed", "verified", "recorded"}
  BY <1>0 DEF Working, Procs
<1> QED
  BY <1>3, <1>5, <1>6, <1>7, <1>8 DEF HInv

LEMMA InitHistory == ASSUME Init, NEW d, DirtyPlans = {d} PROVE HInv
<1>1. /\ Len(commits) = 2 /\ commits[1].parent = 0 /\ commits[2].parent = 1
      /\ commits[1].by = "operator" /\ commits[2].by = "operator"
  BY DEF Init
<1>2. Ordered(commits)
  BY <1>1 DEF Ordered
<1>3. /\ History(0) = {} /\ History(2) = {2} \union History(1) /\ History(1) = {1} \union History(0)
  <2>1. \A k : HistoryOf(commits, k) = History(k)
    BY DEF HistoryOf, History
  <2>2. /\ HistoryOf(commits, 0) = {}
        /\ \A k \in 1..Len(commits) : HistoryOf(commits, k) = {k} \union HistoryOf(commits, commits[k].parent)
    BY <1>2, HistorySteps
  <2>3. 1 \in 1..Len(commits) /\ 2 \in 1..Len(commits)
    BY <1>1
  <2> QED
    BY <1>1, <2>1, <2>2, <2>3
<1>4. TheOperators(0) /\ TheOperators(SourceHead)
  BY <1>1, <1>3 DEF TheOperators, SourceHead
<1>5. \A b \in Branches : refs[b] = SourceHead \/ refs[b] = 0
  BY DEF Init
<1>6. \A b \in Branches : TheOperators(refs[b])
  BY <1>4, <1>5
<1>7. log = {} /\ \A p \in Procs : pc[p] = "idle"
  BY DEF Init
<1> QED
  BY <1>2, <1>4, <1>6, <1>7 DEF HInv, Working, Reported, Procs

LEMMA HistoryHolds ==
  ASSUME TInv, LInv, CInv, HInv, NEW d, DirtyPlans = {d}, [Next]_gvars
  PROVE  HInv'
<1>1. CASE UNCHANGED gvars
  <2>1. UNCHANGED <<commits, refs, log, pc, job>>
    BY <1>1 DEF gvars, repo, records
  <2>2. Ordered(commits') /\ TheOperators(SourceHead)'
    BY <2>1 DEF HInv, TheOperators, History, SourceHead
  <2>3. ASSUME NEW b \in Branches \ DirtyPlans PROVE TheOperators(refs[b])'
    <3>1. TheOperators(refs[b])
      BY <2>3 DEF HInv
    <3> QED
      BY <2>1, <3>1 DEF TheOperators, History
  <2>4. ASSUME NEW q \in Runs
        PROVE  /\ pc'[q] = "committed" => MadeOn(refs[Branch(q)], Branch(q))'
               /\ pc'[q] \in {"verified", "recorded"} => MadeOn(job[q].commit, Branch(q))'
    <3>1. ASSUME pc[q] = "committed" PROVE MadeOn(refs[Branch(q)], Branch(q))'
      <4>1. MadeOn(refs[Branch(q)], Branch(q))
        BY <3>1 DEF HInv
      <4> QED
        BY <2>1, <4>1 DEF MadeOn, History, Branch
    <3>2. ASSUME pc[q] \in {"verified", "recorded"} PROVE MadeOn(job[q].commit, Branch(q))'
      <4>1. MadeOn(job[q].commit, Branch(q))
        BY <3>2 DEF HInv
      <4> QED
        BY <2>1, <4>1 DEF MadeOn, History, Branch
    <3> QED
      BY <2>1, <3>1, <3>2
  <2>5. ASSUME NEW e \in Reported("commit_result")' PROVE MadeOn(e.commit, e.plan)'
    <3>1. e \in Reported("commit_result")
      BY <2>1, <2>5 DEF Reported
    <3>2. MadeOn(e.commit, e.plan)
      BY <3>1 DEF HInv
    <3> QED
      BY <2>1, <3>2 DEF MadeOn, History
  <2>6. \A g \in Publishers : (Working(g) /\ Branch(g) \in CleanPlans => job[g].commit = SourceHead)'
    BY <2>1 DEF HInv, Working, Branch, SourceHead
  <2> QED
    BY <2>2, <2>3, <2>4, <2>5, <2>6 DEF HInv
<1> QED
  BY <1>1, RunHistory, PublishHistory, OperatorHistory DEF Next

\* With one dirty plan about, the commit it was turned into is in the history of the branch it
\* proposes and of no other local branch, whatever is created, undone or left behind and whatever
\* the operator commits in between (materialize_dirty_commit_plan).
THEOREM CommitsWhereApproved ==
  ASSUME NEW d, DirtyPlans = {d} PROVE Spec => []CommitsOnlyWhereApproved
<1>1. Init => TInv /\ LInv /\ CInv /\ HInv
  BY InitTyped, InitLocks, InitCommits, InitHistory
<1>2. TInv /\ LInv /\ CInv /\ HInv /\ [Next]_gvars => TInv' /\ LInv' /\ CInv' /\ HInv'
  BY NextTyped, LocksHold, CommitsHold, HistoryHolds
<1>3. ASSUME CInv, HInv PROVE CommitsOnlyWhereApproved
  <2>1. SUFFICES ASSUME NEW e \in Reported("commit_result"), NEW b \in Branches
                 PROVE  e.commit \in History(refs[b]) <=> b = e.plan
    BY DEF CommitsOnlyWhereApproved
  <2>2. e.plan = d /\ MadeOn(e.commit, d)
    BY <1>3 DEF CInv, ReportsOK, HInv
  <2>3. CASE b = d
    BY <2>2, <2>3 DEF MadeOn
  <2>4. CASE b # d
    <3>1. TheOperators(refs[b])
      BY <1>3, <2>4 DEF HInv
    <3>2. e.commit \notin History(refs[b])
      BY <2>2, <3>1 DEF MadeOn, TheOperators
    <3> QED
      BY <2>2, <2>4, <3>2
  <2> QED
    BY <2>3, <2>4
<1> QED
  BY <1>1, <1>2, <1>3, PTL DEF Spec

------------------------------------------------------------------------------
(* What is published is what was checked                                    *)

\* A run has reported commit c for plan b; c is what publishing b has to show.
Known(b, c) == \E k \in Reported("commit_result") : k.plan = b /\ k.commit = c
Right(b, c) == (b \in DirtyPlans => Known(b, c)) /\ (b \notin DirtyPlans => c = SourceHead)

\* What a publisher has to get first, so that no other publishes the plan as well: the pull
\* request for a dirty plan, the local branch for a standard one.
Claim(step, b) == step = "opened" \/ (b \notin DirtyPlans /\ step \in {"branched", "pushed"})
Taken(b) == (b \in DirtyPlans => b \in pulls) /\ (b \notin DirtyPlans => refs[b] # 0)
Claims(g) == Claim(pc[g], Branch(g))

\* What a publisher of b that got so far with commit c can rely on.
PubAt(step, b, c) ==
  /\ step \notin {"idle", "dead"} => Right(b, c) /\ (b \in DirtyPlans => refs[b] = c)
  /\ step \in {"pushed", "opened"} => remote[b] = c
  /\ step = "opened" => b \in pulls
  /\ Claim(step, b) => Taken(b)

PrOK(b, c) == remote[b] = c /\ b \in pulls /\ Right(b, c) /\ Taken(b) /\ b \in Plans

PInv ==
  /\ \A r \in Runs : pc[r] = "recorded" => Known(Branch(r), job[r].commit)
  /\ \A k \in packets : Known(k.plan, k.commit)
  /\ \A b \in CleanPlans : refs[b] \in {0, SourceHead}
  /\ \A g \in Publishers : PubAt(pc[g], Branch(g), job[g].commit)
  /\ \A g, h \in Publishers : Claims(g) /\ Claims(h) /\ Branch(g) = Branch(h) => g = h
  /\ \A e \in Reported("pr_result") : PrOK(e.plan, e.commit)
  /\ \A e \in Reported("pr_result"), g \in Publishers : ~(Claims(g) /\ Branch(g) = e.plan)
  /\ \A e, f \in Reported("pr_result") : e.plan = f.plan => e = f

\* Audit records are only added to.
LEMMA LogGrows ==
  ASSUME Next PROVE log \subseteq log'
<1>1. ASSUME NEW r \in Runs, RunStep(r) PROVE log \subseteq log'
  BY <1>1 DEF RunStep, Recheck, Announce, SnapshotIndex, CreateAndSwitch, StagePlanned, CheckStaged,
       CreateCommit, CheckCommit, ReportCommit, EmitCommit, Fail, ResetToSource, RestoreIndex,
       ReturnToSource, DeleteBranch, Undo, ReportFailure, Die, records
<1>2. ASSUME NEW g \in Publishers, PublishStep(g) PROVE log \subseteq log'
  BY <1>2 DEF PublishStep, CheckPlan, AnnouncePr, CreateBranch, Push, OpenPr, FailPr, ReportPr,
       ReportFailure, Die, records
<1> QED
  BY <1>1, <1>2 DEF Next, OperatorStep, records

LEMMA KnownStays ==
  ASSUME log \subseteq log'
  PROVE  \A b, c : /\ Known(b, c) => Known(b, c)'
                   /\ Right(b, c) => Right(b, c)'
BY DEF Known, Reported, Right, SourceHead

\* With one dirty plan about, one commit is known for it; and then no run touches the checkout.
LEMMA KnownOnce ==
  ASSUME TInv, LInv, CInv, NEW d, DirtyPlans = {d}, NEW c, Known(d, c)
  PROVE  /\ \A x : Known(d, x) => x = c
         /\ \A r \in Runs : RunStep(r) => UNCHANGED <<commits, refs>>
<1>1. /\ \A e, f \in Reported("commit_result") : e = f
      /\ refs[d] # 0 /\ \A r \in Runs : Owning(r) => pc[r] = "recorded"
  BY DEF CInv, ReportsOK, Known
<1>2. \A x : Known(d, x) => x = c
  BY <1>1 DEF Known
<1>3. ASSUME NEW r \in Runs, RunStep(r) PROVE UNCHANGED <<commits, refs>>
  BY <1>1, <1>3, RunChanges DEF Owning
<1> QED
  BY <1>2, <1>3

\* A run publishes nothing.
LEMMA RunPublishes ==
  ASSUME TInv, LInv, CInv, PInv, NEW d, DirtyPlans = {d}, NEW r \in Runs, RunStep(r)
  PROVE  PInv'
<1>0. /\ RepoOK /\ d \in Branches /\ r \in Procs /\ job \in [Procs -> Job(Len(commits))]
      /\ pc \in [Procs -> Steps] /\ (Working(r) => Branch(r) = d) /\ d \notin CleanPlans
      /\ CleanPlans \subseteq Branches /\ Plans = {d} \union CleanPlans
  BY TypedRepo, MaterializationAssumption DEF TInv, GitTypeOK, Job, Procs, Busy, Plans
<1>1. log \subseteq log' /\ UNCHANGED hub
  <2>1. log \subseteq log'
    BY LogGrows DEF Next
  <2>2. UNCHANGED hub
    BY DEF RunStep, Recheck, Announce, SnapshotIndex, CreateAndSwitch, StagePlanned, CheckStaged,
         CreateCommit, CheckCommit, ReportCommit, EmitCommit, Fail, ResetToSource, RestoreIndex,
         ReturnToSource, DeleteBranch, Undo, ReportFailure, Die
  <2> QED
    BY <2>1, <2>2
<1>2. \A b \in Branches : b # d => refs'[b] = refs[b]
  BY RunGrows
<1>3. \A g \in Publishers : pc'[g] = pc[g] /\ job'[g] = job[g] /\ Branch(g)' = Branch(g)
  BY RunMoves, MaterializationAssumption DEF Moves, Procs, Branch
<1>4. ASSUME NEW b \in Plans, NEW c, Right(b, c) PROVE refs'[b] = refs[b]
  <2>1. CASE b = d
    BY <1>4, <2>1, KnownOnce DEF Right
  <2> QED
    BY <1>0, <1>2, <2>1
<1>5. ASSUME NEW g \in Publishers PROVE PubAt(pc[g], Branch(g), job[g].commit)'
  <2>1. PICK step, b, c : step = pc[g] /\ b = Branch(g) /\ c = job[g].commit
    OBVIOUS
  <2>2. PubAt(step, b, c)
    BY <2>1 DEF PInv
  <2>3. CASE step \in {"idle", "dead"}
    <3>1. PubAt(step, b, c)'
      BY <2>3 DEF PubAt, Claim
    <3> QED
      BY <1>3, <2>1, <3>1
  <2>4. CASE step \notin {"idle", "dead"}
    <3>1. Right(b, c) /\ b \in Plans
      BY <2>1, <2>2, <2>4 DEF PubAt, TInv, Busy, Working
    <3>2. refs'[b] = refs[b] /\ Right(b, c)'
      BY <1>1, <1>4, <3>1, KnownStays
    <3>3. PubAt(step, b, c)'
      BY <1>1, <2>2, <3>2 DEF PubAt, Claim, Taken, hub
    <3> QED
      BY <1>3, <2>1, <3>3
  <2> QED
    BY <2>3, <2>4
<1>6. Reported("pr_result")' = Reported("pr_result")
  <2>1. log' = log \/ \E kind \in {"commit_intent", "commit_result"} : \E how : log' = log \union {Record(r, kind, how)}
    BY DEF RunStep, Recheck, Announce, SnapshotIndex, CreateAndSwitch, StagePlanned, CheckStaged,
         CreateCommit, CheckCommit, ReportCommit, EmitCommit, Fail, ResetToSource, RestoreIndex,
         ReturnToSource, DeleteBranch, Undo, ReportFailure, Die, records
  <2> QED
    BY <2>1 DEF Reported, Record
<1>7. ASSUME NEW e \in Reported("pr_result") PROVE PrOK(e.plan, e.commit)'
  <2>1. PrOK(e.plan, e.commit)
    BY <1>7 DEF PInv
  <2>2. refs'[e.plan] = refs[e.plan] /\ Right(e.plan, e.commit)'
    BY <1>1, <1>4, <2>1, KnownStays DEF PrOK
  <2> QED
    BY <1>1, <2>1, <2>2 DEF PrOK, Taken, hub
<1>8. ASSUME NEW q \in Runs, pc'[q] = "recorded" PROVE Known(Branch(q), job[q].commit)'
  <2>1. CASE pc[q] = "recorded" /\ job'[q] = job[q]
    <3>1. PICK b, c : b = Branch(q) /\ c = job[q].commit
      OBVIOUS
    <3>2. Known(b, c)'
      BY <1>1, <2>1, <3>1, KnownStays DEF PInv
    <3> QED
      BY <2>1, <3>1, <3>2 DEF Branch
  <2>2. CASE q # r
    BY <1>8, <2>1, <2>2, RunMoves DEF Moves, Procs
  <2>3. CASE q = r /\ ReportCommit(r)
    <3>1. /\ log' = log \union {Record(r, "commit_result", "materialized")} /\ job'[r] = job[r]
      BY <1>0, <1>8, <2>3 DEF ReportCommit, Next_, Exit, Goto
    <3>2. /\ Record(r, "commit_result", "materialized").plan = Branch(r)
          /\ Record(r, "commit_result", "materialized").commit = job[r].commit
          /\ Record(r, "commit_result", "materialized").kind = "commit_result"
          /\ Record(r, "commit_result", "materialized").how = "materialized"
      BY DEF Record
    <3>3. Record(r, "commit_result", "materialized") \in Reported("commit_result")'
      BY <3>1, <3>2 DEF Reported
    <3>4. PICK k \in Reported("commit_result")' : k.plan = Branch(r) /\ k.commit = job[r].commit
      BY <3>2, <3>3
    <3>5. Branch(r)' = Branch(r)
      BY <3>1 DEF Branch
    <3> QED
      BY <2>3, <3>1, <3>4, <3>5 DEF Known
  <2>4. CASE q = r /\ ~ReportCommit(r)
    <3>1. \A step, j : Goto(r, step, j) => step = "recorded"
      BY <1>0, <1>8, <2>4 DEF Goto
    <3>2. AfterFailure(r) # "recorded"
      BY DEF AfterFailure
    <3> QED
      BY <2>4, <3>1, <3>2 DEF RunStep, Recheck, Announce, SnapshotIndex, CreateAndSwitch, StagePlanned,
           CheckStaged, CreateCommit, CheckCommit, EmitCommit, Fail, ResetToSource,
           RestoreIndex, ReturnToSource, DeleteBranch, Undo, ReportFailure, Die, Next_, Exit
  <2> QED
    BY <2>2, <2>3, <2>4
<1>9. ASSUME NEW k \in packets' PROVE Known(k.plan, k.commit)'
  <2>1. CASE k \in packets
    <3>1. Known(k.plan, k.commit)
      BY <2>1 DEF PInv
    <3> QED
      BY <1>1, <3>1, KnownStays
  <2>2. CASE k \notin packets
    <3>1. EmitCommit(r)
      BY <2>2 DEF RunStep, Recheck, Announce, SnapshotIndex, CreateAndSwitch, StagePlanned, CheckStaged,
         CreateCommit, CheckCommit, ReportCommit, Fail, ResetToSource, RestoreIndex,
         ReturnToSource, DeleteBranch, Undo, ReportFailure, Die, records
    <3>2. k.plan = Branch(r) /\ k.commit = job[r].commit /\ pc[r] = "recorded"
      BY <2>2, <3>1 DEF EmitCommit
    <3>3. Known(k.plan, k.commit)
      BY <3>2 DEF PInv
    <3> QED
      BY <1>1, <3>3, KnownStays
  <2> QED
    BY <2>1, <2>2
<1>10. \A b \in CleanPlans : refs'[b] \in {0, SourceHead}
  BY <1>0, <1>2 DEF PInv
<1>11. \A g \in Publishers : Claims(g)' <=> Claims(g)
  BY <1>3 DEF Claims
<1>12. /\ \A g, h \in Publishers : Claims(g)' /\ Claims(h)' /\ Branch(g)' = Branch(h)' => g = h
       /\ \A e \in Reported("pr_result")', g \in Publishers : ~(Claims(g)' /\ Branch(g)' = e.plan)
       /\ \A e, f \in Reported("pr_result")' : e.plan = f.plan => e = f
  BY <1>3, <1>6, <1>11 DEF PInv
<1>13. \A e \in Reported("pr_result")' : PrOK(e.plan, e.commit)'
  BY <1>6, <1>7
<1> QED
  BY <1>5, <1>8, <1>9, <1>10, <1>12, <1>13 DEF PInv, SourceHead

\* A working publisher of a plan finds its branch where it expects it.
LEMMA PublisherFinds ==
  ASSUME TInv, PInv, NEW g \in Publishers, Working(g)
  PROVE  /\ Branch(g) \in Plans /\ Right(Branch(g), job[g].commit)
         /\ refs[Branch(g)] \in {0, job[g].commit}
<1>1. Branch(g) \in Plans /\ PubAt(pc[g], Branch(g), job[g].commit)
  BY DEF TInv, Busy, PInv
<1>2. CASE Branch(g) \in DirtyPlans
  BY <1>1, <1>2 DEF PubAt, Working
<1>3. CASE Branch(g) \notin DirtyPlans
  BY <1>1, <1>3 DEF PubAt, Working, Right, PInv, Plans
<1> QED
  BY <1>1, <1>2, <1>3

\* What a publisher does to the branches: it creates that of a clean plan, where none was, at
\* the source head; it pushes what it checked.
LEMMA PublishChanges ==
  ASSUME TInv, PInv, NEW g \in Publishers, PublishStep(g)
  PROVE  /\ \/ refs' = refs
            \/ /\ Working(g) /\ Branch(g) \in CleanPlans /\ refs[Branch(g)] = 0
               /\ refs' = [refs EXCEPT ![Branch(g)] = SourceHead]
         /\ \/ remote' = remote
            \/ Working(g) /\ remote' = [remote EXCEPT ![Branch(g)] = job[g].commit]
         /\ pulls \subseteq pulls'
<1>1. ASSUME refs' # refs
      PROVE  /\ Working(g) /\ Branch(g) \in CleanPlans /\ refs[Branch(g)] = 0
             /\ refs' = [refs EXCEPT ![Branch(g)] = SourceHead]
  <2>1. /\ pc[g] = "announced" /\ Branch(g) \in CleanPlans /\ refs[Branch(g)] = 0
        /\ refs' = [refs EXCEPT ![Branch(g)] = job[g].commit]
    BY <1>1, PublishRepo
  <2>2. job[g].commit = SourceHead
    BY <2>1, PublisherFinds, MaterializationAssumption DEF Right, Working
  <2> QED
    BY <2>1, <2>2 DEF Working
<1>2. ASSUME remote' # remote
      PROVE  Working(g) /\ remote' = [remote EXCEPT ![Branch(g)] = job[g].commit]
  <2>1. Push(g) /\ CanPush(Branch(g))
    BY <1>2 DEF PublishStep, CheckPlan, AnnouncePr, CreateBranch, Push, OpenPr, FailPr, ReportPr,
         ReportFailure, Die, hub
  <2>2. Working(g) /\ refs[Branch(g)] # 0 /\ remote' = [remote EXCEPT ![Branch(g)] = refs[Branch(g)]]
    BY <2>1 DEF Push, CanPush, Working
  <2>3. refs[Branch(g)] = job[g].commit
    BY <2>2, PublisherFinds
  <2> QED
    BY <2>2, <2>3
<1>3. pulls \subseteq pulls'
  BY DEF PublishStep, CheckPlan, AnnouncePr, CreateBranch, Push, OpenPr, FailPr, ReportPr,
         ReportFailure, Die, hub
<1> QED
  BY <1>1, <1>2, <1>3

\* What was right for a plan stays right, whoever publishes it as well.
LEMMA RightStays ==
  ASSUME TInv, LInv, CInv, PInv, NEW d, DirtyPlans = {d}, NEW g \in Publishers, PublishStep(g),
         NEW b \in Plans, NEW c, Right(b, c)
  PROVE  /\ Right(b, c)'
         /\ b \in DirtyPlans => refs'[b] = refs[b]
         /\ remote[b] = c => remote'[b] = c
         /\ Taken(b) => Taken(b)'
         /\ b \in pulls => b \in pulls'
<1>0. /\ RepoOK /\ b \in Branches /\ remote \in [Branches -> 0..Len(commits)] /\ d \notin CleanPlans
  BY TypedRepo, MaterializationAssumption DEF TInv, GitTypeOK
<1>1. Right(b, c)'
  BY LogGrows, KnownStays DEF Next
<1>2. refs'[b] = refs[b] \/ (b \in CleanPlans /\ refs'[b] = SourceHead)
  BY <1>0, PublishChanges DEF RepoOK
<1>3. ASSUME remote[b] = c PROVE remote'[b] = c
  <2>1. CASE Working(g) /\ remote' = [remote EXCEPT ![Branch(g)] = job[g].commit] /\ Branch(g) = b
    <3>1. Right(b, job[g].commit) /\ remote'[b] = job[g].commit
      BY <1>0, <2>1, PublisherFinds
    <3>2. CASE b = d
      <4>1. Known(d, c) /\ Known(d, job[g].commit)
        BY <3>1, <3>2 DEF Right
      <4> QED
        BY <3>1, <4>1, KnownOnce
    <3>3. CASE b # d
      BY <3>1, <3>3 DEF Right
    <3> QED
      BY <3>2, <3>3
  <2> QED
    BY <1>0, <1>3, <2>1, PublishChanges
<1>4. b \in pulls => b \in pulls'
  BY PublishChanges
<1> QED
  BY <1>0, <1>1, <1>2, <1>3, <1>4 DEF Taken, SourceHead

\* Where a publisher gets to.
LEMMA PublisherGoes ==
  ASSUME TInv, LInv, CInv, PInv, NEW d, DirtyPlans = {d}, NEW g \in Publishers, PublishStep(g)
  PROVE  /\ PubAt(pc[g], Branch(g), job[g].commit)'
         /\ Claims(g)' => \/ Claims(g) /\ Branch(g)' = Branch(g)
                          \/ ~Taken(Branch(g)') /\ Branch(g)' \in Plans
<1> DEFINE Goes == /\ PubAt(pc[g], Branch(g), job[g].commit)'
                   /\ Claims(g)' => \/ Claims(g) /\ Branch(g)' = Branch(g)
                                    \/ ~Taken(Branch(g)') /\ Branch(g)' \in Plans
<1>0. /\ RepoOK /\ g \in Procs /\ job \in [Procs -> Job(Len(commits))] /\ pc \in [Procs -> Steps]
      /\ d \in Branches /\ d \notin CleanPlans /\ d \notin Updates /\ Plans = {d} \union CleanPlans
      /\ remote \in [Branches -> 0..Len(commits)] /\ Plans \subseteq Branches
      /\ (Working(g) => Branch(g) \in Plans)
  BY TypedRepo, MaterializationAssumption DEF TInv, GitTypeOK, Job, Procs, Busy, Plans
<1>1. ASSUME NEW step, NEW j, Goto(g, step, j) PROVE pc'[g] = step /\ job'[g] = j
  BY <1>0, <1>1 DEF Goto
<1>2. ASSUME pc'[g] \in {"idle", "dead"} PROVE Goes
  BY <1>2 DEF PubAt, Claim, Claims
<1>3. PICK b, c : b = Branch(g) /\ c = job[g].commit
  OBVIOUS
<1>4. ASSUME Working(g)
      PROVE  /\ b \in Plans /\ Right(b, c) /\ Right(b, c)' /\ (b \in DirtyPlans => refs[b] = c /\ refs'[b] = c)
             /\ (remote[b] = c => remote'[b] = c) /\ (Taken(b) => Taken(b)') /\ (b \in pulls => b \in pulls')
  <2>1. b \in Plans /\ Right(b, c)
    BY <1>3, <1>4, PublisherFinds
  <2>2. b \in DirtyPlans => refs[b] = c
    BY <1>3, <1>4 DEF PInv, PubAt, Working
  <2> QED
    BY <2>1, <2>2, RightStays
<1>5. ASSUME NEW step, Next_(g, step), Working(g)
      PROVE  pc'[g] = step /\ Branch(g)' = b /\ job'[g].commit = c
  BY <1>1, <1>3, <1>5 DEF Next_, Branch
<1>6. ASSUME Next_(g, "failed"), Working(g) PROVE Goes
  <2>1. pc'[g] = "failed" /\ Branch(g)' = b /\ job'[g].commit = c
    BY <1>5, <1>6
  <2>2. PubAt("failed", b, c)'
    BY <1>4, <1>6 DEF PubAt, Claim
  <2> QED
    BY <2>1, <2>2 DEF Claims, Claim
<1>7. CASE CheckPlan(g)
  <2>1. NoJob \in Job(Len(commits))
    BY TypedRepo DEF NoJob, Job, Trees, Contents, RepoOK
  <2>2. PICK x, y : /\ x \in Plans
                    /\ Goto(g, "checked", [NoJob EXCEPT !.plan = x, !.commit = y])
                    /\ x \in DirtyPlans => refs[x] = y /\ Known(x, y)
                    /\ x \in CleanPlans => y = SourceHead
    <3>1. CASE \E x \in DirtyPlans, k \in packets :
                 CommitStands(x, k) /\ Goto(g, "checked", [NoJob EXCEPT !.plan = x, !.commit = k.commit])
      <4>1. PICK x \in DirtyPlans, k \in packets :
                 CommitStands(x, k) /\ Goto(g, "checked", [NoJob EXCEPT !.plan = x, !.commit = k.commit])
        BY <3>1
      <4>2. refs[x] = k.commit /\ Known(x, k.commit)
        BY <4>1 DEF CommitStands, PInv
      <4> QED
        BY <1>0, <4>1, <4>2
    <3>2. CASE \E x \in CleanPlans : Goto(g, "checked", [NoJob EXCEPT !.plan = x, !.commit = SourceHead])
      BY <1>0, <3>2
    <3> QED
      BY <1>7, <3>1, <3>2 DEF CheckPlan
  <2>3. pc'[g] = "checked" /\ job'[g].plan = x /\ job'[g].commit = y
    <3>1. pc'[g] = "checked" /\ job'[g] = [NoJob EXCEPT !.plan = x, !.commit = y]
      BY <1>1, <2>2
    <3> QED
      BY <2>1, <3>1 DEF Job
  <2>4. Right(x, y) /\ refs' = refs
    BY <1>0, <1>7, <2>2 DEF Right, CheckPlan, repo
  <2>5. Right(x, y)'
    BY <2>4, LogGrows, KnownStays DEF Next
  <2>6. PubAt("checked", x, y)'
    BY <2>2, <2>4, <2>5 DEF PubAt, Claim
  <2> QED
    BY <2>3, <2>6 DEF Claims, Claim, Branch
<1>8. CASE AnnouncePr(g)
  <2>1. CASE Next_(g, IF Branch(g) \in DirtyPlans THEN "branched" ELSE "announced")
    <3>1. Working(g)
      BY <1>8 DEF AnnouncePr, Working
    <3>2. PICK step \in {"branched", "announced"} : Next_(g, step) /\ (step = "branched" => b \in DirtyPlans)
      BY <1>3, <2>1
    <3>3. pc'[g] = step /\ Branch(g)' = b /\ job'[g].commit = c
      BY <1>5, <3>1, <3>2
    <3>4. PubAt(step, b, c)' /\ ~Claim(step, b)
      BY <1>4, <3>1, <3>2 DEF PubAt, Claim
    <3> QED
      BY <3>3, <3>4 DEF Claims
  <2>2. CASE Exit(g)
    BY <1>1, <1>2, <2>2 DEF Exit
  <2> QED
    BY <1>8, <2>1, <2>2 DEF AnnouncePr
<1>9. CASE CreateBranch(g)
  <2>1. Working(g) /\ b \in CleanPlans
    BY <1>3, <1>9 DEF CreateBranch, Working, TInv, Busy
  <2>2. CASE CanCreate(Branch(g)) /\ Next_(g, "branched") /\ refs' = [refs EXCEPT ![Branch(g)] = job[g].commit]
    <3>1. pc'[g] = "branched" /\ Branch(g)' = b /\ job'[g].commit = c
      BY <1>5, <2>1, <2>2
    <3>2. c = SourceHead /\ b \notin DirtyPlans
      BY <1>0, <1>4, <2>1 DEF Right
    <3>3. refs'[b] = SourceHead /\ refs[b] = 0
      BY <1>0, <1>3, <2>1, <2>2, <3>2 DEF RepoOK, CanCreate
    <3>4. PubAt("branched", b, c)' /\ ~Taken(b)
      BY <1>4, <2>1, <3>2, <3>3 DEF PubAt, Claim, Taken, SourceHead
    <3> QED
      BY <1>4, <2>1, <3>1, <3>4
  <2> QED
    BY <1>6, <1>9, <2>1, <2>2 DEF CreateBranch
<1>10. CASE Push(g)
  <2>1. Working(g) /\ pc[g] = "branched"
    BY <1>10 DEF Push, Working
  <2>2. CASE CanPush(Branch(g)) /\ Next_(g, "pushed") /\ remote' = [remote EXCEPT ![Branch(g)] = refs[Branch(g)]]
    <3>1. pc'[g] = "pushed" /\ Branch(g)' = b /\ job'[g].commit = c
      BY <1>5, <2>1, <2>2
    <3>2. refs[b] = c
      BY <1>3, <2>1, <2>2, PublisherFinds DEF CanPush
    <3>3. remote'[b] = c
      BY <1>0, <1>3, <1>4, <2>1, <2>2, <3>2
    <3>4. Claim("pushed", b) => Claims(g) /\ Taken(b)
      <4>1. Claim("pushed", b) => Claim(pc[g], b)
        BY <2>1 DEF Claim
      <4> QED
        BY <1>3, <4>1 DEF PInv, PubAt, Claims
    <3>5. PubAt("pushed", b, c)'
      BY <1>4, <2>1, <3>3, <3>4 DEF PubAt, Claim
    <3> QED
      BY <1>3, <3>1, <3>4, <3>5 DEF Claims
  <2> QED
    BY <1>6, <1>10, <2>1, <2>2 DEF Push
<1>11. CASE OpenPr(g)
  <2>1. Working(g) /\ pc[g] = "pushed"
    BY <1>11 DEF OpenPr, Working
  <2>2. CASE CanOpen(Branch(g)) /\ Next_(g, "opened") /\ pulls' = pulls \union {Branch(g)}
    <3>1. pc'[g] = "opened" /\ Branch(g)' = b /\ job'[g].commit = c
      BY <1>5, <2>1, <2>2
    <3>2. b \in pulls' /\ (b \in pulls <=> b \in Updates)
      BY <1>3, <2>2 DEF CanOpen
    <3>3. remote[b] = c /\ (Claim(pc[g], b) => Taken(b))
      BY <1>3, <2>1 DEF PInv, PubAt
    <3>4. CASE b \in DirtyPlans
      <4>1. Taken(b)' /\ ~Taken(b)
        BY <1>0, <3>2, <3>4 DEF Taken
      <4>2. PubAt("opened", b, c)'
        BY <1>4, <2>1, <3>2, <3>3, <4>1 DEF PubAt
      <4> QED
        BY <1>4, <2>1, <3>1, <4>1, <4>2
    <3>5. CASE b \notin DirtyPlans
      <4>1. Claim(pc[g], b)
        BY <2>1, <3>5 DEF Claim
      <4>2. PubAt("opened", b, c)'
        BY <1>4, <2>1, <3>2, <3>3, <4>1 DEF PubAt
      <4> QED
        BY <1>3, <3>1, <4>1, <4>2 DEF Claims
    <3> QED
      BY <3>4, <3>5
  <2> QED
    BY <1>6, <1>11, <2>1, <2>2 DEF OpenPr
<1>12. CASE FailPr(g)
  BY <1>6, <1>12 DEF FailPr, Working
<1>13. CASE ReportPr(g) \/ ReportFailure(g, "pr_result") \/ Die(g)
  BY <1>1, <1>2, <1>13 DEF ReportPr, ReportFailure, Die, Exit
<1> QED
  BY <1>7, <1>8, <1>9, <1>10, <1>11, <1>12, <1>13 DEF PublishStep

\* A publisher reports what it has opened, and nothing else is reported as opened.
LEMMA PublisherReports ==
  ASSUME TInv, PInv, NEW g \in Publishers, PublishStep(g), NEW e \in Reported("pr_result")',
         e \notin Reported("pr_result")
  PROVE  /\ pc[g] = "opened" /\ e.plan = Branch(g) /\ e.commit = job[g].commit
         /\ ~Claims(g)' /\ UNCHANGED <<repo, hub>>
         /\ \A f \in Reported("pr_result")' : f \in Reported("pr_result") \/ f = e
<1>1. g \in Procs /\ pc \in [Procs -> Steps] /\ job \in [Procs -> Job(Len(commits))]
  BY DEF TInv, GitTypeOK, Job, Procs
<1>2. \A kind, how : /\ Record(g, kind, how).kind = kind /\ Record(g, kind, how).how = how
                     /\ Record(g, kind, how).plan = Branch(g)
                     /\ Record(g, kind, how).commit = job[g].commit
  BY DEF Record
<1>3. e \in log' /\ e \notin log /\ e.kind = "pr_result" /\ e.how = "materialized"
  BY DEF Reported
<1>4. ReportPr(g) /\ log' = log \union {Record(g, "pr_result", "materialized")}
  <2>1. \/ log' = log
        \/ log' = log \union {Record(g, "pr_intent", "approved")}
        \/ log' = log \union {Record(g, "pr_result", "blocked")}
        \/ ReportPr(g) /\ log' = log \union {Record(g, "pr_result", "materialized")}
    BY DEF PublishStep, CheckPlan, AnnouncePr, CreateBranch, Push, OpenPr, FailPr, ReportPr,
           ReportFailure, Die, records
  <2> QED
    BY <1>2, <1>3, <2>1
<1>5. e = Record(g, "pr_result", "materialized")
  BY <1>3, <1>4
<1>6. pc'[g] = "idle"
  BY <1>1, <1>4 DEF ReportPr, Exit, Goto
<1>7. \A f \in Reported("pr_result")' : f \in Reported("pr_result") \/ f = e
  BY <1>4, <1>5 DEF Reported
<1> QED
  BY <1>2, <1>4, <1>5, <1>6, <1>7 DEF ReportPr, Claims, Claim

LEMMA PublishPublishes ==
  ASSUME TInv, LInv, CInv, PInv, NEW d, DirtyPlans = {d}, NEW g \in Publishers, PublishStep(g)
  PROVE  PInv'
<1> DEFINE R == Reported("pr_result")
<1>0. /\ RepoOK /\ g \in Procs /\ CleanPlans \subseteq Branches /\ d \notin CleanPlans
      /\ \A q \in Runs : pc'[q] = pc[q] /\ job'[q] = job[q] /\ Branch(q)' = Branch(q)
      /\ \A q \in Publishers : q # g => pc'[q] = pc[q] /\ job'[q] = job[q] /\ Branch(q)' = Branch(q)
  BY TypedRepo, PublishMoves, MaterializationAssumption DEF Moves, Procs, Branch
<1>1. log \subseteq log' /\ packets' = packets
  <2>1. packets' = packets
    BY DEF PublishStep, CheckPlan, AnnouncePr, CreateBranch, Push, OpenPr, FailPr, ReportPr,
           ReportFailure, Die, records
  <2> QED
    BY <2>1, LogGrows DEF Next
<1>2. ASSUME NEW b, NEW c, Known(b, c) PROVE Known(b, c)'
  BY <1>1, <1>2, KnownStays
<1>3. ASSUME NEW q \in Runs, pc'[q] = "recorded" PROVE Known(Branch(q), job[q].commit)'
  <2>1. PICK b, c : b = Branch(q) /\ c = job[q].commit
    OBVIOUS
  <2>2. Known(b, c)'
    BY <1>0, <1>2, <1>3, <2>1 DEF PInv
  <2> QED
    BY <1>0, <2>1, <2>2
<1>4. ASSUME NEW k \in packets' PROVE Known(k.plan, k.commit)'
  <2>1. Known(k.plan, k.commit)
    BY <1>1, <1>4 DEF PInv
  <2> QED
    BY <1>2, <2>1
<1>5. \A b \in CleanPlans : refs'[b] \in {0, SourceHead}
  BY <1>0, PublishChanges DEF PInv, RepoOK
<1>6. ASSUME NEW q \in Publishers PROVE PubAt(pc[q], Branch(q), job[q].commit)'
  <2>1. CASE q = g
    BY <2>1, PublisherGoes
  <2>2. CASE q # g
    <3>1. PICK step, b, c : step = pc[q] /\ b = Branch(q) /\ c = job[q].commit
      OBVIOUS
    <3>2. PubAt(step, b, c)
      BY <3>1 DEF PInv
    <3>3. PubAt(step, b, c)'
      <4>1. CASE step \in {"idle", "dead"}
        BY <4>1 DEF PubAt, Claim
      <4>2. CASE step \notin {"idle", "dead"}
        <5>1. b \in Plans /\ Right(b, c)
          BY <3>1, <3>2, <4>2 DEF PubAt, TInv, Busy, Working
        <5>2. /\ Right(b, c)' /\ (b \in DirtyPlans => refs'[b] = refs[b])
              /\ (remote[b] = c => remote'[b] = c) /\ (Taken(b) => Taken(b)') /\ (b \in pulls => b \in pulls')
          BY <5>1, RightStays
        <5> QED
          BY <3>2, <5>2 DEF PubAt
      <4> QED
        BY <4>1, <4>2
    <3> QED
      BY <1>0, <2>2, <3>1, <3>3
  <2> QED
    BY <2>1, <2>2
<1>7. \A q \in Publishers : q # g => (Claims(q)' <=> Claims(q))
  BY <1>0 DEF Claims
<1>8. /\ \A q \in Publishers : Claims(q) => Taken(Branch(q))
      /\ \A e \in R : Taken(e.plan)
  BY DEF PInv, PubAt, Claims, PrOK
<1>9. \A q \in Publishers : Claims(g)' /\ Claims(q)' /\ Branch(g)' = Branch(q)' => g = q
  <2>1. SUFFICES ASSUME NEW q \in Publishers, q # g, Claims(g)', Claims(q), Branch(g)' = Branch(q) PROVE FALSE
    BY <1>0, <1>7
  <2>2. Taken(Branch(g)')
    BY <1>8, <2>1
  <2>3. Claims(g) /\ Branch(g) = Branch(q)
    BY <2>1, <2>2, PublisherGoes
  <2> QED
    BY <2>1, <2>3 DEF PInv
<1>10. \A q, h \in Publishers : Claims(q)' /\ Claims(h)' /\ Branch(q)' = Branch(h)' => q = h
  <2>1. ASSUME NEW q \in Publishers, NEW h \in Publishers, q # g, h # g,
               Claims(q)', Claims(h)', Branch(q)' = Branch(h)'
        PROVE  q = h
    BY <1>0, <1>7, <2>1 DEF PInv
  <2> QED
    BY <1>9, <2>1
<1>11. ASSUME NEW e \in R' PROVE PrOK(e.plan, e.commit)'
  <2>1. PrOK(e.plan, e.commit)
    <3>1. CASE e \in R
      BY <3>1 DEF PInv
    <3>2. CASE e \notin R
      <4>1. pc[g] = "opened" /\ e.plan = Branch(g) /\ e.commit = job[g].commit
        BY <1>11, <3>2, PublisherReports
      <4>2. PubAt("opened", e.plan, e.commit) /\ e.plan \in Plans
        BY <4>1 DEF PInv, TInv, Busy, Working
      <4> QED
        BY <4>2 DEF PubAt, PrOK, Claim
    <3> QED
      BY <3>1, <3>2
  <2>2. PICK b, c : b \in Plans /\ b = e.plan /\ c = e.commit
    BY <2>1 DEF PrOK
  <2>3. PrOK(b, c)'
    BY <2>1, <2>2, RightStays DEF PrOK
  <2> QED
    BY <2>2, <2>3
<1>12. ASSUME NEW e \in R', NEW q \in Publishers, Claims(q)', Branch(q)' = e.plan PROVE FALSE
  <2>1. CASE e \in R
    <3>1. Taken(e.plan) /\ ~(Claims(q) /\ Branch(q) = e.plan)
      BY <1>8, <2>1 DEF PInv
    <3>2. CASE q = g
      BY <1>12, <3>1, <3>2, PublisherGoes
    <3>3. CASE q # g
      BY <1>0, <1>7, <1>12, <3>1, <3>3
    <3> QED
      BY <3>2, <3>3
  <2>2. CASE e \notin R
    <3>1. pc[g] = "opened" /\ e.plan = Branch(g) /\ ~Claims(g)'
      BY <1>12, <2>2, PublisherReports
    <3>2. Claims(g) /\ q # g
      BY <1>12, <3>1 DEF Claims, Claim
    <3> QED
      BY <1>0, <1>7, <1>12, <3>1, <3>2 DEF PInv
  <2> QED
    BY <2>1, <2>2
<1>13. ASSUME NEW e \in R', NEW f \in R', e.plan = f.plan, e \notin R PROVE e = f
  <2>1. pc[g] = "opened" /\ e.plan = Branch(g) /\ (f \in R \/ f = e)
    BY <1>13, PublisherReports
  <2>2. Claims(g)
    BY <2>1 DEF Claims, Claim
  <2>3. f \notin R
    BY <1>13, <2>1, <2>2 DEF PInv
  <2> QED
    BY <2>1, <2>3
<1>14. \A e, f \in R' : e.plan = f.plan => e = f
  <2>1. ASSUME NEW e \in R', NEW f \in R', e.plan = f.plan PROVE e = f
    <3>1. CASE e \in R /\ f \in R
      BY <2>1, <3>1 DEF PInv
    <3>2. CASE e \notin R
      BY <1>13, <2>1, <3>2
    <3>3. CASE f \notin R
      BY <1>13, <2>1, <3>3
    <3> QED
      BY <3>1, <3>2, <3>3
  <2> QED
    BY <2>1
<1> QED
  BY <1>3, <1>4, <1>5, <1>6, <1>10, <1>11, <1>12, <1>14 DEF PInv, SourceHead

\* The operator waits for the commands, and has the source branch or the plan's checked out.
LEMMA OperatorPublishes ==
  ASSUME TInv, CInv, PInv, NEW d, DirtyPlans = {d}, OperatorStep
  PROVE  PInv'
<1>0. /\ RepoOK /\ head \in {Source, d} /\ d \in Branches /\ d \notin CleanPlans
      /\ CleanPlans \subseteq Branches /\ Source \notin CleanPlans
      /\ Plans = {d} \union CleanPlans
  BY TypedRepo, MaterializationAssumption DEF CInv, Plans
<1>1. /\ UNCHANGED <<log, packets, remote, pulls>>
      /\ \A p \in Procs : pc'[p] = pc[p] /\ job'[p] = job[p] /\ pc[p] \in {"idle", "dead"}
  BY DEF OperatorStep, Quiet, hub, records
<1>2. /\ \A b \in CleanPlans : refs'[b] = refs[b]
  BY <1>0 DEF OperatorStep, Edit, OperatorCommit, OperatorReturns, RepoOK
<1>3. \A kind : Reported(kind)' = Reported(kind)
  BY <1>1 DEF Reported
<1>4. \A b, c : Known(b, c) => Known(b, c)'
  BY <1>1, KnownStays
<1>5. ASSUME NEW e \in Reported("pr_result") PROVE PrOK(e.plan, e.commit)'
  <2>1. PrOK(e.plan, e.commit)
    BY <1>5 DEF PInv
  <2>2. Right(e.plan, e.commit)'
    BY <1>1, <2>1, KnownStays DEF PrOK
  <2> QED
    BY <1>0, <1>1, <1>2, <2>1, <2>2 DEF PrOK, Taken
<1>6. \A g \in Publishers : PubAt(pc[g], Branch(g), job[g].commit)' /\ ~Claims(g)'
  BY <1>1 DEF PubAt, Claim, Claims, Procs
<1>7. \A r \in Runs : pc'[r] # "recorded"
  BY <1>1 DEF Procs
<1>8. \A k \in packets' : Known(k.plan, k.commit)'
  BY <1>1, <1>4 DEF PInv
<1>9. \A b \in CleanPlans : refs'[b] \in {0, SourceHead}
  BY <1>2 DEF PInv
<1>10. \A e, f \in Reported("pr_result")' : e.plan = f.plan => e = f
  BY <1>3 DEF PInv
<1>11. \A e \in Reported("pr_result")' : PrOK(e.plan, e.commit)'
  BY <1>3, <1>5
<1> QED
  BY <1>6, <1>7, <1>8, <1>9, <1>10, <1>11 DEF PInv, SourceHead

LEMMA InitPublished == ASSUME Init PROVE PInv
<1>1. /\ log = {} /\ packets = {} /\ \A p \in Procs : pc[p] = "idle"
      /\ \A b \in CleanPlans : refs[b] = 0
  BY MaterializationAssumption DEF Init, Branches, Plans
<1>2. /\ \A r \in Runs : pc[r] = "idle"
      /\ \A g \in Publishers : PubAt(pc[g], Branch(g), job[g].commit) /\ ~Claims(g)
  BY <1>1 DEF Procs, PubAt, Claim, Claims
<1> QED
  BY <1>1, <1>2 DEF PInv, Reported

LEMMA PublishedHolds ==
  ASSUME TInv, LInv, CInv, PInv, NEW d, DirtyPlans = {d}, [Next]_gvars
  PROVE  PInv'
<1>1. CASE UNCHANGED gvars
  <2>1. UNCHANGED <<refs, remote, pulls, log, packets, pc, job>>
    BY <1>1 DEF gvars, repo, hub, records
  <2> QED
    BY <2>1 DEF PInv, PubAt, PrOK, Claims, Claim, Taken, Right, Known, Reported, Branch, SourceHead
<1> QED
  BY <1>1, RunPublishes, PublishPublishes, OperatorPublishes DEF Next

\* With one dirty plan about and any number of standard ones, what a pull request reported as
\* opened shows on the remote is the commit that was checked, for the dirty plan one that a run
\* reported; and a pull request is reported once, whatever publishers race, fail or die
\* (materialize_git_pr_plan).
THEOREM PublishedAsChecked ==
  ASSUME NEW d, DirtyPlans = {d} PROVE Spec => []PublishedIsWhatWasChecked
<1>1. Init => TInv /\ LInv /\ CInv /\ PInv
  BY InitTyped, InitLocks, InitCommits, InitPublished
<1>2. TInv /\ LInv /\ CInv /\ PInv /\ [Next]_gvars => TInv' /\ LInv' /\ CInv' /\ PInv'
  BY NextTyped, LocksHold, CommitsHold, PublishedHolds
<1>3. ASSUME PInv PROVE PublishedIsWhatWasChecked
  <2>1. SUFFICES ASSUME NEW e \in Reported("pr_result")
                 PROVE  /\ remote[e.plan] = e.commit /\ e.plan \in pulls
                        /\ IF e.plan \in DirtyPlans
                           THEN \E k \in Reported("commit_result") : k.plan = e.plan /\ k.commit = e.commit
                           ELSE e.commit = SourceHead
                        /\ \A f \in Reported("pr_result") : f.plan = e.plan => f = e
    BY DEF PublishedIsWhatWasChecked
  <2>2. PrOK(e.plan, e.commit) /\ \A f \in Reported("pr_result") : f.plan = e.plan => f = e
    BY <1>3 DEF PInv
  <2> QED
    BY <2>2 DEF PrOK, Right, Known
<1> QED
  BY <1>1, <1>2, <1>3, PTL DEF Spec
===============================================================================
