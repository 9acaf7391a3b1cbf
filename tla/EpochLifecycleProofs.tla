------------------------ MODULE EpochLifecycleProofs ------------------------
(***************************************************************************)
(* Proofs about EpochLifecycle for every number of processes, epochs and   *)
(* runs, every policy and every set of faults.                             *)
(***************************************************************************)
EXTENDS EpochLifecycle, FiniteSetTheorems, SequenceTheorems, WellFoundedInduction, TLAPS

------------------------------------------------------------------------------
(* The decision is one of the four                                          *)

\* Some test of the cascade always holds, so a self-check ends in a decision.
LEMMA VerdictDecides ==
  ASSUME NEW in
  PROVE  SelfCheckDecision(in) \in Decisions
<1> DEFINE tests == Tests(in)
<1>1. DOMAIN tests = 1..18 /\ tests[18].holds
  BY DEF Tests
<1>2. ASSUME NEW i \in 1..18 PROVE tests[i].decision \in Decisions
  <2>1. CASE i = 1
    BY <2>1 DEF Tests, Decisions
  <2>2. CASE i = 2
    BY <2>2 DEF Tests, Decisions
  <2>3. CASE i = 3
    BY <2>3 DEF Tests, Decisions
  <2>4. CASE i = 4
    BY <2>4 DEF Tests, Decisions
  <2>5. CASE i = 5
    BY <2>5 DEF Tests, Decisions
  <2>6. CASE i = 6
    BY <2>6 DEF Tests, Decisions
  <2>7. CASE i = 7
    BY <2>7 DEF Tests, Decisions
  <2>8. CASE i = 8
    BY <2>8 DEF Tests, Decisions
  <2>9. CASE i = 9
    BY <2>9 DEF Tests, Decisions
  <2>10. CASE i = 10
    BY <2>10 DEF Tests, Decisions
  <2>11. CASE i = 11
    BY <2>11 DEF Tests, Decisions
  <2>12. CASE i = 12
    BY <2>12 DEF Tests, Decisions
  <2>13. CASE i = 13
    BY <2>13 DEF Tests, Decisions
  <2>14. CASE i = 14
    BY <2>14 DEF Tests, Decisions
  <2>15. CASE i = 15
    BY <2>15 DEF Tests, Decisions
  <2>16. CASE i = 16
    BY <2>16 DEF Tests, Decisions
  <2>17. CASE i = 17
    BY <2>17 DEF Tests, Decisions
  <2>18. CASE i = 18
    BY <2>18 DEF Tests, Decisions
  <2> QED
    BY <2>1, <2>2, <2>3, <2>4, <2>5, <2>6, <2>7, <2>8, <2>9, <2>10, <2>11, <2>12, <2>13, <2>14, <2>15, <2>16, <2>17, <2>18
<1> HIDE DEF tests
<1>3. \E i \in 1..18 : tests[i].holds /\ \A j \in 1..(i - 1) : ~tests[j].holds
  <2> DEFINE T == {i \in 1..18 : tests[i].holds}
             R == OpToRel(<, Nat)
  <2>1. T \subseteq Nat /\ T # {}
    BY <1>1
  <2>2. IsWellFoundedOn(R, Nat)
    BY NatLessThanWellFounded
  <2>3. PICK x \in T : \A y \in T : <<y, x>> \notin R
    <3> HIDE DEF T, R
    <3> QED
      BY <2>1, <2>2, WFMin
  <2>4. \A y \in T : ~(y < x)
    BY <2>1, <2>3 DEF OpToRel
  <2> QED
    BY <2>4
<1> DEFINE First(i) == tests[i].holds /\ \A j \in 1..(i - 1) : ~tests[j].holds
           first    == CHOOSE i \in DOMAIN tests : First(i)
<1>4. first \in 1..18
  BY <1>1, <1>3
<1>5. tests[first].decision \in Decisions
  <2> HIDE DEF first
  <2> QED
    BY <1>2, <1>4
<1>6. SelfCheckDecision(in) = tests[first].decision
  BY Zenon DEF SelfCheckDecision, Verdict, tests, first
<1> QED
  BY <1>5, <1>6

\* So does the self-check command, whatever it saw.
LEMMA AnswerDecides ==
  ASSUME NEW ask, NEW b, NEW old, NEW n
  PROVE  Answer(ask, b, old, n) \in Decisions
  BY VerdictDecides DEF Answer, SelfCheckPayload

------------------------------------------------------------------------------
(* Types                                                                    *)

\* What a process holds before it has read anything.
LEMMA BlankTypes == NoCheck \in Check /\ NoJob \in Job
<1>1. NoCheck \in Check
  BY EpochLifecycleAssumption DEF NoCheck, Check, BrakeStatuses
<1>2. NewEpoch({}) \in EpochDoc
  BY <1>1 DEF NewEpoch, EpochDoc
<1> QED
  BY <1>1, <1>2, EpochLifecycleAssumption DEF NoJob, Job, BrakeStatuses, RunStatuses

\* A new epoch is a document.
LEMMA NewEpochType ==
  ASSUME NEW ts \in SUBSET Tasks
  PROVE  NewEpoch(ts) \in EpochDoc
  BY BlankTypes DEF NewEpoch, EpochDoc

\* A directory stays one when a record is put in it,
LEMMA PutType ==
  ASSUME NEW dir, NEW docs, Directory(dir, docs), NEW e \in Epochs, NEW doc \in docs
  PROVE  Directory(Put(dir, e, doc), docs)
  BY DEF Directory, Put

\* or taken out of it.
LEMMA DropType ==
  ASSUME NEW dir, NEW docs, Directory(dir, docs), NEW e
  PROVE  Directory(Drop(dir, e), docs)
  BY DEF Directory, Drop

\* The continue budget is counted in a finite history.
LEMMA CountType ==
  ASSUME NEW dir, DOMAIN dir \subseteq Epochs
  PROVE  ContinueCount(dir) \in Nat
<1>1. IsFiniteSet(DOMAIN dir)
  BY EpochLifecycleAssumption, FS_Subset
<1> QED
  BY <1>1, FS_Subset, FS_CardinalityType DEF ContinueCount

\* What complete-epoch and closeout write is a terminal record.
LEMMA EndOfType ==
  ASSUME Directory(completed, Ending), NEW j \in Job, j.to = "completed",
         j.op = "closeout" \/ j.decision \in Decisions
  PROVE  EndOf(j) \in Ending
<1>1. Cardinality(DOMAIN completed) \in Nat
  BY EpochLifecycleAssumption, FS_Subset, FS_CardinalityType DEF Directory
<1> QED
  BY <1>1 DEF EndOf, Ending, Job, EpochDoc, Decisions

------------------------------------------------------------------------------
(* The inductive invariant                                                  *)

\* Where a process is inside the active-epoch lock, and inside the runtime one.
InEpochLock == {"load", "write", "terminal", "unlink", "undo", "release"}
InRuntime   == {"set-brake", "brake", "lock", "return"} \union InEpochLock

LocksHeld(p) ==
  /\ pc[p] \in InEpochLock => lock["active-epoch"] = p
  /\ pc[p] \in InRuntime /\ HoldsRuntime(job[p].op) => lock["runtime"] = p

\* A job has what its step needs.
JobFits(p) ==
  /\ job[p].op \in {"complete", "fail", "check", "closeout"} => job[p].e \in Epochs
  /\ job[p].op = "complete" => job[p].decision \in Decisions
  /\ job[p].op = "complete" /\ pc[p] \notin {"release", "return"} => job[p].to = "completed"
  /\ job[p].op = "fail" /\ pc[p] \notin {"release", "return"} => job[p].to = "failed"
  /\ pc[p] \in {"terminal", "unlink", "undo"} =>
       job[p].op \in {"complete", "fail", "closeout"} /\ job[p].to \in {"completed", "failed"}
  /\ pc[p] = "record" => job[p].to # "none"
  /\ pc[p] = "return" => HoldsRuntime(job[p].op)
  /\ pc[p] = "set-brake" => job[p].op = "brake"
  /\ pc[p] \in {"view", "count"} => job[p].op = "check"
  /\ pc[p] \in {"read-run", "record", "audit"} => job[p].op = "closeout"

\* What a process found under the active-epoch lock still holds when it writes:
\* no other epoch has become active.
FoundHolds(p) ==
  /\ pc[p] = "write" /\ job[p].op = "start" => DOMAIN active = {}
  /\ pc[p] = "write" /\ job[p].op # "start" => DOMAIN active \subseteq {job[p].e}
  /\ pc[p] \in {"terminal", "unlink", "undo"} => DOMAIN active \subseteq {job[p].e}
  /\ pc[p] = "terminal" /\ job[p].to = "completed" => job[p].e \notin DOMAIN completed

\* A command that starts or continues saw the brake off, and it still is.
NeedsDrive(j) == j.op = "start" \/ (j.op = "complete" /\ j.decision = "CONTINUE")
DriveSeen(p) ==
  pc[p] \in {"lock", "load", "write", "terminal"} /\ NeedsDrive(job[p]) => brake = "DRIVE"

ControlAt(p) == LocksHeld(p) /\ JobFits(p) /\ FoundHolds(p) /\ DriveSeen(p)
Control == AtMostOneActive /\ \A p \in Procs : ControlAt(p)

\* And among the commands of this module, which delete an active record only
\* under its lock, the epoch it found is still there.
Rewriting(p) == \/ pc[p] \in {"terminal", "unlink", "undo"}
                \/ pc[p] = "write" /\ job[p].op # "start"
StillActive(p) == Rewriting(p) => job[p].e \in DOMAIN active

IInv == TypeOK /\ Control /\ \A p \in Procs : StillActive(p)

\* A step that only moves p on and changes what it holds in memory.
LEMMA MemoryType ==
  ASSUME NEW steps, PCs \subseteq steps, TypedWith(steps),
         NEW p \in Procs, NEW step \in PCs, NEW j \in Job,
         Goto(p, step), job' = [job EXCEPT ![p] = j], UNCHANGED <<files, lock>>
  PROVE  TypedWith(steps)'
  BY DEF TypedWith, Goto, files, Directory

\* Invoking a command keeps the types.
LEMMA BeginType ==
  ASSUME NEW steps, PCs \subseteq steps, TypedWith(steps), NEW p \in Procs, Invoke(p)
  PROVE  TypedWith(steps)'
<1>1. "runtime" \in PCs /\ "brake" \in PCs /\ "read-run" \in PCs
  BY DEF PCs
<1>2. ASSUME NEW step \in PCs, NEW j \in Job, Begin(p, step, j) PROVE TypedWith(steps)'
  BY <1>2, MemoryType DEF Begin
<1>3. CASE BeginStart(p)
  <2>1. PICK ts \in TaskLists :
          Begin(p, "runtime", [NoJob EXCEPT !.op = "start", !.tasks = ts])
    BY <1>3 DEF BeginStart
  <2>2. [NoJob EXCEPT !.op = "start", !.tasks = ts] \in Job
    BY BlankTypes, EpochLifecycleAssumption DEF Job
  <2> QED
    BY <1>1, <1>2, <2>1, <2>2
<1>4. CASE BeginComplete(p)
  <2>1. PICK e \in Epochs, d \in Verdicts :
          Begin(p, "runtime", [NoJob EXCEPT !.op = "complete", !.e = e, !.decision = d,
                                            !.to = "completed"])
    BY <1>4 DEF BeginComplete
  <2>2. [NoJob EXCEPT !.op = "complete", !.e = e, !.decision = d, !.to = "completed"] \in Job
    BY BlankTypes, EpochLifecycleAssumption DEF Job
  <2> QED
    BY <1>1, <1>2, <2>1, <2>2
<1>5. CASE BeginFail(p)
  <2>1. PICK e \in Epochs :
          Begin(p, "runtime", [NoJob EXCEPT !.op = "fail", !.e = e, !.to = "failed"])
    BY <1>5 DEF BeginFail
  <2>2. [NoJob EXCEPT !.op = "fail", !.e = e, !.to = "failed"] \in Job
    BY BlankTypes DEF Job
  <2> QED
    BY <1>1, <1>2, <2>1, <2>2
<1>6. CASE BeginBrake(p)
  <2>1. PICK b \in Brakes :
          Begin(p, "runtime", [NoJob EXCEPT !.op = "brake", !.brake = b])
    BY <1>6 DEF BeginBrake
  <2>2. [NoJob EXCEPT !.op = "brake", !.brake = b] \in Job
    BY BlankTypes, EpochLifecycleAssumption DEF Job
  <2> QED
    BY <1>1, <1>2, <2>1, <2>2
<1>7. CASE BeginSelfCheck(p)
  <2>1. PICK e \in Epochs, a \in Asks :
          Begin(p, "brake", [NoJob EXCEPT !.op = "check", !.e = e, !.check.ask = a])
    BY <1>7 DEF BeginSelfCheck
  <2>2. [NoJob.check EXCEPT !.ask = a] \in Check
    BY BlankTypes DEF Check, Job
  <2>3. [NoJob EXCEPT !.op = "check", !.e = e, !.check.ask = a] \in Job
    BY <2>2, BlankTypes DEF Job
  <2> QED
    BY <1>1, <1>2, <2>1, <2>3
<1>8. CASE BeginCloseout(p)
  <2>1. PICK e \in Epochs, r \in Runs :
          Begin(p, "read-run", [NoJob EXCEPT !.op = "closeout", !.e = e, !.run = r])
    BY <1>8 DEF BeginCloseout
  <2>2. [NoJob EXCEPT !.op = "closeout", !.e = e, !.run = r] \in Job
    BY BlankTypes DEF Job
  <2> QED
    BY <1>1, <1>2, <2>1, <2>2
<1> QED
  BY <1>3, <1>4, <1>5, <1>6, <1>7, <1>8 DEF Invoke

\* So does every step.
LEMMA TypeStep ==
  ASSUME NEW steps, PCs \subseteq steps, TypedWith(steps), Control, [Next]_vars
  PROVE  TypedWith(steps)'
<1>1. CASE UNCHANGED vars
  BY <1>1 DEF TypedWith, vars, Directory
<1>2. ASSUME NEW p \in Procs, Invoke(p) PROVE TypedWith(steps)'
  BY <1>2, BeginType
<1>3. ASSUME NEW p \in Procs, AcquireRuntime(p) PROVE TypedWith(steps)'
  BY <1>3, BlankTypes DEF AcquireRuntime, TypedWith, files, Directory, Goto, PCs, Acquire, Granted, Finish, Locks
<1>4. ASSUME NEW p \in Procs, AcquireEpochLock(p) PROVE TypedWith(steps)'
  BY <1>4, BlankTypes DEF AcquireEpochLock, TypedWith, files, Directory, Goto, PCs, Acquire, Granted, Finish, Locks, HoldsRuntime
<1>5. ASSUME NEW p \in Procs, ReleaseEpochLock(p) PROVE TypedWith(steps)'
  BY <1>5, BlankTypes DEF ReleaseEpochLock, TypedWith, files, Directory, Goto, PCs, Release, Finish, HoldsRuntime, Locks, Free
<1>6. ASSUME NEW p \in Procs, ReleaseRuntime(p) PROVE TypedWith(steps)'
  BY <1>6, BlankTypes DEF ReleaseRuntime, TypedWith, files, Directory, Goto, PCs, Release, Finish, Locks, Free
<1>7. ASSUME NEW p \in Procs, SetBrake(p) PROVE TypedWith(steps)'
  BY <1>7, BlankTypes DEF SetBrake, TypedWith, files, Directory, Goto, PCs, Job
<1>8. ASSUME NEW p \in Procs, CheckBrake(p) PROVE TypedWith(steps)'
  BY <1>8, BlankTypes DEF CheckBrake, TypedWith, files, Directory, Goto, PCs
<1>9. ASSUME NEW p \in Procs, ObserveBrake(p) PROVE TypedWith(steps)'
  <2>1. [job[p].check EXCEPT !.brake = brake] \in Check /\ brake \in BrakeStatuses
    BY DEF TypedWith, Job, Check
  <2>2. [job[p] EXCEPT !.check.brake = brake] \in Job
    BY <2>1 DEF TypedWith, Job
  <2>3. [job[p] EXCEPT !.valid = EvidenceValid(RunResult[job[p].run], brake)] \in Job
    <3>1. EvidenceValid(RunResult[job[p].run], brake) \in BOOLEAN
      BY DEF EvidenceValid
    <3> HIDE DEF EvidenceValid
    <3> QED
      BY <3>1 DEF TypedWith, Job
  <2> QED
    BY <1>9, <2>2, <2>3, MemoryType DEF ObserveBrake, PCs
<1>10. ASSUME NEW p \in Procs, StartLoad(p) PROVE TypedWith(steps)'
  BY <1>10, BlankTypes DEF StartLoad, TypedWith, files, Directory, Goto, PCs
<1>11. ASSUME NEW p \in Procs, StartWrite(p) PROVE TypedWith(steps)'
  <2>1. PICK e \in FreshIds : active' = Put(active, e, NewEpoch(job[p].tasks))
    BY <1>11 DEF StartWrite
  <2>2. e \in Epochs /\ job[p].tasks \in SUBSET Tasks
    BY DEF FreshIds, TypedWith, Job
  <2>3. Directory(active', EpochDoc)
    BY <2>1, <2>2, NewEpochType, PutType DEF TypedWith
  <2> QED
    BY <1>11, <2>3 DEF StartWrite, TypedWith, Goto, PCs, Directory
<1>12. ASSUME NEW p \in Procs, CompleteLoad(p) PROVE TypedWith(steps)'
  <2>1. ASSUME Loadable(job[p].e) PROVE [job[p] EXCEPT !.doc = active[job[p].e]] \in Job
    BY <2>1 DEF TypedWith, Job, Loadable, Directory
  <2>2. CASE pc'[p] = "terminal"
    BY <1>12, <2>1, <2>2, MemoryType DEF CompleteLoad, PCs, Goto, TypedWith
  <2>3. CASE pc'[p] # "terminal"
    BY <1>12, <2>3 DEF CompleteLoad, TypedWith, files, Directory, Goto, PCs
  <2> QED
    BY <2>2, <2>3
<1>13. ASSUME NEW p \in Procs, FailLoad(p) PROVE TypedWith(steps)'
  <2>1. ASSUME Loadable(job[p].e) PROVE [job[p] EXCEPT !.doc = active[job[p].e]] \in Job
    BY <2>1 DEF TypedWith, Job, Loadable, Directory
  <2>2. CASE pc'[p] = "terminal"
    BY <1>13, <2>1, <2>2, MemoryType DEF FailLoad, PCs, Goto, TypedWith
  <2>3. CASE pc'[p] # "terminal"
    BY <1>13, <2>3 DEF FailLoad, TypedWith, files, Directory, Goto, PCs
  <2> QED
    BY <2>2, <2>3
<1>14. ASSUME NEW p \in Procs, WriteTerminal(p) PROVE TypedWith(steps)'
  <2>1. job[p] \in Job /\ pc[p] = "terminal"
    BY <1>14 DEF TypedWith, WriteTerminal
  <2>2. /\ job[p].op \in {"complete", "closeout", "fail"} /\ job[p].e \in Epochs
        /\ job[p].op = "complete" => job[p].decision \in Decisions
        /\ job[p].to # "failed" => job[p].op # "fail" /\ job[p].to = "completed"
    BY <2>1 DEF JobFits, ControlAt, Control
  <2>3. Directory(completed', Ending) /\ failed' \subseteq Epochs
    <3>1. CASE job[p].to = "completed" /\ job[p].op # "fail"
      <4>1. EndOf(job[p]) \in Ending
        BY <2>1, <2>2, <3>1, EndOfType DEF TypedWith
      <4>2. completed' = Put(completed, job[p].e, EndOf(job[p])) /\ failed' = failed
        BY <1>14, <3>1 DEF WriteTerminal
      <4> QED
        BY <2>2, <4>1, <4>2, PutType DEF TypedWith
    <3>2. CASE job[p].to = "failed"
      BY <1>14, <2>2, <3>2 DEF WriteTerminal, TypedWith, Directory
    <3> QED
      BY <2>2, <3>1, <3>2 DEF JobFits, ControlAt, Control
  <2> QED
    BY <1>14, <2>3 DEF WriteTerminal, TypedWith, Goto, PCs, Directory
<1>15. ASSUME NEW p \in Procs, UnlinkActive(p) PROVE TypedWith(steps)'
  <2>1. Directory(active', EpochDoc)
    BY <1>15, DropType DEF UnlinkActive, TypedWith
  <2> QED
    BY <1>15, <2>1 DEF UnlinkActive, TypedWith, Goto, PCs, Directory
<1>16. ASSUME NEW p \in Procs, UnlinkFails(p) PROVE TypedWith(steps)'
  BY <1>16, BlankTypes DEF UnlinkFails, TypedWith, files, Directory, Goto, PCs
<1>17. ASSUME NEW p \in Procs, UndoTerminal(p) PROVE TypedWith(steps)'
  <2>1. Directory(completed', Ending) /\ failed' \subseteq Epochs
    <3>1. CASE job[p].to = "completed"
      BY <1>17, <3>1, DropType DEF UndoTerminal, TypedWith
    <3>2. CASE job[p].to # "completed"
      BY <1>17, <3>2 DEF UndoTerminal, TypedWith, Directory
    <3> QED
      BY <3>1, <3>2
  <2>2. [job[p] EXCEPT !.to = "none"] \in Job
    BY DEF TypedWith, Job
  <2> QED
    BY <1>17, <2>1, <2>2 DEF UndoTerminal, TypedWith, Goto, PCs, Directory
<1>18. ASSUME NEW p \in Procs, UndoFails(p) PROVE TypedWith(steps)'
  BY <1>18, BlankTypes DEF UndoFails, TypedWith, files, Directory, Goto, PCs, Job
<1>19. ASSUME NEW p \in Procs, View(p) PROVE TypedWith(steps)'
  BY <1>19, BlankTypes DEF View, TypedWith, files, Directory, Goto, PCs, Finish
<1>20. ASSUME NEW p \in Procs, Decide(p) PROVE TypedWith(steps)'
  <2> DEFINE check == job[p].check
             count == ContinueCount(completed)
             decision == Answer(check.ask, check.brake, job[p].e \in late, count)
             new == [check EXCEPT !.count = count, !.decision = decision]
  <2>1. count \in Nat
    BY CountType DEF TypedWith, Directory
  <2>2. decision \in Decisions
    BY AnswerDecides
  <2>3. check \in Check
    BY DEF TypedWith, Job
  <2> HIDE DEF check, count, decision
  <2>4. new \in Check
    BY <2>1, <2>2, <2>3 DEF Check
  <2> HIDE DEF new
  <2>5. [job[p] EXCEPT !.check = new] \in Job
    BY <2>4 DEF TypedWith, Job
  <2>6. job' = [job EXCEPT ![p] = [job[p] EXCEPT !.check = new]]
    BY <1>20 DEF Decide, new, check, count, decision
  <2> QED
    BY <1>20, <2>5, <2>6, MemoryType DEF Decide, PCs
<1>21. ASSUME NEW p \in Procs, CheckLoad(p) PROVE TypedWith(steps)'
  <2> DEFINE doc == [active[job[p].e] EXCEPT !.check = job[p].check]
  <2>1. ASSUME Loadable(job[p].e) PROVE [job[p] EXCEPT !.doc = doc] \in Job
    <3>1. active[job[p].e] \in EpochDoc /\ job[p].check \in Check
      BY <2>1 DEF TypedWith, Job, Loadable, Directory
    <3>2. doc \in EpochDoc
      BY <3>1 DEF EpochDoc
    <3> QED
      BY <3>2 DEF TypedWith, Job
  <2> HIDE DEF doc
  <2>2. CASE Loadable(job[p].e)
    <3>1. job' = [job EXCEPT ![p] = [job[p] EXCEPT !.doc = doc]]
      BY <1>21, <2>2 DEF CheckLoad, doc
    <3> QED
      BY <1>21, <2>1, <2>2, <3>1, MemoryType DEF CheckLoad, PCs
  <2>3. CASE ~Loadable(job[p].e)
    BY <1>21, <2>3 DEF CheckLoad, TypedWith, files, Directory, Goto, PCs
  <2> QED
    BY <2>2, <2>3
<1>22. ASSUME NEW p \in Procs, ReadRun(p) PROVE TypedWith(steps)'
  BY <1>22, BlankTypes DEF ReadRun, TypedWith, files, Directory, Goto, PCs, Job
<1>23. ASSUME NEW p \in Procs, CloseoutLoad(p) PROVE TypedWith(steps)'
  <2> DEFINE e == job[p].e
             r == job[p].run
             after == [active[e] EXCEPT !.done = @ \union {RunTask[r]},
                                        !.closeouts = Append(@, r)]
  <2>1. r \in Runs /\ RunTask[r] \in Tasks
    BY EpochLifecycleAssumption DEF TypedWith, Job
  <2>2. ASSUME NEW doc \in EpochDoc, NEW to \in {"task_completed", "completed", "failed"},
               NEW step \in PCs, Goto(p, step), UNCHANGED <<files, lock>>,
               job' = [job EXCEPT ![p] = [job[p] EXCEPT !.to = to, !.doc = doc]]
        PROVE  TypedWith(steps)'
    <3>1. [job[p] EXCEPT !.to = to, !.doc = doc] \in Job
      BY DEF TypedWith, Job
    <3> QED
      BY <2>2, <3>1, MemoryType
  <2>3. CASE Closeable(e, r, job[p].runWas)
    <3>1. active[e] \in EpochDoc
      BY <2>3 DEF Closeable, Loadable, TypedWith, Directory
    <3>2. after \in EpochDoc
      <4>1. active[e].done \union {RunTask[r]} \in SUBSET Tasks
        BY <2>1, <3>1 DEF EpochDoc
      <4>2. Append(active[e].closeouts, r) \in Seq(Runs)
        BY <2>1, <3>1 DEF EpochDoc
      <4> QED
        BY <3>1, <4>1, <4>2 DEF EpochDoc
    <3> HIDE DEF after
    <3>3. "terminal" \in PCs /\ "write" \in PCs
      BY DEF PCs
    <3>4. \/ Goto(p, "release") /\ UNCHANGED job
          \/ /\ Goto(p, "terminal")
             /\ job' = [job EXCEPT ![p] = [job[p] EXCEPT !.to = "failed", !.doc = active[e]]]
          \/ /\ Goto(p, "terminal")
             /\ job' = [job EXCEPT ![p] = [job[p] EXCEPT !.to = "completed", !.doc = after]]
          \/ /\ Goto(p, "write")
             /\ job' = [job EXCEPT ![p] = [job[p] EXCEPT !.to = "task_completed", !.doc = after]]
      BY <1>23 DEF CloseoutLoad, after
    <3>5. CASE Goto(p, "release") /\ UNCHANGED job
      BY <1>23, <3>5 DEF CloseoutLoad, TypedWith, files, Directory, Goto, PCs
    <3>6. CASE ~(Goto(p, "release") /\ UNCHANGED job)
      BY <1>23, <2>2, <3>1, <3>2, <3>3, <3>4, <3>6 DEF CloseoutLoad
    <3> QED
      BY <3>5, <3>6
  <2>4. CASE ~Closeable(e, r, job[p].runWas)
    BY <1>23, <2>4 DEF CloseoutLoad, TypedWith, files, Directory, Goto, PCs
  <2> QED
    BY <2>3, <2>4
<1>24. ASSUME NEW p \in Procs, Rewrite(p) PROVE TypedWith(steps)'
  <2>1. job[p].e \in Epochs /\ job[p].doc \in EpochDoc
    BY <1>24 DEF Rewrite, JobFits, ControlAt, Control, TypedWith, Job
  <2>2. Directory(active', EpochDoc)
    BY <1>24, <2>1, PutType DEF Rewrite, TypedWith
  <2> QED
    BY <1>24, <2>2 DEF Rewrite, TypedWith, Goto, PCs, Directory
<1>25. ASSUME NEW p \in Procs, RecordRun(p) PROVE TypedWith(steps)'
  <2>1. job[p].to \in RunStatuses
    BY <1>25 DEF JobFits, ControlAt, Control, RecordRun, TypedWith, Job, RunStatuses
  <2> QED
    BY <1>25, <2>1 DEF RecordRun, TypedWith, Goto, PCs, Directory
<1>26. ASSUME NEW p \in Procs, AuditAppended(p) PROVE TypedWith(steps)'
  BY <1>26, BlankTypes DEF AuditAppended, TypedWith, files, Directory, Goto, PCs, Finish
<1>27. ASSUME NEW p \in Procs, AuditFails(p) PROVE TypedWith(steps)'
  BY <1>27, BlankTypes DEF AuditFails, TypedWith, files, Directory, Goto, PCs, Finish, Job, RunStatuses
<1>28. ASSUME NEW p \in Procs, Crash(p) PROVE TypedWith(steps)'
  BY <1>28, BlankTypes DEF Crash, Locks, Free, Stale, Finish, TypedWith, files, Directory, Goto, PCs
<1>29. ASSUME NEW e \in Epochs, Age(e) PROVE TypedWith(steps)'
  BY <1>29, BlankTypes DEF Age, TypedWith, files, Directory, Goto, PCs
<1>30. ASSUME NEW l \in Locks, ClearStaleLock(l) PROVE TypedWith(steps)'
  BY <1>30, BlankTypes DEF ClearStaleLock, Locks, Free, Stale, Release, TypedWith, files, Directory, Goto, PCs
<1> QED
  BY <1>1, <1>2, <1>3, <1>4, <1>5, <1>6, <1>7, <1>8, <1>9, <1>10, <1>11, <1>12, <1>13,
     <1>14, <1>15, <1>16, <1>17, <1>18, <1>19, <1>20, <1>21, <1>22, <1>23, <1>24, <1>25,
     <1>26, <1>27, <1>28, <1>29, <1>30
     DEF Next, Step

------------------------------------------------------------------------------
(* The control invariant                                                    *)

\* An idle process holds nothing that a condition on jobs could be about.
LEMMA BlankFits == NoJob.op = "none" /\ NoJob.to = "none"
  BY DEF NoJob

\* A step is p's alone when it leaves the other processes and the locks they
\* hold alone, and changes what a lock guards only under that lock.
Alone(p) ==
  /\ \A q \in Procs \ {p} : pc'[q] = pc[q] /\ job'[q] = job[q]
  /\ \A q \in Procs \ {p} : \A l \in Locks : lock[l] = q => lock'[l] = q
  /\ UNCHANGED <<active, completed>> \/ lock["active-epoch"] = p
  /\ UNCHANGED brake \/ lock["runtime"] = p

\* What the other processes rely on survives such a step.
LEMMA OthersKeep ==
  ASSUME Control, NEW p \in Procs, Alone(p), NEW q \in Procs \ {p}
  PROVE  ControlAt(q)'
<1>1. ControlAt(q) /\ pc'[q] = pc[q] /\ job'[q] = job[q]
  BY DEF Control, Alone
<1>2. LocksHeld(q)'
  BY <1>1 DEF Alone, ControlAt, LocksHeld, Locks
<1>3. JobFits(q)'
  BY <1>1 DEF ControlAt, JobFits
<1>4. FoundHolds(q)'
  BY <1>1 DEF Alone, ControlAt, FoundHolds, LocksHeld, InEpochLock
<1>5. DriveSeen(q)'
  BY <1>1 DEF Alone, ControlAt, DriveSeen, LocksHeld, InEpochLock, InRuntime, NeedsDrive,
              HoldsRuntime
<1> QED
  BY <1>2, <1>3, <1>4, <1>5 DEF ControlAt

\* So only the process that takes the step has to be looked at.
LEMMA OwnStep ==
  ASSUME Control, NEW p \in Procs, Alone(p), ControlAt(p)', AtMostOneActive'
  PROVE  Control'
  BY OthersKeep DEF Control

\* Recording what was loaded leaves the operation and the epoch of a job alone.
LEMMA EditedJob ==
  ASSUME NEW j \in Job, NEW to, NEW doc
  PROVE  LET k == [j EXCEPT !.to = to, !.doc = doc]
         IN  k.op = j.op /\ k.e = j.e /\ k.to = to
  BY DEF Job

\* Every step preserves what the processes know about the files.
LEMMA ControlStep ==
  ASSUME NEW steps, PCs \subseteq steps, TypedWith(steps), Control, [Next]_vars
  PROVE  Control'
<1> USE DEF Goto, files
<1>1. CASE UNCHANGED vars
  BY <1>1 DEF vars, Control, ControlAt, LocksHeld, JobFits, FoundHolds, DriveSeen, NeedsDrive, AtMostOneActive, HoldsRuntime
<1>2. ASSUME NEW p \in Procs, BeginStart(p) PROVE Control'
  <2>1. ControlAt(p)
    BY DEF Control
  <2>2. Alone(p)
    BY <1>2, <2>1, EpochLifecycleAssumption DEF BeginStart, Begin, NoJob, Alone, TypedWith,
       ControlAt, LocksHeld, JobFits, FoundHolds, DriveSeen, NeedsDrive, HoldsRuntime,
       InEpochLock, InRuntime
  <2>3. ControlAt(p)'
    BY <1>2, <2>1, EpochLifecycleAssumption DEF BeginStart, Begin, NoJob, TypedWith,
       ControlAt, LocksHeld, JobFits, FoundHolds, DriveSeen, NeedsDrive, HoldsRuntime,
       InEpochLock, InRuntime
  <2>4. AtMostOneActive'
    BY <1>2, <2>1 DEF BeginStart, Begin, NoJob, Control, ControlAt, LocksHeld, JobFits,
       FoundHolds, DriveSeen, NeedsDrive, HoldsRuntime, InEpochLock, InRuntime,
       AtMostOneActive
  <2> QED
    BY <2>2, <2>3, <2>4, OwnStep
<1>3. ASSUME NEW p \in Procs, BeginComplete(p) PROVE Control'
  <2>1. ControlAt(p)
    BY DEF Control
  <2>2. Alone(p)
    BY <1>3, <2>1, EpochLifecycleAssumption DEF BeginComplete, Begin, NoJob, Alone,
       TypedWith, ControlAt, LocksHeld, JobFits, FoundHolds, DriveSeen, NeedsDrive,
       HoldsRuntime, InEpochLock, InRuntime
  <2>3. ControlAt(p)'
    BY <1>3, <2>1, EpochLifecycleAssumption DEF BeginComplete, Begin, NoJob, TypedWith,
       ControlAt, LocksHeld, JobFits, FoundHolds, DriveSeen, NeedsDrive, HoldsRuntime,
       InEpochLock, InRuntime
  <2>4. AtMostOneActive'
    BY <1>3, <2>1 DEF BeginComplete, Begin, NoJob, Control, ControlAt, LocksHeld,
       JobFits, FoundHolds, DriveSeen, NeedsDrive, HoldsRuntime, InEpochLock, InRuntime,
       AtMostOneActive
  <2> QED
    BY <2>2, <2>3, <2>4, OwnStep
<1>4. ASSUME NEW p \in Procs, BeginFail(p) PROVE Control'
  <2>1. ControlAt(p)
    BY DEF Control
  <2>2. Alone(p)
    BY <1>4, <2>1, EpochLifecycleAssumption DEF BeginFail, Begin, NoJob, Alone, TypedWith,
       ControlAt, LocksHeld, JobFits, FoundHolds, DriveSeen, NeedsDrive, HoldsRuntime,
       InEpochLock, InRuntime
  <2>3. ControlAt(p)'
    BY <1>4, <2>1, EpochLifecycleAssumption DEF BeginFail, Begin, NoJob, TypedWith,
       ControlAt, LocksHeld, JobFits, FoundHolds, DriveSeen, NeedsDrive, HoldsRuntime,
       InEpochLock, InRuntime
  <2>4. AtMostOneActive'
    BY <1>4, <2>1 DEF BeginFail, Begin, NoJob, Control, ControlAt, LocksHeld, JobFits,
       FoundHolds, DriveSeen, NeedsDrive, HoldsRuntime, InEpochLock, InRuntime,
       AtMostOneActive
  <2> QED
    BY <2>2, <2>3, <2>4, OwnStep
<1>5. ASSUME NEW p \in Procs, BeginBrake(p) PROVE Control'
  <2>1. ControlAt(p)
    BY DEF Control
  <2>2. Alone(p)
    BY <1>5, <2>1, EpochLifecycleAssumption DEF BeginBrake, Begin, NoJob, Alone, TypedWith,
       ControlAt, LocksHeld, JobFits, FoundHolds, DriveSeen, NeedsDrive, HoldsRuntime,
       InEpochLock, InRuntime
  <2>3. ControlAt(p)'
    BY <1>5, <2>1, EpochLifecycleAssumption DEF BeginBrake, Begin, NoJob, TypedWith,
       ControlAt, LocksHeld, JobFits, FoundHolds, DriveSeen, NeedsDrive, HoldsRuntime,
       InEpochLock, InRuntime
  <2>4. AtMostOneActive'
    BY <1>5, <2>1 DEF BeginBrake, Begin, NoJob, Control, ControlAt, LocksHeld, JobFits,
       FoundHolds, DriveSeen, NeedsDrive, HoldsRuntime, InEpochLock, InRuntime,
       AtMostOneActive
  <2> QED
    BY <2>2, <2>3, <2>4, OwnStep
<1>6. ASSUME NEW p \in Procs, BeginSelfCheck(p) PROVE Control'
  <2>1. ControlAt(p)
    BY DEF Control
  <2>2. Alone(p)
    BY <1>6, <2>1, EpochLifecycleAssumption DEF BeginSelfCheck, Begin, NoJob, Alone,
       TypedWith, ControlAt, LocksHeld, JobFits, FoundHolds, DriveSeen, NeedsDrive,
       HoldsRuntime, InEpochLock, InRuntime
  <2>3. ControlAt(p)'
    BY <1>6, <2>1, EpochLifecycleAssumption DEF BeginSelfCheck, Begin, NoJob, TypedWith,
       ControlAt, LocksHeld, JobFits, FoundHolds, DriveSeen, NeedsDrive, HoldsRuntime,
       InEpochLock, InRuntime
  <2>4. AtMostOneActive'
    BY <1>6, <2>1 DEF BeginSelfCheck, Begin, NoJob, Control, ControlAt, LocksHeld,
       JobFits, FoundHolds, DriveSeen, NeedsDrive, HoldsRuntime, InEpochLock, InRuntime,
       AtMostOneActive
  <2> QED
    BY <2>2, <2>3, <2>4, OwnStep
<1>7. ASSUME NEW p \in Procs, BeginCloseout(p) PROVE Control'
  <2>1. ControlAt(p)
    BY DEF Control
  <2>2. Alone(p)
    BY <1>7, <2>1, EpochLifecycleAssumption DEF BeginCloseout, Begin, NoJob, Alone,
       TypedWith, ControlAt, LocksHeld, JobFits, FoundHolds, DriveSeen, NeedsDrive,
       HoldsRuntime, InEpochLock, InRuntime
  <2>3. ControlAt(p)'
    BY <1>7, <2>1, EpochLifecycleAssumption DEF BeginCloseout, Begin, NoJob, TypedWith,
       ControlAt, LocksHeld, JobFits, FoundHolds, DriveSeen, NeedsDrive, HoldsRuntime,
       InEpochLock, InRuntime
  <2>4. AtMostOneActive'
    BY <1>7, <2>1 DEF BeginCloseout, Begin, NoJob, Control, ControlAt, LocksHeld,
       JobFits, FoundHolds, DriveSeen, NeedsDrive, HoldsRuntime, InEpochLock, InRuntime,
       AtMostOneActive
  <2> QED
    BY <2>2, <2>3, <2>4, OwnStep
<1>8. ASSUME NEW p \in Procs, AcquireRuntime(p) PROVE Control'
  <2>1. ControlAt(p)
    BY DEF Control
  <2>2. Alone(p)
    BY <1>8, <2>1, BlankFits, EpochLifecycleAssumption DEF AcquireRuntime, Acquire,
       Granted, Finish, Locks, Free, Alone, TypedWith, ControlAt, LocksHeld, JobFits,
       FoundHolds, DriveSeen, NeedsDrive, HoldsRuntime, InEpochLock, InRuntime
  <2>3. ControlAt(p)'
    BY <1>8, <2>1, BlankFits, EpochLifecycleAssumption DEF AcquireRuntime, Acquire,
       Granted, Finish, Locks, Free, TypedWith, ControlAt, LocksHeld, JobFits, FoundHolds,
       DriveSeen, NeedsDrive, HoldsRuntime, InEpochLock, InRuntime
  <2>4. AtMostOneActive'
    BY <1>8, <2>1 DEF AcquireRuntime, Acquire, Granted, Finish, Locks, Free, Control,
       ControlAt, LocksHeld, JobFits, FoundHolds, DriveSeen, NeedsDrive, HoldsRuntime,
       InEpochLock, InRuntime, AtMostOneActive
  <2> QED
    BY <2>2, <2>3, <2>4, OwnStep
<1>9. ASSUME NEW p \in Procs, AcquireEpochLock(p) PROVE Control'
  <2>1. ControlAt(p)
    BY DEF Control
  <2>2. Alone(p)
    BY <1>9, <2>1, BlankFits, EpochLifecycleAssumption DEF AcquireEpochLock, Acquire,
       Granted, Finish, Locks, Free, Alone, TypedWith, ControlAt, LocksHeld, JobFits,
       FoundHolds, DriveSeen, NeedsDrive, HoldsRuntime, InEpochLock, InRuntime
  <2>3. ControlAt(p)'
    BY <1>9, <2>1, BlankFits, EpochLifecycleAssumption DEF AcquireEpochLock, Acquire,
       Granted, Finish, Locks, Free, TypedWith, ControlAt, LocksHeld, JobFits, FoundHolds,
       DriveSeen, NeedsDrive, HoldsRuntime, InEpochLock, InRuntime
  <2>4. AtMostOneActive'
    BY <1>9, <2>1 DEF AcquireEpochLock, Acquire, Granted, Finish, Locks, Free, Control,
       ControlAt, LocksHeld, JobFits, FoundHolds, DriveSeen, NeedsDrive, HoldsRuntime,
       InEpochLock, InRuntime, AtMostOneActive
  <2> QED
    BY <2>2, <2>3, <2>4, OwnStep
<1>10. ASSUME NEW p \in Procs, ReleaseEpochLock(p) PROVE Control'
  <2>1. ControlAt(p)
    BY DEF Control
  <2>2. Alone(p)
    BY <1>10, <2>1, BlankFits, EpochLifecycleAssumption DEF ReleaseEpochLock, Release,
       Finish, Locks, Free, Alone, TypedWith, ControlAt, LocksHeld, JobFits, FoundHolds,
       DriveSeen, NeedsDrive, HoldsRuntime, InEpochLock, InRuntime
  <2>3. ControlAt(p)'
    BY <1>10, <2>1, BlankFits, EpochLifecycleAssumption DEF ReleaseEpochLock, Release,
       Finish, Locks, Free, TypedWith, ControlAt, LocksHeld, JobFits, FoundHolds,
       DriveSeen, NeedsDrive, HoldsRuntime, InEpochLock, InRuntime
  <2>4. AtMostOneActive'
    BY <1>10, <2>1 DEF ReleaseEpochLock, Release, Finish, Locks, Free, Control,
       ControlAt, LocksHeld, JobFits, FoundHolds, DriveSeen, NeedsDrive, HoldsRuntime,
       InEpochLock, InRuntime, AtMostOneActive
  <2> QED
    BY <2>2, <2>3, <2>4, OwnStep
<1>11. ASSUME NEW p \in Procs, ReleaseRuntime(p) PROVE Control'
  <2>1. ControlAt(p)
    BY DEF Control
  <2>2. Alone(p)
    BY <1>11, <2>1, BlankFits, EpochLifecycleAssumption DEF ReleaseRuntime, Release,
       Finish, Locks, Free, Alone, TypedWith, ControlAt, LocksHeld, JobFits, FoundHolds,
       DriveSeen, NeedsDrive, HoldsRuntime, InEpochLock, InRuntime
  <2>3. ControlAt(p)'
    BY <1>11, <2>1, BlankFits, EpochLifecycleAssumption DEF ReleaseRuntime, Release,
       Finish, Locks, Free, TypedWith, ControlAt, LocksHeld, JobFits, FoundHolds,
       DriveSeen, NeedsDrive, HoldsRuntime, InEpochLock, InRuntime
  <2>4. AtMostOneActive'
    BY <1>11, <2>1 DEF ReleaseRuntime, Release, Finish, Locks, Free, Control, ControlAt,
       LocksHeld, JobFits, FoundHolds, DriveSeen, NeedsDrive, HoldsRuntime, InEpochLock,
       InRuntime, AtMostOneActive
  <2> QED
    BY <2>2, <2>3, <2>4, OwnStep
<1>12. ASSUME NEW p \in Procs, SetBrake(p) PROVE Control'
  <2>1. ControlAt(p)
    BY DEF Control
  <2>2. Alone(p)
    BY <1>12, <2>1 DEF SetBrake, Alone, TypedWith, ControlAt, LocksHeld, JobFits,
       FoundHolds, DriveSeen, NeedsDrive, HoldsRuntime, InEpochLock, InRuntime
  <2>3. ControlAt(p)'
    BY <1>12, <2>1 DEF SetBrake, TypedWith, ControlAt, LocksHeld, JobFits, FoundHolds,
       DriveSeen, NeedsDrive, HoldsRuntime, InEpochLock, InRuntime
  <2>4. AtMostOneActive'
    BY <1>12, <2>1 DEF SetBrake, Control, ControlAt, LocksHeld, JobFits, FoundHolds,
       DriveSeen, NeedsDrive, HoldsRuntime, InEpochLock, InRuntime, AtMostOneActive
  <2> QED
    BY <2>2, <2>3, <2>4, OwnStep
<1>13. ASSUME NEW p \in Procs, CheckBrake(p) PROVE Control'
  <2>1. ControlAt(p)
    BY DEF Control
  <2>2. Alone(p)
    BY <1>13, <2>1 DEF CheckBrake, Alone, TypedWith, ControlAt, LocksHeld, JobFits,
       FoundHolds, DriveSeen, NeedsDrive, HoldsRuntime, InEpochLock, InRuntime
  <2>3. ControlAt(p)'
    BY <1>13, <2>1 DEF CheckBrake, TypedWith, ControlAt, LocksHeld, JobFits, FoundHolds,
       DriveSeen, NeedsDrive, HoldsRuntime, InEpochLock, InRuntime
  <2>4. AtMostOneActive'
    BY <1>13, <2>1 DEF CheckBrake, Control, ControlAt, LocksHeld, JobFits, FoundHolds,
       DriveSeen, NeedsDrive, HoldsRuntime, InEpochLock, InRuntime, AtMostOneActive
  <2> QED
    BY <2>2, <2>3, <2>4, OwnStep
<1>14. ASSUME NEW p \in Procs, ObserveBrake(p) PROVE Control'
  <2>1. ControlAt(p)
    BY DEF Control
  <2>2. Alone(p)
    BY <1>14, <2>1 DEF ObserveBrake, Alone, TypedWith, ControlAt, LocksHeld, JobFits,
       FoundHolds, DriveSeen, NeedsDrive, HoldsRuntime, InEpochLock, InRuntime
  <2>5. job[p] \in Job
    BY DEF TypedWith
  <2>6. /\ job'[p].op = job[p].op /\ job'[p].e = job[p].e
        /\ job'[p].to = job[p].to /\ job'[p].decision = job[p].decision
    BY <1>14, <2>5 DEF ObserveBrake, TypedWith, Job
  <2>7. /\ pc'[p] \in {"view", "lock"} /\ UNCHANGED <<active, completed, lock, brake>>
        /\ pc[p] = "brake" /\ job[p].op \in {"check", "closeout"}
        /\ pc'[p] = "view" => job[p].op = "check"
    BY <1>14 DEF ObserveBrake, TypedWith
  <2>3. ControlAt(p)'
    BY <1>14, <2>1, <2>6, <2>7 DEF ControlAt, LocksHeld, JobFits, FoundHolds, DriveSeen,
       NeedsDrive, HoldsRuntime, InEpochLock, InRuntime
  <2>4. AtMostOneActive'
    BY <1>14, <2>1 DEF ObserveBrake, Control, ControlAt, LocksHeld, JobFits, FoundHolds,
       DriveSeen, NeedsDrive, HoldsRuntime, InEpochLock, InRuntime, AtMostOneActive
  <2> QED
    BY <2>2, <2>3, <2>4, OwnStep
<1>15. ASSUME NEW p \in Procs, StartLoad(p) PROVE Control'
  <2>1. ControlAt(p)
    BY DEF Control
  <2>2. Alone(p)
    BY <1>15, <2>1 DEF StartLoad, Alone, TypedWith, ControlAt, LocksHeld, JobFits,
       FoundHolds, DriveSeen, NeedsDrive, HoldsRuntime, InEpochLock, InRuntime
  <2>3. ControlAt(p)'
    BY <1>15, <2>1 DEF StartLoad, TypedWith, ControlAt, LocksHeld, JobFits, FoundHolds,
       DriveSeen, NeedsDrive, HoldsRuntime, InEpochLock, InRuntime
  <2>4. AtMostOneActive'
    BY <1>15, <2>1 DEF StartLoad, Control, ControlAt, LocksHeld, JobFits, FoundHolds,
       DriveSeen, NeedsDrive, HoldsRuntime, InEpochLock, InRuntime, AtMostOneActive
  <2> QED
    BY <2>2, <2>3, <2>4, OwnStep
<1>16. ASSUME NEW p \in Procs, StartWrite(p) PROVE Control'
  <2>1. ControlAt(p)
    BY DEF Control
  <2>2. Alone(p)
    BY <1>16, <2>1 DEF StartWrite, Put, FreshIds, Alone, TypedWith, ControlAt, LocksHeld,
       JobFits, FoundHolds, DriveSeen, NeedsDrive, HoldsRuntime, InEpochLock, InRuntime
  <2>3. ControlAt(p)'
    BY <1>16, <2>1 DEF StartWrite, Put, FreshIds, TypedWith, ControlAt, LocksHeld, JobFits,
       FoundHolds, DriveSeen, NeedsDrive, HoldsRuntime, InEpochLock, InRuntime
  <2>4. AtMostOneActive'
    BY <1>16, <2>1 DEF StartWrite, Put, FreshIds, Control, ControlAt, LocksHeld,
       JobFits, FoundHolds, DriveSeen, NeedsDrive, HoldsRuntime, InEpochLock, InRuntime,
       AtMostOneActive
  <2> QED
    BY <2>2, <2>3, <2>4, OwnStep
<1>17. ASSUME NEW p \in Procs, CompleteLoad(p) PROVE Control'
  <2>1. ControlAt(p)
    BY DEF Control
  <2>2. Alone(p)
    BY <1>17, <2>1 DEF CompleteLoad, Loadable, Alone, TypedWith, ControlAt, LocksHeld,
       JobFits, FoundHolds, DriveSeen, NeedsDrive, HoldsRuntime, InEpochLock, InRuntime
  <2>5. job[p] \in Job
    BY DEF TypedWith
  <2>6. /\ job'[p].op = job[p].op /\ job'[p].e = job[p].e
        /\ job'[p].to = job[p].to /\ job'[p].decision = job[p].decision
    BY <1>17, <2>5 DEF CompleteLoad, TypedWith, Job
  <2>7. /\ \/ /\ pc'[p] = "terminal" /\ DOMAIN active = {job[p].e}
              /\ job[p].e \notin DOMAIN completed
           \/ pc'[p] = "release"
        /\ UNCHANGED <<active, completed, lock, brake>>
        /\ pc[p] = "load" /\ job[p].op = "complete"
    BY <1>17 DEF CompleteLoad, TypedWith, Loadable
  <2>3. ControlAt(p)'
    BY <1>17, <2>1, <2>6, <2>7 DEF ControlAt, LocksHeld, JobFits, FoundHolds, DriveSeen,
       NeedsDrive, HoldsRuntime, InEpochLock, InRuntime
  <2>4. AtMostOneActive'
    BY <1>17, <2>1 DEF CompleteLoad, Loadable, Control, ControlAt, LocksHeld, JobFits,
       FoundHolds, DriveSeen, NeedsDrive, HoldsRuntime, InEpochLock, InRuntime,
       AtMostOneActive
  <2> QED
    BY <2>2, <2>3, <2>4, OwnStep
<1>18. ASSUME NEW p \in Procs, FailLoad(p) PROVE Control'
  <2>1. ControlAt(p)
    BY DEF Control
  <2>2. Alone(p)
    BY <1>18, <2>1 DEF FailLoad, Loadable, Alone, TypedWith, ControlAt, LocksHeld, JobFits,
       FoundHolds, DriveSeen, NeedsDrive, HoldsRuntime, InEpochLock, InRuntime
  <2>5. job[p] \in Job
    BY DEF TypedWith
  <2>6. /\ job'[p].op = job[p].op /\ job'[p].e = job[p].e
        /\ job'[p].to = job[p].to /\ job'[p].decision = job[p].decision
    BY <1>18, <2>5 DEF FailLoad, TypedWith, Job
  <2>7. /\ (pc'[p] = "terminal" /\ DOMAIN active = {job[p].e}) \/ pc'[p] = "release"
        /\ UNCHANGED <<active, completed, lock, brake>>
        /\ pc[p] = "load" /\ job[p].op = "fail"
    BY <1>18 DEF FailLoad, TypedWith, Loadable
  <2>3. ControlAt(p)'
    BY <1>18, <2>1, <2>6, <2>7 DEF ControlAt, LocksHeld, JobFits, FoundHolds, DriveSeen,
       NeedsDrive, HoldsRuntime, InEpochLock, InRuntime
  <2>4. AtMostOneActive'
    BY <1>18, <2>1 DEF FailLoad, Loadable, Control, ControlAt, LocksHeld, JobFits,
       FoundHolds, DriveSeen, NeedsDrive, HoldsRuntime, InEpochLock, InRuntime,
       AtMostOneActive
  <2> QED
    BY <2>2, <2>3, <2>4, OwnStep
<1>19. ASSUME NEW p \in Procs, WriteTerminal(p) PROVE Control'
  <2>1. ControlAt(p)
    BY DEF Control
  <2>2. Alone(p)
    BY <1>19, <2>1 DEF WriteTerminal, Put, Alone, TypedWith, ControlAt, LocksHeld, JobFits,
       FoundHolds, DriveSeen, NeedsDrive, HoldsRuntime, InEpochLock, InRuntime
  <2>3. ControlAt(p)'
    BY <1>19, <2>1 DEF WriteTerminal, Put, TypedWith, ControlAt, LocksHeld, JobFits,
       FoundHolds, DriveSeen, NeedsDrive, HoldsRuntime, InEpochLock, InRuntime
  <2>4. AtMostOneActive'
    BY <1>19, <2>1 DEF WriteTerminal, Put, Control, ControlAt, LocksHeld, JobFits,
       FoundHolds, DriveSeen, NeedsDrive, HoldsRuntime, InEpochLock, InRuntime,
       AtMostOneActive
  <2> QED
    BY <2>2, <2>3, <2>4, OwnStep
<1>20. ASSUME NEW p \in Procs, UnlinkActive(p) PROVE Control'
  <2>1. ControlAt(p)
    BY DEF Control
  <2>2. Alone(p)
    BY <1>20, <2>1 DEF UnlinkActive, Drop, Alone, TypedWith, ControlAt, LocksHeld, JobFits,
       FoundHolds, DriveSeen, NeedsDrive, HoldsRuntime, InEpochLock, InRuntime
  <2>3. ControlAt(p)'
    BY <1>20, <2>1 DEF UnlinkActive, Drop, TypedWith, ControlAt, LocksHeld, JobFits,
       FoundHolds, DriveSeen, NeedsDrive, HoldsRuntime, InEpochLock, InRuntime
  <2>4. AtMostOneActive'
    BY <1>20, <2>1 DEF UnlinkActive, Drop, Control, ControlAt, LocksHeld, JobFits,
       FoundHolds, DriveSeen, NeedsDrive, HoldsRuntime, InEpochLock, InRuntime,
       AtMostOneActive
  <2> QED
    BY <2>2, <2>3, <2>4, OwnStep
<1>21. ASSUME NEW p \in Procs, UnlinkFails(p) PROVE Control'
  <2>1. ControlAt(p)
    BY DEF Control
  <2>2. Alone(p)
    BY <1>21, <2>1 DEF UnlinkFails, Alone, TypedWith, ControlAt, LocksHeld, JobFits,
       FoundHolds, DriveSeen, NeedsDrive, HoldsRuntime, InEpochLock, InRuntime
  <2>3. ControlAt(p)'
    BY <1>21, <2>1 DEF UnlinkFails, TypedWith, ControlAt, LocksHeld, JobFits, FoundHolds,
       DriveSeen, NeedsDrive, HoldsRuntime, InEpochLock, InRuntime
  <2>4. AtMostOneActive'
    BY <1>21, <2>1 DEF UnlinkFails, Control, ControlAt, LocksHeld, JobFits, FoundHolds,
       DriveSeen, NeedsDrive, HoldsRuntime, InEpochLock, InRuntime, AtMostOneActive
  <2> QED
    BY <2>2, <2>3, <2>4, OwnStep
<1>22. ASSUME NEW p \in Procs, UndoTerminal(p) PROVE Control'
  <2>1. ControlAt(p)
    BY DEF Control
  <2>2. Alone(p)
    BY <1>22, <2>1 DEF UndoTerminal, Drop, Alone, TypedWith, ControlAt, LocksHeld, JobFits,
       FoundHolds, DriveSeen, NeedsDrive, HoldsRuntime, InEpochLock, InRuntime
  <2>3. ControlAt(p)'
    BY <1>22, <2>1 DEF UndoTerminal, Drop, TypedWith, ControlAt, LocksHeld, JobFits,
       FoundHolds, DriveSeen, NeedsDrive, HoldsRuntime, InEpochLock, InRuntime
  <2>4. AtMostOneActive'
    BY <1>22, <2>1 DEF UndoTerminal, Drop, Control, ControlAt, LocksHeld, JobFits,
       FoundHolds, DriveSeen, NeedsDrive, HoldsRuntime, InEpochLock, InRuntime,
       AtMostOneActive
  <2> QED
    BY <2>2, <2>3, <2>4, OwnStep
<1>23. ASSUME NEW p \in Procs, UndoFails(p) PROVE Control'
  <2>1. ControlAt(p)
    BY DEF Control
  <2>2. Alone(p)
    BY <1>23, <2>1 DEF UndoFails, Alone, TypedWith, ControlAt, LocksHeld, JobFits,
       FoundHolds, DriveSeen, NeedsDrive, HoldsRuntime, InEpochLock, InRuntime
  <2>3. ControlAt(p)'
    BY <1>23, <2>1 DEF UndoFails, TypedWith, ControlAt, LocksHeld, JobFits, FoundHolds,
       DriveSeen, NeedsDrive, HoldsRuntime, InEpochLock, InRuntime
  <2>4. AtMostOneActive'
    BY <1>23, <2>1 DEF UndoFails, Control, ControlAt, LocksHeld, JobFits, FoundHolds,
       DriveSeen, NeedsDrive, HoldsRuntime, InEpochLock, InRuntime, AtMostOneActive
  <2> QED
    BY <2>2, <2>3, <2>4, OwnStep
<1>24. ASSUME NEW p \in Procs, View(p) PROVE Control'
  <2>1. ControlAt(p)
    BY DEF Control
  <2>2. Alone(p)
    BY <1>24, <2>1, BlankFits DEF View, Finish, Alone, TypedWith, ControlAt, LocksHeld,
       JobFits, FoundHolds, DriveSeen, NeedsDrive, HoldsRuntime, InEpochLock, InRuntime
  <2>3. ControlAt(p)'
    BY <1>24, <2>1, BlankFits DEF View, Finish, TypedWith, ControlAt, LocksHeld, JobFits,
       FoundHolds, DriveSeen, NeedsDrive, HoldsRuntime, InEpochLock, InRuntime
  <2>4. AtMostOneActive'
    BY <1>24, <2>1 DEF View, Finish, Control, ControlAt, LocksHeld, JobFits, FoundHolds,
       DriveSeen, NeedsDrive, HoldsRuntime, InEpochLock, InRuntime, AtMostOneActive
  <2> QED
    BY <2>2, <2>3, <2>4, OwnStep
<1>25. ASSUME NEW p \in Procs, Decide(p) PROVE Control'
  <2>1. ControlAt(p)
    BY DEF Control
  <2>2. Alone(p)
    BY <1>25, <2>1 DEF Decide, Alone, TypedWith, ControlAt, LocksHeld, JobFits, FoundHolds,
       DriveSeen, NeedsDrive, HoldsRuntime, InEpochLock, InRuntime
  <2>5. job[p] \in Job
    BY DEF TypedWith
  <2>6. /\ job'[p].op = job[p].op /\ job'[p].e = job[p].e
        /\ job'[p].to = job[p].to /\ job'[p].decision = job[p].decision
    BY <1>25, <2>5 DEF Decide, TypedWith, Job
  <2>7. /\ pc'[p] = "lock" /\ UNCHANGED <<active, completed, lock, brake>>
        /\ pc[p] = "count"
    BY <1>25 DEF Decide, TypedWith
  <2>3. ControlAt(p)'
    BY <1>25, <2>1, <2>6, <2>7 DEF ControlAt, LocksHeld, JobFits, FoundHolds, DriveSeen,
       NeedsDrive, HoldsRuntime, InEpochLock, InRuntime
  <2>4. AtMostOneActive'
    BY <1>25, <2>1 DEF Decide, Control, ControlAt, LocksHeld, JobFits, FoundHolds,
       DriveSeen, NeedsDrive, HoldsRuntime, InEpochLock, InRuntime, AtMostOneActive
  <2> QED
    BY <2>2, <2>3, <2>4, OwnStep
<1>26. ASSUME NEW p \in Procs, CheckLoad(p) PROVE Control'
  <2>1. ControlAt(p)
    BY DEF Control
  <2>2. Alone(p)
    BY <1>26, <2>1 DEF CheckLoad, Loadable, Alone, TypedWith, ControlAt, LocksHeld,
       JobFits, FoundHolds, DriveSeen, NeedsDrive, HoldsRuntime, InEpochLock, InRuntime
  <2>5. job[p] \in Job
    BY DEF TypedWith
  <2>6. /\ job'[p].op = job[p].op /\ job'[p].e = job[p].e
        /\ job'[p].to = job[p].to /\ job'[p].decision = job[p].decision
    BY <1>26, <2>5 DEF CheckLoad, TypedWith, Job
  <2>7. /\ (pc'[p] = "write" /\ DOMAIN active = {job[p].e}) \/ pc'[p] = "release"
        /\ UNCHANGED <<active, completed, lock, brake>>
        /\ pc[p] = "load" /\ job[p].op = "check"
    BY <1>26 DEF CheckLoad, TypedWith, Loadable
  <2>3. ControlAt(p)'
    BY <1>26, <2>1, <2>6, <2>7 DEF ControlAt, LocksHeld, JobFits, FoundHolds, DriveSeen,
       NeedsDrive, HoldsRuntime, InEpochLock, InRuntime
  <2>4. AtMostOneActive'
    BY <1>26, <2>1 DEF CheckLoad, Loadable, Control, ControlAt, LocksHeld, JobFits,
       FoundHolds, DriveSeen, NeedsDrive, HoldsRuntime, InEpochLock, InRuntime,
       AtMostOneActive
  <2> QED
    BY <2>2, <2>3, <2>4, OwnStep
<1>27. ASSUME NEW p \in Procs, ReadRun(p) PROVE Control'
  <2>1. ControlAt(p)
    BY DEF Control
  <2>2. Alone(p)
    BY <1>27, <2>1 DEF ReadRun, Alone, TypedWith, ControlAt, LocksHeld, JobFits,
       FoundHolds, DriveSeen, NeedsDrive, HoldsRuntime, InEpochLock, InRuntime
  <2>5. job[p] \in Job
    BY DEF TypedWith
  <2>6. /\ job'[p].op = job[p].op /\ job'[p].e = job[p].e
        /\ job'[p].to = job[p].to /\ job'[p].decision = job[p].decision
    BY <1>27, <2>5 DEF ReadRun, TypedWith, Job
  <2>7. /\ pc'[p] = "brake" /\ UNCHANGED <<active, completed, lock, brake>>
        /\ pc[p] = "read-run"
    BY <1>27 DEF ReadRun, TypedWith
  <2>3. ControlAt(p)'
    BY <1>27, <2>1, <2>6, <2>7 DEF ControlAt, LocksHeld, JobFits, FoundHolds, DriveSeen,
       NeedsDrive, HoldsRuntime, InEpochLock, InRuntime
  <2>4. AtMostOneActive'
    BY <1>27, <2>1 DEF ReadRun, Control, ControlAt, LocksHeld, JobFits, FoundHolds,
       DriveSeen, NeedsDrive, HoldsRuntime, InEpochLock, InRuntime, AtMostOneActive
  <2> QED
    BY <2>2, <2>3, <2>4, OwnStep
<1>28. ASSUME NEW p \in Procs, CloseoutLoad(p) PROVE Control'
  <2>1. ControlAt(p)
    BY DEF Control
  <2>2. Alone(p)
    BY <1>28, <2>1 DEF CloseoutLoad, Closeable, Loadable, Alone, TypedWith, ControlAt,
       LocksHeld, JobFits, FoundHolds, DriveSeen, NeedsDrive, HoldsRuntime, InEpochLock,
       InRuntime
  <2> DEFINE e == job[p].e
             r == job[p].run
             after == [active[e] EXCEPT !.done = @ \union {RunTask[r]},
                                        !.closeouts = Append(@, r)]
             edited(to, doc) == [job EXCEPT ![p] = [job[p] EXCEPT !.to = to, !.doc = doc]]
  <2>7. \/ Goto(p, "release") /\ UNCHANGED job
        \/ /\ Closeable(e, r, job[p].runWas)
           /\ \/ Goto(p, "terminal") /\ job' = edited("failed", active[e])
              \/ Goto(p, "terminal") /\ job' = edited("completed", after)
              \/ Goto(p, "write") /\ job' = edited("task_completed", after)
    BY <1>28 DEF CloseoutLoad
  <2> HIDE DEF after, Goto
  <2>8. ASSUME NEW to, NEW doc, job' = edited(to, doc)
        PROVE  job'[p].op = job[p].op /\ job'[p].e = job[p].e /\ job'[p].to = to
    BY <2>8, EditedJob DEF TypedWith
  <2> HIDE DEF edited, e, r
  <2>9. pc[p] = "load" /\ job[p].op = "closeout"
    BY <1>28 DEF CloseoutLoad
  <2>5. \/ pc'[p] = "release" /\ UNCHANGED job
        \/ /\ pc'[p] \in {"terminal", "write"} /\ Closeable(e, r, job[p].runWas)
           /\ pc'[p] = "terminal" => job'[p].to \in {"completed", "failed"}
           /\ job'[p].op = "closeout" /\ job'[p].e = job[p].e
    BY <2>7, <2>8, <2>9 DEF Goto, TypedWith
  <2>6. UNCHANGED <<active, completed, lock, brake>>
    BY <1>28 DEF CloseoutLoad
  <2>3. ControlAt(p)'
    BY <2>1, <2>5, <2>6, <2>9 DEF Closeable, Loadable, e, ControlAt, LocksHeld, JobFits,
       FoundHolds, DriveSeen, NeedsDrive, HoldsRuntime, InEpochLock, InRuntime
  <2>4. AtMostOneActive'
    BY <1>28, <2>1 DEF CloseoutLoad, Closeable, Loadable, Control, ControlAt, LocksHeld,
       JobFits, FoundHolds, DriveSeen, NeedsDrive, HoldsRuntime, InEpochLock, InRuntime,
       AtMostOneActive
  <2> QED
    BY <2>2, <2>3, <2>4, OwnStep
<1>29. ASSUME NEW p \in Procs, Rewrite(p) PROVE Control'
  <2>1. ControlAt(p)
    BY DEF Control
  <2>2. Alone(p)
    BY <1>29, <2>1 DEF Rewrite, Put, Alone, TypedWith, ControlAt, LocksHeld, JobFits,
       FoundHolds, DriveSeen, NeedsDrive, HoldsRuntime, InEpochLock, InRuntime
  <2>3. ControlAt(p)'
    BY <1>29, <2>1 DEF Rewrite, Put, TypedWith, ControlAt, LocksHeld, JobFits, FoundHolds,
       DriveSeen, NeedsDrive, HoldsRuntime, InEpochLock, InRuntime
  <2>4. AtMostOneActive'
    BY <1>29, <2>1 DEF Rewrite, Put, Control, ControlAt, LocksHeld, JobFits, FoundHolds,
       DriveSeen, NeedsDrive, HoldsRuntime, InEpochLock, InRuntime, AtMostOneActive
  <2> QED
    BY <2>2, <2>3, <2>4, OwnStep
<1>30. ASSUME NEW p \in Procs, RecordRun(p) PROVE Control'
  <2>1. ControlAt(p)
    BY DEF Control
  <2>2. Alone(p)
    BY <1>30, <2>1 DEF RecordRun, Alone, TypedWith, ControlAt, LocksHeld, JobFits,
       FoundHolds, DriveSeen, NeedsDrive, HoldsRuntime, InEpochLock, InRuntime
  <2>3. ControlAt(p)'
    BY <1>30, <2>1 DEF RecordRun, TypedWith, ControlAt, LocksHeld, JobFits, FoundHolds,
       DriveSeen, NeedsDrive, HoldsRuntime, InEpochLock, InRuntime
  <2>4. AtMostOneActive'
    BY <1>30, <2>1 DEF RecordRun, Control, ControlAt, LocksHeld, JobFits, FoundHolds,
       DriveSeen, NeedsDrive, HoldsRuntime, InEpochLock, InRuntime, AtMostOneActive
  <2> QED
    BY <2>2, <2>3, <2>4, OwnStep
<1>31. ASSUME NEW p \in Procs, AuditAppended(p) PROVE Control'
  <2>1. ControlAt(p)
    BY DEF Control
  <2>2. Alone(p)
    BY <1>31, <2>1, BlankFits DEF AuditAppended, Finish, Alone, TypedWith, ControlAt,
       LocksHeld, JobFits, FoundHolds, DriveSeen, NeedsDrive, HoldsRuntime, InEpochLock,
       InRuntime
  <2>3. ControlAt(p)'
    BY <1>31, <2>1, BlankFits DEF AuditAppended, Finish, TypedWith, ControlAt, LocksHeld,
       JobFits, FoundHolds, DriveSeen, NeedsDrive, HoldsRuntime, InEpochLock, InRuntime
  <2>4. AtMostOneActive'
    BY <1>31, <2>1 DEF AuditAppended, Finish, Control, ControlAt, LocksHeld, JobFits,
       FoundHolds, DriveSeen, NeedsDrive, HoldsRuntime, InEpochLock, InRuntime,
       AtMostOneActive
  <2> QED
    BY <2>2, <2>3, <2>4, OwnStep
<1>32. ASSUME NEW p \in Procs, AuditFails(p) PROVE Control'
  <2>1. ControlAt(p)
    BY DEF Control
  <2>2. Alone(p)
    BY <1>32, <2>1, BlankFits DEF AuditFails, Finish, Alone, TypedWith, ControlAt,
       LocksHeld, JobFits, FoundHolds, DriveSeen, NeedsDrive, HoldsRuntime, InEpochLock,
       InRuntime
  <2>3. ControlAt(p)'
    BY <1>32, <2>1, BlankFits DEF AuditFails, Finish, TypedWith, ControlAt, LocksHeld,
       JobFits, FoundHolds, DriveSeen, NeedsDrive, HoldsRuntime, InEpochLock, InRuntime
  <2>4. AtMostOneActive'
    BY <1>32, <2>1 DEF AuditFails, Finish, Control, ControlAt, LocksHeld, JobFits,
       FoundHolds, DriveSeen, NeedsDrive, HoldsRuntime, InEpochLock, InRuntime,
       AtMostOneActive
  <2> QED
    BY <2>2, <2>3, <2>4, OwnStep
<1>33. ASSUME NEW p \in Procs, Crash(p) PROVE Control'
  <2>1. ControlAt(p)
    BY DEF Control
  <2>2. Alone(p)
    BY <1>33, <2>1, BlankFits, EpochLifecycleAssumption DEF Crash, Locks, Free, Stale,
       Finish, Alone, TypedWith, ControlAt, LocksHeld, JobFits, FoundHolds, DriveSeen,
       NeedsDrive, HoldsRuntime, InEpochLock, InRuntime
  <2>3. ControlAt(p)'
    BY <1>33, <2>1, BlankFits, EpochLifecycleAssumption DEF Crash, Locks, Free, Stale,
       Finish, TypedWith, ControlAt, LocksHeld, JobFits, FoundHolds, DriveSeen, NeedsDrive,
       HoldsRuntime, InEpochLock, InRuntime
  <2>4. AtMostOneActive'
    BY <1>33, <2>1 DEF Crash, Locks, Free, Stale, Finish, Control, ControlAt, LocksHeld,
       JobFits, FoundHolds, DriveSeen, NeedsDrive, HoldsRuntime, InEpochLock, InRuntime,
       AtMostOneActive
  <2> QED
    BY <2>2, <2>3, <2>4, OwnStep
<1>34. ASSUME NEW l \in Locks, ClearStaleLock(l) PROVE Control'
  <2>1. /\ UNCHANGED <<brake, active, completed, pc, job>>
        /\ \A q \in Procs, k \in Locks : lock[k] = q => lock'[k] = q
    BY <1>34, EpochLifecycleAssumption DEF ClearStaleLock, Release, Stale, TypedWith
  <2>2. ASSUME NEW q \in Procs PROVE ControlAt(q)'
    <3>1. ControlAt(q)
      BY DEF Control
    <3>2. LocksHeld(q)'
      BY <2>1, <3>1 DEF ControlAt, LocksHeld, Locks
    <3> QED
      BY <2>1, <3>1, <3>2 DEF ControlAt, JobFits, FoundHolds, DriveSeen, NeedsDrive
  <2> QED
    BY <2>1, <2>2 DEF Control, AtMostOneActive
<1>35. ASSUME NEW e \in Epochs, Age(e) PROVE Control'
  BY <1>35, EpochLifecycleAssumption DEF Age, Control, AtMostOneActive, ControlAt,
     LocksHeld, JobFits, FoundHolds, DriveSeen, NeedsDrive, HoldsRuntime, InEpochLock,
     InRuntime
<1> QED
  BY <1>1, <1>2, <1>3, <1>4, <1>5, <1>6, <1>7, <1>8, <1>9, <1>10, <1>11, <1>12, <1>13,
     <1>14, <1>15, <1>16, <1>17, <1>18, <1>19, <1>20, <1>21, <1>22, <1>23, <1>24, <1>25,
     <1>26, <1>27, <1>28, <1>29, <1>30, <1>31, <1>32, <1>33, <1>34, <1>35
     DEF Next, Invoke, Step

------------------------------------------------------------------------------
(* What a step may do to the records                                        *)

\* The five actions that write or delete a record; the rest leave them alone.
LEMMA Writers ==
  ASSUME [Next]_vars
  PROVE  \/ UNCHANGED <<active, completed, failed>>
         \/ \E p \in Procs : \/ StartWrite(p) \/ Rewrite(p) \/ UnlinkActive(p)
                             \/ WriteTerminal(p) \/ UndoTerminal(p)
<1> DEFINE same == UNCHANGED <<active, completed, failed>>
<1>1. CASE UNCHANGED vars
  BY <1>1 DEF vars
<1>2. ASSUME NEW p \in Procs, Invoke(p) PROVE same
  BY <1>2 DEF Invoke, BeginStart, BeginComplete, BeginFail, BeginBrake, BeginSelfCheck,
              BeginCloseout, Begin, files
<1>3. ASSUME NEW p \in Procs,
             \/ AcquireRuntime(p) \/ AcquireEpochLock(p) \/ ReleaseEpochLock(p)
             \/ ReleaseRuntime(p) \/ SetBrake(p) \/ CheckBrake(p) \/ ObserveBrake(p)
      PROVE  same
  BY <1>3 DEF AcquireRuntime, AcquireEpochLock, Acquire, ReleaseEpochLock, ReleaseRuntime,
              SetBrake, CheckBrake, ObserveBrake, files
<1>4. ASSUME NEW p \in Procs,
             \/ StartLoad(p) \/ CompleteLoad(p) \/ FailLoad(p) \/ CheckLoad(p)
             \/ CloseoutLoad(p) \/ UnlinkFails(p) \/ UndoFails(p)
      PROVE  same
  BY <1>4 DEF StartLoad, CompleteLoad, FailLoad, CheckLoad, CloseoutLoad, UnlinkFails,
              UndoFails, files
<1>5. ASSUME NEW p \in Procs,
             \/ View(p) \/ Decide(p) \/ ReadRun(p) \/ RecordRun(p) \/ AuditAppended(p)
             \/ AuditFails(p) \/ Crash(p)
      PROVE  same
  BY <1>5 DEF View, Decide, ReadRun, RecordRun, AuditAppended, AuditFails, Crash, files
<1>6. ASSUME NEW e \in Epochs, Age(e) PROVE same
  BY <1>6 DEF Age
<1>7. ASSUME NEW l \in Locks, ClearStaleLock(l) PROVE same
  BY <1>7 DEF ClearStaleLock, files
<1> HIDE DEF same
<1>8. CASE Next
  BY <1>2, <1>3, <1>4, <1>5, <1>6, <1>7, <1>8 DEF Next, Step, same
<1> QED
  BY <1>1, <1>8

\* How a process gets between a load and the end of the active record.
LEMMA Arrivals ==
  ASSUME NEW steps, PCs \subseteq steps, TypedWith(steps), [Next]_vars,
         NEW q \in Procs, Rewriting(q)'
  PROVE  \/ pc'[q] = pc[q] /\ job'[q] = job[q]
         \/ /\ DOMAIN active = {job'[q].e} /\ UNCHANGED active
            /\ pc'[q] \in {"write", "terminal"}
         \/ WriteTerminal(q) \/ UnlinkFails(q)
<1> DEFINE Kept == pc'[q] = pc[q] /\ job'[q] = job[q]
           Loaded == /\ DOMAIN active = {job'[q].e} /\ UNCHANGED active
                     /\ pc'[q] \in {"write", "terminal"}
           Here == Kept \/ Loaded \/ WriteTerminal(q) \/ UnlinkFails(q)
<1> SUFFICES Here
  OBVIOUS
<1>0. /\ pc = [p \in Procs |-> pc[p]] /\ job \in [Procs -> Job]
      /\ pc'[q] \in {"write", "terminal", "unlink", "undo"}
      /\ pc'[q] = "write" => job'[q].op # "start"
  BY DEF TypedWith, Rewriting
<1>1. CASE UNCHANGED vars
  BY <1>1 DEF vars
<1>2. ASSUME NEW p \in Procs, Invoke(p) PROVE Kept
  BY <1>0, <1>2 DEF Invoke, BeginStart, BeginComplete, BeginFail, BeginBrake, BeginSelfCheck,
              BeginCloseout, Begin, Goto
<1>3. ASSUME NEW p \in Procs,
             \/ AcquireRuntime(p) \/ AcquireEpochLock(p) \/ ReleaseEpochLock(p)
             \/ ReleaseRuntime(p)
      PROVE  Kept
  BY <1>0, <1>3 DEF AcquireRuntime, AcquireEpochLock, Acquire, ReleaseEpochLock,
                    ReleaseRuntime, Finish, Goto
<1>4. ASSUME NEW p \in Procs, SetBrake(p) \/ CheckBrake(p) \/ ObserveBrake(p)
      PROVE  Kept
  BY <1>0, <1>4 DEF SetBrake, CheckBrake, ObserveBrake, Goto
<1>5. ASSUME NEW p \in Procs, StartLoad(p) \/ StartWrite(p) \/ Rewrite(p) PROVE Kept
  BY <1>0, <1>5 DEF StartLoad, StartWrite, Rewrite, Goto
<1>6. ASSUME NEW p \in Procs, CompleteLoad(p) \/ FailLoad(p) \/ CheckLoad(p)
      PROVE  Kept \/ Loaded
  <2>1. CASE q # p
    BY <1>0, <1>6, <2>1 DEF CompleteLoad, FailLoad, CheckLoad, Goto
  <2>2. CASE q = p
    <3>1. /\ Loadable(job[p].e) /\ UNCHANGED active /\ pc'[p] \in {"write", "terminal"}
          /\ \E d : job' = [job EXCEPT ![p].doc = d]
      BY <1>0, <1>6, <2>2 DEF CompleteLoad, FailLoad, CheckLoad, Goto, files
    <3>2. job'[p].e = job[p].e
      BY <1>0, <3>1 DEF Job
    <3> QED
      BY <2>2, <3>1, <3>2 DEF Loadable
  <2> QED
    BY <2>1, <2>2
<1>7. ASSUME NEW p \in Procs, CloseoutLoad(p) PROVE Kept \/ Loaded
  <2>1. CASE q # p
    BY <1>0, <1>7, <2>1 DEF CloseoutLoad, Goto
  <2>2. CASE q = p
    <3> DEFINE e == job[p].e
               after == [active[e] EXCEPT !.done = @ \union {RunTask[job[p].run]},
                                          !.closeouts = Append(@, job[p].run)]
    <3>1. /\ Loadable(e) /\ UNCHANGED active /\ pc'[p] \in {"write", "terminal"}
          /\ \E to \in {"failed", "completed", "task_completed"}, d \in {active[e], after} :
               job' = [job EXCEPT ![p] = [@ EXCEPT !.to = to, !.doc = d]]
      BY <1>0, <1>7, <2>2 DEF CloseoutLoad, Closeable, Goto, files
    <3> HIDE DEF after
    <3>2. PICK to \in {"failed", "completed", "task_completed"}, d \in {active[e], after} :
            job' = [job EXCEPT ![p] = [job[p] EXCEPT !.to = to, !.doc = d]]
      BY <3>1
    <3>3. job'[p] = [job[p] EXCEPT !.to = to, !.doc = d]
      BY <1>0, <3>2
    <3>4. job'[p].e = e
      BY <1>0, <3>3, EditedJob
    <3> QED
      BY <2>2, <3>1, <3>4 DEF Loadable
  <2> QED
    BY <2>1, <2>2
<1>8. ASSUME NEW p \in Procs,
             \/ WriteTerminal(p) \/ UnlinkActive(p) \/ UnlinkFails(p) \/ UndoTerminal(p)
             \/ UndoFails(p)
      PROVE  Kept \/ WriteTerminal(q) \/ UnlinkFails(q)
  BY <1>0, <1>8 DEF WriteTerminal, UnlinkActive, UnlinkFails, UndoTerminal, UndoFails, Goto
<1>9. ASSUME NEW p \in Procs, View(p) \/ Decide(p) \/ ReadRun(p) PROVE Kept
  BY <1>0, <1>9 DEF View, Decide, ReadRun, Finish, Goto
<1>10. ASSUME NEW p \in Procs, RecordRun(p) \/ AuditAppended(p) \/ AuditFails(p) \/ Crash(p)
       PROVE  Kept
  BY <1>0, <1>10 DEF RecordRun, AuditAppended, AuditFails, Crash, Finish, Goto
<1>11. ASSUME NEW e \in Epochs, Age(e) PROVE Kept
  BY <1>11 DEF Age
<1>12. ASSUME NEW l \in Locks, ClearStaleLock(l) PROVE Kept
  BY <1>12 DEF ClearStaleLock
<1> HIDE DEF Kept, Loaded
<1> QED
  BY <1>1, <1>2, <1>3, <1>4, <1>5, <1>6, <1>7, <1>8, <1>9, <1>10, <1>11, <1>12
     DEF Next, Step

\* The epoch a process is about to rewrite stays where it found it.
LEMMA StillStep ==
  ASSUME IInv, [Next]_vars, NEW q \in Procs
  PROVE  StillActive(q)'
<1>0. TypeOK /\ Control /\ StillActive(q) /\ pc = [p \in Procs |-> pc[p]]
  BY DEF IInv, TypeOK, TypedWith
<1> SUFFICES ASSUME Rewriting(q)' PROVE job'[q].e \in DOMAIN active'
  BY DEF StillActive
<1>1. CASE pc'[q] = pc[q] /\ job'[q] = job[q]
  <2>1. Rewriting(q) /\ lock["active-epoch"] = q
    BY <1>0, <1>1 DEF Rewriting, Control, ControlAt, LocksHeld, InEpochLock
  <2>2. ASSUME NEW p \in Procs, StartWrite(p) \/ Rewrite(p) \/ UnlinkActive(p) PROVE FALSE
    <3>1. lock["active-epoch"] = p
      BY <1>0, <2>2 DEF StartWrite, Rewrite, UnlinkActive, Control, ControlAt, LocksHeld,
                        InEpochLock
    <3> QED
      BY <1>0, <1>1, <2>1, <2>2, <3>1 DEF StartWrite, Rewrite, UnlinkActive, Goto, Rewriting
  <2>3. UNCHANGED active
    BY <2>2, Writers DEF WriteTerminal, UndoTerminal
  <2> QED
    BY <1>0, <1>1, <2>1, <2>3 DEF StillActive
<1>2. CASE DOMAIN active = {job'[q].e} /\ UNCHANGED active
  BY <1>2
<1>3. CASE WriteTerminal(q) \/ UnlinkFails(q)
  BY <1>0, <1>3 DEF WriteTerminal, UnlinkFails, StillActive, Rewriting, files
<1>4. PCs \subseteq PCs /\ TypedWith(PCs)
  BY <1>0 DEF TypeOK
<1> QED
  BY <1>1, <1>2, <1>3, <1>4, Arrivals

\* A terminal record says CONTINUE only if the brake is off when it is written.
LEMMA TerminalOnDrive ==
  ASSUME Control, NEW p \in Procs, WriteTerminal(p)
  PROVE  OnlyOnDrive
<1>1. ControlAt(p) /\ pc[p] = "terminal" /\ UNCHANGED active
  BY DEF WriteTerminal, Control
<1>2. CASE job[p].to = "completed" /\ job[p].op = "complete"
  BY <1>1, <1>2 DEF WriteTerminal, Put, EndOf, ControlAt, DriveSeen, NeedsDrive, OnlyOnDrive
<1>3. CASE job[p].to = "completed" /\ job[p].op # "complete"
  <2>1. job[p].op = "closeout"
    BY <1>1, <1>3 DEF ControlAt, JobFits
  <2> QED
    BY <1>1, <1>3, <2>1 DEF WriteTerminal, Put, EndOf, OnlyOnDrive
<1>4. CASE job[p].to # "completed"
  BY <1>1, <1>4 DEF WriteTerminal, OnlyOnDrive
<1> QED
  BY <1>2, <1>3, <1>4

\* No step starts or continues work while the brake is set.
LEMMA DriveStep ==
  ASSUME IInv, [Next]_vars
  PROVE  OnlyOnDrive
<1>0. TypeOK /\ Control /\ \A p \in Procs : StillActive(p)
  BY DEF IInv
<1>1. CASE UNCHANGED <<active, completed, failed>>
  BY <1>1 DEF OnlyOnDrive
<1>2. ASSUME NEW p \in Procs, StartWrite(p) PROVE OnlyOnDrive
  BY <1>0, <1>2 DEF StartWrite, Control, ControlAt, DriveSeen, NeedsDrive, OnlyOnDrive
<1>3. ASSUME NEW p \in Procs, Rewrite(p) PROVE OnlyOnDrive
  BY <1>0, <1>3 DEF Rewrite, Put, StillActive, Rewriting, OnlyOnDrive
<1>4. ASSUME NEW p \in Procs, UnlinkActive(p) PROVE OnlyOnDrive
  BY <1>4 DEF UnlinkActive, Drop, OnlyOnDrive
<1>5. ASSUME NEW p \in Procs, WriteTerminal(p) PROVE OnlyOnDrive
  BY <1>0, <1>5, TerminalOnDrive
<1>6. ASSUME NEW p \in Procs, UndoTerminal(p) PROVE OnlyOnDrive
  BY <1>6 DEF UndoTerminal, Drop, OnlyOnDrive
<1> QED
  BY <1>1, <1>2, <1>3, <1>4, <1>5, <1>6, Writers

\* No step undoes an ending.
LEMMA ClosedStep ==
  ASSUME IInv, [Next]_vars
  PROVE  ClosedStays
<1>0. Control /\ \A p \in Procs : StillActive(p)
  BY DEF IInv
<1>1. CASE UNCHANGED <<active, completed, failed>>
  BY <1>1 DEF ClosedStays
<1>2. ASSUME NEW p \in Procs, StartWrite(p) PROVE ClosedStays
  BY <1>2 DEF StartWrite, Put, FreshIds, ClosedStays
<1>3. ASSUME NEW p \in Procs, Rewrite(p) PROVE ClosedStays
  BY <1>0, <1>3 DEF Rewrite, Put, StillActive, Rewriting, ClosedStays
<1>4. ASSUME NEW p \in Procs, UnlinkActive(p) PROVE ClosedStays
  BY <1>4 DEF UnlinkActive, Drop, ClosedStays
<1>5. ASSUME NEW p \in Procs, WriteTerminal(p) PROVE ClosedStays
  BY <1>0, <1>5 DEF WriteTerminal, Put, Control, ControlAt, FoundHolds, StillActive, Rewriting,
                    ClosedStays
<1>6. ASSUME NEW p \in Procs, UndoTerminal(p) PROVE ClosedStays
  BY <1>0, <1>6 DEF UndoTerminal, Drop, StillActive, Rewriting, ClosedStays
<1> QED
  BY <1>1, <1>2, <1>3, <1>4, <1>5, <1>6, Writers

------------------------------------------------------------------------------
(* Theorems                                                                 *)

\* The invariant holds at the start, when every process is idle.
LEMMA Initially == Init => IInv
<1> SUFFICES ASSUME Init PROVE IInv
  OBVIOUS
<1>1. TypeOK
  BY BlankTypes, EpochLifecycleAssumption
     DEF Init, TypeOK, TypedWith, Directory, NoFiles, BrakeStatuses, RunStatuses, PCs, Free
<1>2. Control
  BY BlankFits DEF Init, Control, AtMostOneActive, ControlAt, LocksHeld, JobFits, FoundHolds,
                   DriveSeen, NoFiles, InEpochLock, InRuntime
<1>3. \A p \in Procs : StillActive(p)
  BY DEF Init, StillActive, Rewriting
<1> QED
  BY <1>1, <1>2, <1>3 DEF IInv

\* The invariant is inductive.
LEMMA Inductive == IInv /\ [Next]_vars => IInv'
<1> SUFFICES ASSUME IInv, [Next]_vars PROVE IInv'
  OBVIOUS
<1>1. PCs \subseteq PCs /\ TypedWith(PCs) /\ Control
  BY DEF IInv, TypeOK
<1>2. TypeOK' /\ Control'
  BY <1>1, TypeStep, ControlStep DEF TypeOK
<1> QED
  BY <1>2, StillStep DEF IInv

\* Every file and every process holds what its type says, in every reachable
\* state, for any number of commands in flight and any faults.
THEOREM TypeCorrect == Spec => []TypeOK
<1>1. IInv => TypeOK
  BY DEF IInv
<1> QED
  BY <1>1, Initially, Inductive, PTL DEF Spec

\* However many commands race, fail in the middle or die, at most one epoch
\* is active (start_epoch under active-epoch.lock).
THEOREM OneActive == Spec => []AtMostOneActive
<1>1. IInv => AtMostOneActive
  BY DEF IInv, Control
<1> QED
  BY <1>1, Initially, Inductive, PTL DEF Spec

\* An epoch is started, or ended with CONTINUE, only while the brake is DRIVE:
\* runtime.lock covers the look at the brake and the write.
THEOREM DriveGoverned == Spec => DriveGoverns
<1>1. IInv /\ [Next]_vars => [OnlyOnDrive]_vars
  BY DriveStep
<1> QED
  BY <1>1, Initially, Inductive, PTL DEF Spec, DriveGoverns

\* A terminal record is never replaced, and goes only while its epoch is still
\* active (write_terminal_epoch's undo); a closed epoch is never active again.
THEOREM ClosedForGood == Spec => TerminalFrozen
<1>1. IInv /\ [Next]_vars => [ClosedStays]_vars
  BY ClosedStep
<1> QED
  BY <1>1, Initially, Inductive, PTL DEF Spec, TerminalFrozen

------------------------------------------------------------------------------
(* No command undoes the progress another one recorded: what is about to   *)
(* be written to an epoch extends what is there.  The history of ended     *)
(* epochs never has more CONTINUE in a row than the policy allows.  And as *)
(* long as the undo of a terminal record works and no process dies between *)
(* its two writes, an epoch ends one way, and the epoch commands implement *)
(* the atomic registry.                                                    *)

\* A document keeps the progress of an epoch it was made from.
Extends(doc, old) ==
  /\ old.done \subseteq doc.done
  /\ IsPrefix(old.closeouts, doc.closeouts)
  /\ doc.closeouts = old.closeouts \/ doc.check = old.check

\* What a process holds extends the active record until it is written.
DocFresh(p) ==
  pc[p] \in {"write", "terminal"} /\ job[p].op # "start" => Extends(job[p].doc, active[job[p].e])

Fresh == \A p \in Procs : DocFresh(p)
PInv  == IInv /\ Fresh

\* A sequence is a prefix of itself, and of what an append makes of it.
LEMMA PrefixOfSelf ==
  ASSUME NEW S, NEW s \in Seq(S)
  PROVE  IsPrefix(s, s)
  BY DEF IsPrefix

LEMMA PrefixOfAppend ==
  ASSUME NEW S, NEW s \in Seq(S), NEW x \in S
  PROVE  IsPrefix(s, Append(s, x))
<1>1. Append(s, x) \in Seq(S) /\ Len(Append(s, x)) = Len(s) + 1 /\ Len(s) \in Nat
  OBVIOUS
<1>2. \A i \in 1..Len(s) : Append(s, x)[i] = s[i]
  OBVIOUS
<1>3. SubSeq(s, 1, Len(s)) = SubSeq(Append(s, x), 1, Len(s))
  BY <1>1, <1>2
<1> QED
  BY <1>1, <1>3 DEF IsPrefix

\* A document that is loaded, or loaded and given a self-check, keeps the progress.
LEMMA SelfExtends ==
  ASSUME NEW d \in EpochDoc, NEW c
  PROVE  Extends(d, d) /\ Extends([d EXCEPT !.check = c], d)
  BY PrefixOfSelf DEF Extends, EpochDoc

\* One that is closed out for a run keeps it too.
LEMMA ClosedOutExtends ==
  ASSUME NEW d \in EpochDoc, NEW r \in Runs
  PROVE  Extends([d EXCEPT !.done = @ \union {RunTask[r]}, !.closeouts = Append(@, r)], d)
  BY PrefixOfAppend DEF Extends, EpochDoc

------------------------------------------------------------------------------
(* The invariant                                                            *)

\* A process arrives at a write only by a load, which makes its document from
\* the active record.
LEMMA Loads ==
  ASSUME PInv, [Next]_vars, NEW q \in Procs,
         pc'[q] \in {"write", "terminal"}, job'[q].op # "start"
  PROVE  \/ pc'[q] = pc[q] /\ job'[q] = job[q]
         \/ Extends(job'[q].doc, active[job'[q].e]) /\ UNCHANGED active /\ job'[q].e \in DOMAIN active
<1> DEFINE Kept   == pc'[q] = pc[q] /\ job'[q] = job[q]
           Loaded == Extends(job'[q].doc, active[job'[q].e]) /\ UNCHANGED active
                     /\ job'[q].e \in DOMAIN active
<1> SUFFICES Kept \/ Loaded
  OBVIOUS
<1>0. TypeOK /\ Control /\ pc \in [Procs -> PCs] /\ job \in [Procs -> Job]
  BY DEF PInv, IInv, TypeOK, TypedWith
<1>1. CASE UNCHANGED vars
  BY <1>1 DEF vars
<1>2. ASSUME NEW p \in Procs, Invoke(p) PROVE Kept
  BY <1>0, <1>2 DEF Invoke, BeginStart, BeginComplete, BeginFail, BeginBrake, BeginSelfCheck,
              BeginCloseout, Begin, Goto
<1>3. ASSUME NEW p \in Procs,
             \/ AcquireRuntime(p) \/ AcquireEpochLock(p) \/ ReleaseEpochLock(p)
             \/ ReleaseRuntime(p)
      PROVE  Kept
  BY <1>0, <1>3 DEF AcquireRuntime, AcquireEpochLock, Acquire, ReleaseEpochLock,
                    ReleaseRuntime, Finish, Goto, NoJob
<1>4. ASSUME NEW p \in Procs, SetBrake(p) \/ CheckBrake(p) \/ ObserveBrake(p)
      PROVE  Kept
  BY <1>0, <1>4 DEF SetBrake, CheckBrake, ObserveBrake, Goto
<1>5. ASSUME NEW p \in Procs, StartLoad(p) \/ StartWrite(p) PROVE Kept
  BY <1>0, <1>5 DEF StartLoad, StartWrite, Goto
<1>6. ASSUME NEW p \in Procs, CompleteLoad(p) \/ FailLoad(p) PROVE Kept \/ Loaded
  <2>1. CASE q # p
    BY <1>0, <1>6, <2>1 DEF CompleteLoad, FailLoad, Goto
  <2>2. CASE q = p
    <3>1. /\ job' = [job EXCEPT ![p].doc = active[job[p].e]]
          /\ Loadable(job[p].e) /\ UNCHANGED active
      BY <1>0, <1>6, <2>2 DEF CompleteLoad, FailLoad, Goto, files
    <3>2. active[job[p].e] \in EpochDoc /\ job[p].e \in DOMAIN active
      BY <1>0, <3>1 DEF Loadable, TypeOK, TypedWith, Directory
    <3>3. job'[p].doc = active[job[p].e] /\ job'[p].e = job[p].e
      BY <1>0, <3>1 DEF Job
    <3> QED
      BY <2>2, <3>1, <3>2, <3>3, SelfExtends
  <2> QED
    BY <2>1, <2>2
<1>7. ASSUME NEW p \in Procs, CheckLoad(p) PROVE Kept \/ Loaded
  <2>1. CASE q # p
    BY <1>0, <1>7, <2>1 DEF CheckLoad, Goto
  <2>2. CASE q = p
    <3>1. /\ job' = [job EXCEPT ![p].doc = [active[job[p].e] EXCEPT !.check = job[p].check]]
          /\ Loadable(job[p].e) /\ UNCHANGED active
      BY <1>0, <1>7, <2>2 DEF CheckLoad, Goto, files
    <3>2. active[job[p].e] \in EpochDoc /\ job[p].e \in DOMAIN active
      BY <1>0, <3>1 DEF Loadable, TypeOK, TypedWith, Directory
    <3>3. job'[p].doc = [active[job[p].e] EXCEPT !.check = job[p].check]
          /\ job'[p].e = job[p].e
      BY <1>0, <3>1 DEF Job
    <3> QED
      BY <2>2, <3>1, <3>2, <3>3, SelfExtends
  <2> QED
    BY <2>1, <2>2
<1>8. ASSUME NEW p \in Procs, CloseoutLoad(p) PROVE Kept \/ Loaded
  <2>1. CASE q # p
    BY <1>0, <1>8, <2>1 DEF CloseoutLoad, Goto
  <2>2. CASE q = p
    <3> DEFINE e == job[p].e
               r == job[p].run
               after == [active[e] EXCEPT !.done = @ \union {RunTask[r]},
                                          !.closeouts = Append(@, r)]
    <3>1. /\ Closeable(e, r, job[p].runWas) /\ UNCHANGED active
          /\ \E to \in {"failed", "completed", "task_completed"}, d \in {active[e], after} :
               job' = [job EXCEPT ![p] = [@ EXCEPT !.to = to, !.doc = d]]
      BY <1>0, <1>8, <2>2 DEF CloseoutLoad, Goto, files
    <3>2. active[e] \in EpochDoc /\ e \in DOMAIN active /\ r \in Runs
      BY <1>0, <3>1 DEF Closeable, Loadable, TypeOK, TypedWith, Directory, Job
    <3>3. Extends(active[e], active[e]) /\ Extends(after, active[e])
      BY <3>2, SelfExtends, ClosedOutExtends
    <3> HIDE DEF after
    <3>4. PICK to \in {"failed", "completed", "task_completed"}, d \in {active[e], after} :
            job' = [job EXCEPT ![p] = [job[p] EXCEPT !.to = to, !.doc = d]]
      BY <3>1
    <3>5. job'[p] = [job[p] EXCEPT !.to = to, !.doc = d]
      BY <1>0, <3>4
    <3>6. job'[p].doc = d /\ job'[p].e = e
      BY <1>0, <3>5 DEF Job
    <3> QED
      BY <2>2, <3>1, <3>2, <3>3, <3>6
  <2> QED
    BY <2>1, <2>2
<1>9. ASSUME NEW p \in Procs,
             \/ WriteTerminal(p) \/ UnlinkActive(p) \/ UnlinkFails(p) \/ UndoTerminal(p)
             \/ UndoFails(p) \/ Rewrite(p)
      PROVE  Kept
  BY <1>0, <1>9 DEF WriteTerminal, UnlinkActive, UnlinkFails, UndoTerminal, UndoFails, Rewrite,
                    Goto
<1>10. ASSUME NEW p \in Procs, View(p) \/ Decide(p) \/ ReadRun(p) PROVE Kept
  BY <1>0, <1>10 DEF View, Decide, ReadRun, Finish, Goto
<1>11. ASSUME NEW p \in Procs, RecordRun(p) \/ AuditAppended(p) \/ AuditFails(p) \/ Crash(p)
       PROVE  Kept
  BY <1>0, <1>11 DEF RecordRun, AuditAppended, AuditFails, Crash, Finish, Goto
<1>12. ASSUME NEW e \in Epochs, Age(e) PROVE Kept
  BY <1>12 DEF Age
<1>13. ASSUME NEW l \in Locks, ClearStaleLock(l) PROVE Kept
  BY <1>13 DEF ClearStaleLock
<1> HIDE DEF Kept, Loaded
<1> QED
  BY <1>1, <1>2, <1>3, <1>4, <1>5, <1>6, <1>7, <1>8, <1>9, <1>10, <1>11, <1>12, <1>13
     DEF Next, Step

\* The active record changes only in the hands of the one process that holds
\* its lock, and that process is then past its write.
LEMMA OneWriter ==
  ASSUME PInv, [Next]_vars, NEW q \in Procs,
         pc'[q] \in {"write", "terminal"}, pc'[q] = pc[q]
  PROVE  UNCHANGED active
<1>0. Control /\ LocksHeld(q) /\ pc \in [Procs -> PCs]
  BY DEF PInv, IInv, TypeOK, TypedWith, Control, ControlAt
<1>1. ASSUME NEW p \in Procs,
             \/ StartWrite(p) \/ Rewrite(p) \/ UnlinkActive(p)
             \/ WriteTerminal(p) \/ UndoTerminal(p)
      PROVE  UNCHANGED active
  <2>1. pc[p] \in {"write", "unlink", "terminal", "undo"}
    BY <1>1 DEF StartWrite, Rewrite, UnlinkActive, WriteTerminal, UndoTerminal
  <2>2. lock["active-epoch"] = p /\ lock["active-epoch"] = q
    BY <1>0, <2>1 DEF Control, ControlAt, LocksHeld, InEpochLock
  <2>3. pc'[p] \in {"release", "unlink"}
    BY <1>0, <1>1 DEF StartWrite, Rewrite, UnlinkActive, WriteTerminal, UndoTerminal, Goto
  <2> QED
    BY <2>2, <2>3
<1> QED
  BY <1>1, Writers

\* A document that waits to be written stays ahead of the active record.
LEMMA FreshStep ==
  ASSUME PInv, [Next]_vars
  PROVE  Fresh'
<1> SUFFICES ASSUME NEW q \in Procs, pc'[q] \in {"write", "terminal"}, job'[q].op # "start"
             PROVE  Extends(job'[q].doc, active'[job'[q].e])
  BY DEF Fresh, DocFresh, Extends
<1>1. CASE pc'[q] = pc[q] /\ job'[q] = job[q]
  BY <1>1, OneWriter DEF PInv, Fresh, DocFresh
<1>2. CASE Extends(job'[q].doc, active[job'[q].e]) /\ UNCHANGED active
  BY <1>2
<1> QED
  BY <1>1, <1>2, Loads

------------------------------------------------------------------------------
(* The theorem                                                              *)

\* Whatever is written keeps the progress that was there.
LEMMA KeepStep ==
  ASSUME PInv, [Next]_vars
  PROVE  ProgressKept
<1>0. TypeOK /\ Control /\ Fresh
  BY DEF PInv, IInv
<1>1. ASSUME NEW e \in DOMAIN active PROVE Extends(active[e], active[e])
  BY <1>0, SelfExtends DEF TypeOK, TypedWith, Directory
<1>2. CASE UNCHANGED <<active, completed, failed>>
  BY <1>1, <1>2 DEF ProgressKept, Extends
<1>3. ASSUME NEW p \in Procs, StartWrite(p) PROVE ProgressKept
  <2>1. DOMAIN active = {} /\ UNCHANGED completed
    BY <1>0, <1>3 DEF StartWrite, Control, ControlAt, FoundHolds
  <2> QED
    BY <2>1 DEF ProgressKept
<1>4. ASSUME NEW p \in Procs, Rewrite(p) PROVE ProgressKept
  <2>1. /\ active' = Put(active, job[p].e, job[p].doc) /\ UNCHANGED completed
        /\ Extends(job[p].doc, active[job[p].e])
    BY <1>0, <1>4 DEF Rewrite, Fresh, DocFresh
  <2>2. ASSUME NEW e \in DOMAIN active PROVE Extends(active'[e], active[e])
    BY <1>1, <2>1 DEF Put
  <2> QED
    BY <2>1, <2>2 DEF ProgressKept, Extends
<1>5. ASSUME NEW p \in Procs, UnlinkActive(p) PROVE ProgressKept
  <2>1. ASSUME NEW e \in DOMAIN active' PROVE e \in DOMAIN active /\ active'[e] = active[e]
    BY <1>5 DEF UnlinkActive, Drop
  <2> QED
    BY <1>1, <1>5, <2>1 DEF ProgressKept, Extends, UnlinkActive
<1>6. ASSUME NEW p \in Procs, WriteTerminal(p) PROVE ProgressKept
  <2>1. Extends(job[p].doc, active[job[p].e]) /\ UNCHANGED active
    BY <1>0, <1>6 DEF WriteTerminal, Fresh, DocFresh, Control, ControlAt, JobFits
  <2>2. ASSUME NEW e \in DOMAIN completed' \ DOMAIN completed
        PROVE  e = job[p].e /\ completed'[e].done = job[p].doc.done
    BY <1>6 DEF WriteTerminal, Put, EndOf
  <2> QED
    BY <1>1, <2>1, <2>2 DEF ProgressKept, Extends
<1>7. ASSUME NEW p \in Procs, UndoTerminal(p) PROVE ProgressKept
  <2>1. UNCHANGED active /\ DOMAIN completed' \subseteq DOMAIN completed
    BY <1>7 DEF UndoTerminal, Drop
  <2> QED
    BY <1>1, <2>1 DEF ProgressKept, Extends
<1> QED
  BY <1>2, <1>3, <1>4, <1>5, <1>6, <1>7, Writers

\* A self-check that is recorded, or an epoch that is closed, keeps every task
\* done and every closeout another command recorded, whatever the two race on:
\* record_self_check and the closeout read and write under active-epoch.lock.
THEOREM NothingLost == Spec => NoLostUpdate
<1>1. Init => PInv
  BY Initially DEF PInv, Fresh, DocFresh, Init
<1>2. PInv /\ [Next]_vars => PInv'
  BY Inductive, FreshStep DEF PInv
<1>3. PInv /\ [Next]_vars => [ProgressKept]_vars
  BY KeepStep
<1> QED
  BY <1>1, <1>2, <1>3, PTL DEF Spec, NoLostUpdate

------------------------------------------------------------------------------
(* The budget of CONTINUE                                                   *)

\* A history: stamps tell its records apart, and the newest has their number.
Stamped(dir) ==
  /\ DOMAIN dir \subseteq Epochs
  /\ \A e \in DOMAIN dir : dir[e].stamp \in Nat /\ dir[e].stamp <= Cardinality(DOMAIN dir)
  /\ \A e, f \in DOMAIN dir : dir[e].stamp = dir[f].stamp => e = f

\* ContinueBounded, of any history.
Stretch(dir, e) ==
  {f \in DOMAIN dir :
     /\ dir[f].stamp <= dir[e].stamp
     /\ \A g \in DOMAIN dir :
          dir[g].stamp \in dir[f].stamp..dir[e].stamp => dir[g].decision = "CONTINUE"}
Bounded(dir) == \A e \in DOMAIN dir : Cardinality(Stretch(dir, e)) <= Policy.maxEpochs

\* A new last record continues no stretch, or one within the budget.
LEMMA HistoryAdds ==
  ASSUME NEW dir, Stamped(dir), Bounded(dir), NEW e \in Epochs, e \notin DOMAIN dir, NEW end,
         end.stamp = Cardinality(DOMAIN dir) + 1,
         end.decision = "CONTINUE" => ContinueCount(dir) < Policy.maxEpochs
  PROVE  LET new == Put(dir, e, end)
         IN  /\ Stamped(new) /\ Bounded(new)
             /\ e \in DOMAIN new /\ new[e].stamp = Cardinality(DOMAIN new)
<1> DEFINE n    == Cardinality(DOMAIN dir)
           new  == Put(dir, e, end)
           last == {f \in DOMAIN dir :
                      /\ dir[f].decision = "CONTINUE"
                      /\ \A g \in DOMAIN dir : dir[g].decision # "CONTINUE" => dir[g].stamp < dir[f].stamp}
<1>1. /\ IsFiniteSet(DOMAIN dir) /\ n \in Nat
      /\ DOMAIN new = DOMAIN dir \union {e} /\ Cardinality(DOMAIN new) = n + 1
  BY EpochLifecycleAssumption, FS_Subset, FS_CardinalityType, FS_AddElement DEF Stamped, Put
<1>2. new[e] = end /\ \A f \in DOMAIN dir : new[f] = dir[f]
  BY DEF Put
<1>3. \A f \in DOMAIN dir : dir[f].stamp \in Nat /\ dir[f].stamp <= n
  BY DEF Stamped
<1>4. last \subseteq DOMAIN dir /\ ContinueCount(dir) = Cardinality(last)
  BY DEF ContinueCount
<1> HIDE DEF n, new, last
<1>5. Stamped(new)
  BY <1>1, <1>2, <1>3 DEF Stamped, n
<1>6. ASSUME NEW f \in DOMAIN dir PROVE Stretch(new, f) = Stretch(dir, f)
  <2>1. \A g \in DOMAIN new : new[g].stamp <= dir[f].stamp => g \in DOMAIN dir
    BY <1>1, <1>2, <1>3 DEF n
  <2>2. \A h \in DOMAIN dir : dir[h].stamp \in Nat
    BY <1>3
  <2> QED
    BY <1>1, <1>2, <2>1, <2>2 DEF Stretch
<1>7. Cardinality(Stretch(new, e)) <= Policy.maxEpochs
  <2>1. CASE end.decision # "CONTINUE"
    <3>1. Stretch(new, e) = {}
      BY <1>1, <1>2, <1>3, <2>1 DEF Stretch, n
    <3> QED
      BY <3>1, FS_EmptySet, PolicyAssumption
  <2>2. CASE end.decision = "CONTINUE"
    <3>1. ASSUME NEW f \in Stretch(new, e), f # e PROVE f \in last
      <4>1. /\ f \in DOMAIN dir /\ dir[f].stamp \in Nat
            /\ \A g \in DOMAIN dir : dir[g].stamp \in dir[f].stamp..(n + 1) => dir[g].decision = "CONTINUE"
        BY <1>1, <1>2, <1>3, <3>1 DEF Stretch, n
      <4>2. \A g \in DOMAIN dir : dir[g].stamp \in dir[f].stamp..(n + 1) <=> ~(dir[g].stamp < dir[f].stamp)
        BY <1>1, <1>3, <4>1
      <4>3. dir[f].decision = "CONTINUE"
        BY <4>1, <4>2
      <4> QED
        BY <4>1, <4>2, <4>3 DEF last
    <3>2. Stretch(new, e) \subseteq last \union {e}
      BY <3>1
    <3>3. IsFiniteSet(last) /\ Cardinality(last) \in Nat /\ e \notin last
      BY <1>1, <1>4, FS_Subset, FS_CardinalityType
    <3>4. IsFiniteSet(last \union {e}) /\ Cardinality(last \union {e}) = Cardinality(last) + 1
      BY <3>3, FS_AddElement
    <3>5. /\ Cardinality(Stretch(new, e)) <= Cardinality(last \union {e})
          /\ Cardinality(Stretch(new, e)) \in Nat
      BY <3>2, <3>4, FS_Subset, FS_CardinalityType
    <3> QED
      BY <1>4, <2>2, <3>3, <3>4, <3>5, PolicyAssumption
  <2> QED
    BY <2>1, <2>2
<1>8. Bounded(new)
  BY <1>1, <1>6, <1>7 DEF Bounded
<1>9. e \in DOMAIN new /\ new[e].stamp = Cardinality(DOMAIN new)
  BY <1>1, <1>2 DEF n
<1> QED
  BY <1>5, <1>8, <1>9 DEF new

\* Deleting the last record leaves the others' stretches as they are.
LEMMA HistoryDrops ==
  ASSUME NEW dir, Stamped(dir), Bounded(dir), NEW e \in DOMAIN dir,
         dir[e].stamp = Cardinality(DOMAIN dir)
  PROVE  Stamped(Drop(dir, e)) /\ Bounded(Drop(dir, e))
<1> DEFINE n    == Cardinality(DOMAIN dir)
           less == Drop(dir, e)
<1>1. /\ IsFiniteSet(DOMAIN dir) /\ n \in Nat
      /\ DOMAIN less = DOMAIN dir \ {e} /\ Cardinality(DOMAIN less) = n - 1
  BY EpochLifecycleAssumption, FS_Subset, FS_CardinalityType, FS_RemoveElement DEF Stamped, Drop
<1>2. \A f \in DOMAIN less : less[f] = dir[f]
  BY DEF Drop
<1>3. \A f \in DOMAIN less : f \in DOMAIN dir /\ dir[f].stamp \in Nat /\ dir[f].stamp <= n /\ dir[f].stamp # n
  BY <1>1 DEF Stamped
<1> HIDE DEF n, less
<1>4. Stamped(less)
  BY <1>1, <1>2, <1>3 DEF Stamped
<1>5. ASSUME NEW f \in DOMAIN less PROVE Stretch(less, f) = Stretch(dir, f)
  <2>1. \A g \in DOMAIN dir : dir[g].stamp \in Nat /\ (dir[g].stamp <= dir[f].stamp => g \in DOMAIN less)
    BY <1>1, <1>3 DEF Stamped, n
  <2> QED
    BY <1>1, <1>2, <1>3, <2>1 DEF Stretch
<1>6. Bounded(less)
  BY <1>1, <1>5 DEF Bounded
<1> QED
  BY <1>4, <1>6 DEF less

\* What a process that ends an epoch knows of the history: that a CONTINUE fits
\* the budget, and that what it has written is the last record.
Affordable(p) ==
  pc[p] = "terminal" /\ job[p].op = "complete" /\ job[p].decision = "CONTINUE"
    => ContinueCount(completed) < Policy.maxEpochs
LastRecord(p) ==
  pc[p] \in {"unlink", "undo"} /\ job[p].to = "completed" =>
    /\ job[p].e \in DOMAIN completed
    /\ completed[job[p].e].stamp = Cardinality(DOMAIN completed)

BInv ==
  /\ IInv /\ Stamped(completed) /\ ContinueBounded
  /\ \A p \in Procs : Affordable(p) /\ LastRecord(p)

\* A process is about to write a terminal record only once it has loaded.
LEMMA Decides ==
  ASSUME TypeOK, [Next]_vars, NEW q \in Procs, pc'[q] = "terminal"
  PROVE  \/ pc'[q] = pc[q] /\ job'[q] = job[q]
         \/ CompleteLoad(q) \/ FailLoad(q) \/ CloseoutLoad(q)
<1> DEFINE Kept == pc'[q] = pc[q] /\ job'[q] = job[q]
           Here == Kept \/ CompleteLoad(q) \/ FailLoad(q) \/ CloseoutLoad(q)
<1> SUFFICES Here
  OBVIOUS
<1>0. pc \in [Procs -> PCs] /\ job \in [Procs -> Job]
  BY DEF TypeOK, TypedWith
<1>1. CASE UNCHANGED vars
  BY <1>1 DEF vars
<1>2. ASSUME NEW p \in Procs, Invoke(p) PROVE Kept
  BY <1>0, <1>2 DEF Invoke, BeginStart, BeginComplete, BeginFail, BeginBrake, BeginSelfCheck,
              BeginCloseout, Begin, Goto
<1>3. ASSUME NEW p \in Procs,
             \/ AcquireRuntime(p) \/ AcquireEpochLock(p) \/ ReleaseEpochLock(p)
             \/ ReleaseRuntime(p)
      PROVE  Kept
  BY <1>0, <1>3 DEF AcquireRuntime, AcquireEpochLock, Acquire, ReleaseEpochLock,
                    ReleaseRuntime, Finish, Goto
<1>4. ASSUME NEW p \in Procs, SetBrake(p) \/ CheckBrake(p) \/ ObserveBrake(p) PROVE Kept
  BY <1>0, <1>4 DEF SetBrake, CheckBrake, ObserveBrake, Goto
<1>5. ASSUME NEW p \in Procs, StartLoad(p) \/ StartWrite(p) \/ CheckLoad(p) \/ Rewrite(p)
      PROVE  Kept
  BY <1>0, <1>5 DEF StartLoad, StartWrite, CheckLoad, Rewrite, Goto
<1>6. ASSUME NEW p \in Procs, CompleteLoad(p) \/ FailLoad(p) \/ CloseoutLoad(p) PROVE Here
  BY <1>0, <1>6 DEF CompleteLoad, FailLoad, CloseoutLoad, Goto
<1>7. ASSUME NEW p \in Procs,
             \/ WriteTerminal(p) \/ UnlinkActive(p) \/ UnlinkFails(p) \/ UndoTerminal(p)
             \/ UndoFails(p)
      PROVE  Kept
  BY <1>0, <1>7 DEF WriteTerminal, UnlinkActive, UnlinkFails, UndoTerminal, UndoFails, Goto
<1>8. ASSUME NEW p \in Procs, View(p) \/ Decide(p) \/ ReadRun(p) PROVE Kept
  BY <1>0, <1>8 DEF View, Decide, ReadRun, Finish, Goto
<1>9. ASSUME NEW p \in Procs, RecordRun(p) \/ AuditAppended(p) \/ AuditFails(p) \/ Crash(p)
      PROVE  Kept
  BY <1>0, <1>9 DEF RecordRun, AuditAppended, AuditFails, Crash, Finish, Goto
<1>10. ASSUME NEW e \in Epochs, Age(e) PROVE Kept
  BY <1>10 DEF Age
<1>11. ASSUME NEW l \in Locks, ClearStaleLock(l) PROVE Kept
  BY <1>11 DEF ClearStaleLock
<1> HIDE DEF Kept
<1> QED
  BY <1>1, <1>2, <1>3, <1>4, <1>5, <1>6, <1>7, <1>8, <1>9, <1>10, <1>11 DEF Next, Step

\* The history changes only in the hands of who ends an epoch, one at a time.
LEMMA HistoryKept ==
  ASSUME TypeOK, Control, [Next]_vars, NEW q \in Procs, pc[q] \in {"terminal", "unlink", "undo"},
         pc'[q] = pc[q]
  PROVE  UNCHANGED completed
<1>1. ASSUME NEW p \in Procs, WriteTerminal(p) \/ UndoTerminal(p) PROVE FALSE
  <2>1. lock["active-epoch"] = p /\ lock["active-epoch"] = q
    BY <1>1 DEF WriteTerminal, UndoTerminal, Control, ControlAt, LocksHeld, InEpochLock
  <2>2. pc'[p] # pc[p]
    BY <1>1 DEF WriteTerminal, UndoTerminal, Goto, TypeOK, TypedWith
  <2> QED
    BY <2>1, <2>2
<1>2. ASSUME NEW p \in Procs, StartWrite(p) \/ Rewrite(p) \/ UnlinkActive(p)
      PROVE  UNCHANGED completed
  BY <1>2 DEF StartWrite, Rewrite, UnlinkActive
<1> QED
  BY <1>1, <1>2, Writers

\* A terminal record is the next one, and within the budget.
LEMMA WritesLast ==
  ASSUME BInv, NEW p \in Procs, WriteTerminal(p), job[p].to = "completed"
  PROVE  /\ Stamped(completed') /\ Bounded(completed')
         /\ job[p].e \in DOMAIN completed'
         /\ completed'[job[p].e].stamp = Cardinality(DOMAIN completed')
<1> DEFINE e == job[p].e
           end == EndOf(job[p])
<1>1. /\ completed' = Put(completed, e, end) /\ pc[p] = "terminal"
  BY DEF WriteTerminal
<1>2. e \in Epochs /\ e \notin DOMAIN completed /\ job[p].op \in {"complete", "fail", "closeout"}
  BY <1>1 DEF BInv, IInv, Control, ControlAt, JobFits, FoundHolds
<1>3. job[p].op # "fail"
  BY <1>1 DEF BInv, IInv, Control, ControlAt, JobFits
<1>4. end.stamp = Cardinality(DOMAIN completed) + 1
  BY DEF EndOf
<1>5. end.decision = "CONTINUE" => ContinueCount(completed) < Policy.maxEpochs
  BY <1>1, <1>2, <1>3 DEF EndOf, BInv, Affordable
<1>6. Stamped(completed) /\ Bounded(completed)
  BY DEF BInv, ContinueBounded, Bounded, Stretch, StretchUpTo, Continues
<1> HIDE DEF e, end
<1>7. /\ Stamped(Put(completed, e, end)) /\ Bounded(Put(completed, e, end))
      /\ e \in DOMAIN Put(completed, e, end)
      /\ Put(completed, e, end)[e].stamp = Cardinality(DOMAIN Put(completed, e, end))
  BY <1>2, <1>4, <1>5, <1>6, HistoryAdds
<1> QED
  BY <1>1, <1>7 DEF e

\* The history stays bounded, whatever is added or taken back.
LEMMA HistoryStep ==
  ASSUME BInv, [Next]_vars
  PROVE  Stamped(completed') /\ ContinueBounded'
<1>1. Stamped(completed) /\ Bounded(completed)
  BY DEF BInv, ContinueBounded, Bounded, Stretch, StretchUpTo, Continues
<1> SUFFICES Stamped(completed') /\ Bounded(completed')
  BY DEF ContinueBounded, Bounded, Stretch, StretchUpTo, Continues
<1>2. CASE UNCHANGED completed
  BY <1>1, <1>2
<1>3. ASSUME NEW p \in Procs, WriteTerminal(p) PROVE Stamped(completed') /\ Bounded(completed')
  BY <1>2, <1>3, WritesLast DEF WriteTerminal
<1>4. ASSUME NEW p \in Procs, UndoTerminal(p) PROVE Stamped(completed') /\ Bounded(completed')
  <2>1. CASE job[p].to = "completed"
    <3>1. /\ completed' = Drop(completed, job[p].e) /\ job[p].e \in DOMAIN completed
          /\ completed[job[p].e].stamp = Cardinality(DOMAIN completed)
      BY <1>4, <2>1 DEF UndoTerminal, BInv, LastRecord
    <3> QED
      BY <1>1, <3>1, HistoryDrops
  <2> QED
    BY <1>2, <1>4, <2>1 DEF UndoTerminal
<1>5. ASSUME NEW p \in Procs, StartWrite(p) \/ Rewrite(p) \/ UnlinkActive(p) PROVE UNCHANGED completed
  BY <1>5 DEF StartWrite, Rewrite, UnlinkActive
<1> QED
  BY <1>2, <1>3, <1>4, <1>5, Writers

\* What a process knows of the history lasts until it writes.
LEMMA BudgetKnown ==
  ASSUME BInv, [Next]_vars, NEW q \in Procs
  PROVE  Affordable(q)' /\ LastRecord(q)'
<1>0. TypeOK /\ Control /\ Affordable(q) /\ LastRecord(q) /\ job \in [Procs -> Job]
      /\ pc \in [Procs -> PCs]
  BY DEF BInv, IInv, TypeOK, TypedWith
<1>1. Affordable(q)'
  <2> SUFFICES ASSUME pc'[q] = "terminal", job'[q].op = "complete", job'[q].decision = "CONTINUE"
               PROVE  ContinueCount(completed') < Policy.maxEpochs
    BY DEF Affordable
  <2>1. CASE pc'[q] = pc[q] /\ job'[q] = job[q]
    BY <1>0, <2>1, HistoryKept DEF Affordable
  <2>2. CASE CompleteLoad(q)
    <3>1. /\ job[q].decision = "CONTINUE" => ContinueAllowed(job[q].e, active[job[q].e].check)
          /\ job' = [job EXCEPT ![q].doc = active[job[q].e]] /\ UNCHANGED completed
      BY <1>0, <2>2 DEF CompleteLoad, Goto, files
    <3>2. job'[q].decision = job[q].decision
      BY <1>0, <3>1 DEF Job
    <3> QED
      BY <3>1, <3>2 DEF ContinueAllowed
  <2>3. CASE FailLoad(q)
    <3>1. job[q].op = "fail" /\ (job' = [job EXCEPT ![q].doc = active[job[q].e]] \/ job' = job)
      BY <2>3 DEF FailLoad
    <3>2. job'[q].op = job[q].op
      BY <1>0, <3>1 DEF Job
    <3> QED
      BY <3>1, <3>2
  <2>4. CASE CloseoutLoad(q)
    <3> DEFINE after == [active[job[q].e] EXCEPT !.done = @ \union {RunTask[job[q].run]},
                                                 !.closeouts = Append(@, job[q].run)]
    <3>1. /\ job[q].op = "closeout"
          /\ \/ job' = job
             \/ \E to \in {"failed", "completed", "task_completed"}, d \in {active[job[q].e], after} :
                  job' = [job EXCEPT ![q] = [@ EXCEPT !.to = to, !.doc = d]]
      BY <2>4 DEF CloseoutLoad
    <3> HIDE DEF after
    <3>2. \A to, d : job' = [job EXCEPT ![q] = [@ EXCEPT !.to = to, !.doc = d]] => job'[q].op = job[q].op
      <4> SUFFICES ASSUME NEW to, NEW d, job' = [job EXCEPT ![q] = [@ EXCEPT !.to = to, !.doc = d]]
                   PROVE  job'[q].op = job[q].op
        OBVIOUS
      <4>1. job'[q] = [job[q] EXCEPT !.to = to, !.doc = d]
        BY <1>0
      <4> QED
        BY <1>0, <4>1, EditedJob
    <3> QED
      BY <3>1, <3>2
  <2> QED
    BY <1>0, <2>1, <2>2, <2>3, <2>4, Decides
<1>2. LastRecord(q)'
  <2> SUFFICES ASSUME pc'[q] \in {"unlink", "undo"}, job'[q].to = "completed"
               PROVE  /\ job'[q].e \in DOMAIN completed'
                      /\ completed'[job'[q].e].stamp = Cardinality(DOMAIN completed')
    BY DEF LastRecord
  <2>0. Rewriting(q)' /\ PCs \subseteq PCs /\ TypedWith(PCs)
    BY <1>0 DEF Rewriting, TypeOK
  <2>1. CASE pc'[q] = pc[q] /\ job'[q] = job[q]
    BY <1>0, <2>1, HistoryKept DEF LastRecord
  <2>2. CASE WriteTerminal(q)
    BY <2>2, WritesLast DEF WriteTerminal
  <2>3. CASE UnlinkFails(q)
    BY <1>0, <2>3 DEF UnlinkFails, LastRecord, files
  <2> QED
    BY <2>0, <2>1, <2>2, <2>3, Arrivals
<1> QED
  BY <1>1, <1>2

\* The loop never continues itself more often than the policy allows without
\* another decision in between, whatever races, fails or dies: complete_epoch
\* counts the history again under active-epoch.lock (validate_continue_self_check),
\* and a record that is taken back is the last one.
THEOREM ContinuesWithinBudget == Spec => []ContinueBounded
<1>1. Init => BInv
  BY Initially, FS_EmptySet
     DEF BInv, Stamped, ContinueBounded, Affordable, LastRecord, Init, NoFiles
<1>2. BInv /\ [Next]_vars => BInv'
  BY Inductive, HistoryStep, BudgetKnown DEF BInv
<1>3. BInv => ContinueBounded
  BY DEF BInv
<1> QED
  BY <1>1, <1>2, <1>3, PTL DEF Spec

------------------------------------------------------------------------------
(* One outcome, and the registry                                            *)

\* Between the terminal record and the end of the active one.
Closing(p) == pc[p] \in {"unlink", "undo"}

\* An active epoch with a terminal record is just being ended by someone.
Settling ==
  \A e \in DOMAIN active :
    e \in DOMAIN completed \union failed => \E p \in Procs : Closing(p) /\ job[p].e = e

\* Whoever ends an epoch wrote the only terminal record it has.
OneRecord(p) ==
  Closing(p) => IF job[p].to = "completed" THEN job[p].e \notin failed
                ELSE job[p].e \notin DOMAIN completed

OInv == IInv /\ OneOutcome /\ Settling /\ \A p \in Procs : OneRecord(p)

\* How a process gets between the two writes.
LEMMA Arrives ==
  ASSUME TypeOK, [Next]_vars, NEW q \in Procs, Closing(q)'
  PROVE  (Closing(q) /\ job'[q] = job[q]) \/ WriteTerminal(q)
<1> DEFINE Here == (Closing(q) /\ job'[q] = job[q]) \/ WriteTerminal(q)
<1> SUFFICES Here
  OBVIOUS
<1>0. pc \in [Procs -> PCs] /\ job \in [Procs -> Job] /\ pc'[q] \in {"unlink", "undo"}
  BY DEF TypeOK, TypedWith, Closing
<1>1. CASE UNCHANGED vars
  BY <1>0, <1>1 DEF vars, Closing
<1>2. ASSUME NEW p \in Procs, Invoke(p) PROVE Here
  BY <1>0, <1>2 DEF Invoke, BeginStart, BeginComplete, BeginFail, BeginBrake, BeginSelfCheck,
              BeginCloseout, Begin, Goto, Closing
<1>3. ASSUME NEW p \in Procs,
             \/ AcquireRuntime(p) \/ AcquireEpochLock(p) \/ ReleaseEpochLock(p)
             \/ ReleaseRuntime(p)
      PROVE  Here
  BY <1>0, <1>3 DEF AcquireRuntime, AcquireEpochLock, Acquire, ReleaseEpochLock,
                    ReleaseRuntime, Finish, Goto, Closing
<1>4. ASSUME NEW p \in Procs, SetBrake(p) \/ CheckBrake(p) \/ ObserveBrake(p)
      PROVE  Here
  BY <1>0, <1>4 DEF SetBrake, CheckBrake, ObserveBrake, Goto, Closing
<1>5. ASSUME NEW p \in Procs,
             \/ StartLoad(p) \/ StartWrite(p) \/ CompleteLoad(p) \/ FailLoad(p) \/ CheckLoad(p)
             \/ CloseoutLoad(p) \/ Rewrite(p)
      PROVE  Here
  BY <1>0, <1>5 DEF StartLoad, StartWrite, CompleteLoad, FailLoad, CheckLoad, CloseoutLoad,
                    Rewrite, Goto, Closing
<1>6. ASSUME NEW p \in Procs, WriteTerminal(p) PROVE Here
  BY <1>0, <1>6 DEF WriteTerminal, Goto, Closing
<1>7. ASSUME NEW p \in Procs,
             UnlinkActive(p) \/ UnlinkFails(p) \/ UndoTerminal(p) \/ UndoFails(p)
      PROVE  Here
  BY <1>0, <1>7 DEF UnlinkActive, UnlinkFails, UndoTerminal, UndoFails, Goto, Closing
<1>8. ASSUME NEW p \in Procs, View(p) \/ Decide(p) \/ ReadRun(p) PROVE Here
  BY <1>0, <1>8 DEF View, Decide, ReadRun, Finish, Goto, Closing
<1>9. ASSUME NEW p \in Procs, RecordRun(p) \/ AuditAppended(p) \/ AuditFails(p) \/ Crash(p)
      PROVE  Here
  BY <1>0, <1>9 DEF RecordRun, AuditAppended, AuditFails, Crash, Finish, Goto, Closing
<1>10. ASSUME NEW e \in Epochs, Age(e) PROVE Here
  BY <1>0, <1>10 DEF Age, Closing
<1>11. ASSUME NEW l \in Locks, ClearStaleLock(l) PROVE Here
  BY <1>0, <1>11 DEF ClearStaleLock, Closing
<1> HIDE DEF Here
<1> QED
  BY <1>1, <1>2, <1>3, <1>4, <1>5, <1>6, <1>7, <1>8, <1>9, <1>10, <1>11 DEF Next, Step

\* And how it gets out, unless it dies or its undo fails.
LEMMA Leaves ==
  ASSUME TypeOK, [Next]_vars, NEW q \in Procs, Closing(q),
         "undo" \notin Faults, "crash" \notin Faults
  PROVE  \/ Closing(q)' /\ job'[q] = job[q]
         \/ UnlinkActive(q) \/ UndoTerminal(q)
<1> DEFINE Here == \/ Closing(q)' /\ job'[q] = job[q]
                   \/ UnlinkActive(q) \/ UndoTerminal(q)
<1> SUFFICES Here
  OBVIOUS
<1>0. pc \in [Procs -> PCs] /\ job \in [Procs -> Job] /\ pc[q] \in {"unlink", "undo"}
  BY DEF TypeOK, TypedWith, Closing
<1>1. CASE UNCHANGED vars
  BY <1>0, <1>1 DEF vars, Closing
<1>2. ASSUME NEW p \in Procs, Invoke(p) PROVE Here
  BY <1>0, <1>2 DEF Invoke, BeginStart, BeginComplete, BeginFail, BeginBrake, BeginSelfCheck,
              BeginCloseout, Begin, Goto, Closing
<1>3. ASSUME NEW p \in Procs,
             \/ AcquireRuntime(p) \/ AcquireEpochLock(p) \/ ReleaseEpochLock(p)
             \/ ReleaseRuntime(p)
      PROVE  Here
  BY <1>0, <1>3 DEF AcquireRuntime, AcquireEpochLock, Acquire, ReleaseEpochLock,
                    ReleaseRuntime, Finish, Goto, Closing
<1>4. ASSUME NEW p \in Procs, SetBrake(p) \/ CheckBrake(p) \/ ObserveBrake(p)
      PROVE  Here
  BY <1>0, <1>4 DEF SetBrake, CheckBrake, ObserveBrake, Goto, Closing
<1>5. ASSUME NEW p \in Procs,
             \/ StartLoad(p) \/ StartWrite(p) \/ CompleteLoad(p) \/ FailLoad(p) \/ CheckLoad(p)
             \/ CloseoutLoad(p) \/ Rewrite(p) \/ WriteTerminal(p)
      PROVE  Here
  BY <1>0, <1>5 DEF StartLoad, StartWrite, CompleteLoad, FailLoad, CheckLoad, CloseoutLoad,
                    Rewrite, WriteTerminal, Goto, Closing
<1>6. ASSUME NEW p \in Procs,
             UnlinkActive(p) \/ UnlinkFails(p) \/ UndoTerminal(p) \/ UndoFails(p)
      PROVE  Here
  BY <1>0, <1>6 DEF UnlinkActive, UnlinkFails, UndoTerminal, UndoFails, Goto, Closing
<1>7. ASSUME NEW p \in Procs, View(p) \/ Decide(p) \/ ReadRun(p) PROVE Here
  BY <1>0, <1>7 DEF View, Decide, ReadRun, Finish, Goto, Closing
<1>8. ASSUME NEW p \in Procs, RecordRun(p) \/ AuditAppended(p) \/ AuditFails(p) \/ Crash(p)
      PROVE  Here
  BY <1>0, <1>8 DEF RecordRun, AuditAppended, AuditFails, Crash, Finish, Goto, Closing
<1>9. ASSUME NEW e \in Epochs, Age(e) PROVE Here
  BY <1>0, <1>9 DEF Age, Closing
<1>10. ASSUME NEW l \in Locks, ClearStaleLock(l) PROVE Here
  BY <1>0, <1>10 DEF ClearStaleLock, Closing
<1> HIDE DEF Here
<1> QED
  BY <1>1, <1>2, <1>3, <1>4, <1>5, <1>6, <1>7, <1>8, <1>9, <1>10 DEF Next, Step

------------------------------------------------------------------------------
(* The invariant                                                            *)

\* An epoch about to get a terminal record has none: both records are looked
\* for, and written, under the same lock.
LEMMA NoRecordYet ==
  ASSUME OInv, NEW q \in Procs, WriteTerminal(q)
  PROVE  job[q].e \notin DOMAIN completed \union failed
<1>1. pc[q] = "terminal" /\ job[q].e \in DOMAIN active /\ lock["active-epoch"] = q
  BY DEF WriteTerminal, OInv, IInv, Control, ControlAt, StillActive, Rewriting, LocksHeld, InEpochLock
<1>2. ASSUME NEW p \in Procs, Closing(p) PROVE FALSE
  <2>1. lock["active-epoch"] = p /\ pc[p] # "terminal"
    BY <1>2 DEF Closing, OInv, IInv, Control, ControlAt, LocksHeld, InEpochLock
  <2> QED
    BY <1>1, <2>1
<1> QED
  BY <1>1, <1>2 DEF OInv, Settling

\* Nobody adds a second record to an epoch that is being ended.
LEMMA OneRecordStep ==
  ASSUME OInv, [Next]_vars, NEW q \in Procs
  PROVE  OneRecord(q)'
<1>0. TypeOK /\ Control /\ OneRecord(q)
  BY DEF OInv, IInv
<1> SUFFICES ASSUME Closing(q)'
             PROVE  IF job'[q].to = "completed" THEN job'[q].e \notin failed'
                    ELSE job'[q].e \notin DOMAIN completed'
  BY DEF OneRecord, Closing
<1>1. CASE WriteTerminal(q)
  BY <1>1, NoRecordYet DEF WriteTerminal
<1>2. CASE Closing(q) /\ job'[q] = job[q]
  <2>1. DOMAIN completed' \subseteq DOMAIN completed /\ failed' \subseteq failed
    <3>1. ASSUME NEW p \in Procs, WriteTerminal(p) PROVE FALSE
      <4>1. lock["active-epoch"] = p /\ lock["active-epoch"] = q
        BY <1>0, <1>2, <3>1 DEF WriteTerminal, Closing, Control, ControlAt, LocksHeld, InEpochLock
      <4> QED
        BY <1>2, <3>1, <4>1 DEF WriteTerminal, Closing
    <3>2. ASSUME NEW p \in Procs,
                 StartWrite(p) \/ Rewrite(p) \/ UnlinkActive(p) \/ UndoTerminal(p)
          PROVE  DOMAIN completed' \subseteq DOMAIN completed /\ failed' \subseteq failed
      BY <3>2 DEF StartWrite, Rewrite, UnlinkActive, UndoTerminal, Drop
    <3> QED
      BY <3>1, <3>2, Writers
  <2> QED
    BY <1>0, <1>2, <2>1 DEF OneRecord
<1> QED
  BY <1>0, <1>1, <1>2, Arrives

\* A terminal record is added only to an epoch that has none.
LEMMA OneOutcomeStep ==
  ASSUME OInv, [Next]_vars
  PROVE  OneOutcome'
<1>0. DOMAIN completed \cap failed = {}
  BY DEF OInv, OneOutcome
<1>1. ASSUME NEW p \in Procs, WriteTerminal(p) PROVE OneOutcome'
  BY <1>0, <1>1, NoRecordYet DEF WriteTerminal, Put, OneOutcome
<1>2. ASSUME NEW p \in Procs,
             StartWrite(p) \/ Rewrite(p) \/ UnlinkActive(p) \/ UndoTerminal(p)
      PROVE  OneOutcome'
  BY <1>0, <1>2 DEF StartWrite, Rewrite, UnlinkActive, UndoTerminal, Drop, OneOutcome
<1> QED
  BY <1>0, <1>1, <1>2, Writers DEF OneOutcome

\* An active epoch gets a terminal record only on its way out.
LEMMA SettlingStep ==
  ASSUME OInv, [Next]_vars, "undo" \notin Faults, "crash" \notin Faults
  PROVE  Settling'
<1>0. /\ TypeOK /\ Control /\ Settling
      /\ \A p \in Procs : OneRecord(p) /\ StillActive(p)
  BY DEF OInv, IInv
<1> SUFFICES ASSUME NEW e \in DOMAIN active', e \in DOMAIN completed' \union failed'
             PROVE  \E p \in Procs : Closing(p)' /\ job'[p].e = e
  BY DEF Settling
<1>1. CASE e \in DOMAIN active /\ e \in DOMAIN completed \union failed
  <2>1. PICK p \in Procs : Closing(p) /\ job[p].e = e
    BY <1>0, <1>1 DEF Settling
  <2>2. ~UnlinkActive(p)
    BY <2>1 DEF UnlinkActive, Drop
  <2>3. ~UndoTerminal(p)
    BY <1>0, <2>1 DEF UndoTerminal, OneRecord, Drop
  <2> QED
    BY <1>0, <2>1, <2>2, <2>3, Leaves
<1>2. CASE e \notin DOMAIN active
  <2>1. ASSUME NEW p \in Procs, StartWrite(p) PROVE FALSE
    BY <1>2, <2>1 DEF StartWrite, FreshIds, Put
  <2>2. ASSUME NEW p \in Procs, Rewrite(p) PROVE FALSE
    <3>1. job[p].e \in DOMAIN active
      BY <1>0, <2>2 DEF Rewrite, StillActive, Rewriting
    <3> QED
      BY <1>2, <2>2, <3>1 DEF Rewrite, Put
  <2>3. ASSUME NEW p \in Procs, UnlinkActive(p) \/ WriteTerminal(p) \/ UndoTerminal(p)
        PROVE  FALSE
    BY <1>2, <2>3 DEF UnlinkActive, WriteTerminal, UndoTerminal, Drop
  <2> QED
    BY <1>2, <2>1, <2>2, <2>3, Writers
<1>3. CASE e \notin DOMAIN completed \union failed
  <2>1. PICK p \in Procs : WriteTerminal(p)
    <3>1. ASSUME NEW p \in Procs,
                 StartWrite(p) \/ Rewrite(p) \/ UnlinkActive(p) \/ UndoTerminal(p)
          PROVE  FALSE
      BY <1>3, <3>1 DEF StartWrite, Rewrite, UnlinkActive, UndoTerminal, Drop
    <3> QED
      BY <1>3, <3>1, Writers
  <2>2. job[p].e = e
    BY <1>3, <2>1 DEF WriteTerminal, Put
  <2>3. pc'[p] = "unlink" /\ job'[p] = job[p]
    BY <1>0, <2>1 DEF WriteTerminal, Goto, TypeOK, TypedWith
  <2> QED
    BY <2>2, <2>3 DEF Closing
<1> QED
  BY <1>1, <1>2, <1>3

------------------------------------------------------------------------------
(* The theorem                                                              *)

\* As long as undoing works and nobody dies half-way, an epoch is never both
\* completed and failed: complete_epoch and fail_epoch look only for a record
\* of their own kind, but write_terminal_epoch leaves no active record behind
\* with a terminal one.
THEOREM EndsOneWay ==
  ASSUME "undo" \notin Faults, "crash" \notin Faults
  PROVE  Spec => []OneOutcome
<1>1. Init => OInv
  BY Initially DEF OInv, OneOutcome, Settling, OneRecord, Closing, Init, NoFiles
<1>2. OInv /\ [Next]_vars => OInv'
  BY Inductive, OneOutcomeStep, SettlingStep, OneRecordStep DEF OInv
<1>3. OInv => OneOutcome
  BY DEF OInv
<1> QED
  BY <1>1, <1>2, <1>3, PTL DEF Spec

------------------------------------------------------------------------------
(* The refinement                                                           *)

\* What somebody who ends an epoch knows, besides: that its record is there, and
\* that a CONTINUE is under DRIVE and within the budget.
Spent(p) ==
  /\ Closing(p) /\ job[p].to = "failed" => job[p].e \in failed
  /\ Closing(p) /\ job[p].to = "completed" /\ completed[job[p].e].decision = "CONTINUE" =>
       job[p].op = "complete" /\ brake = "DRIVE" /\ ContinueCount(Settled) < Policy.maxEpochs

RInv == OInv /\ BInv /\ \A p \in Procs : Spent(p)

\* Nobody else changes the records while somebody ends an epoch.
LEMMA ClosingAlone ==
  ASSUME RInv, [Next]_vars, NEW q \in Procs, Closing(q), Closing(q)'
  PROVE  UNCHANGED <<active, completed, failed>>
<1>0. TypeOK /\ Control
  BY DEF RInv, OInv, IInv
<1>1. ASSUME NEW p \in Procs,
             \/ StartWrite(p) \/ Rewrite(p) \/ UnlinkActive(p)
             \/ WriteTerminal(p) \/ UndoTerminal(p)
      PROVE  FALSE
  <2>1. pc[p] \in {"write", "unlink", "terminal", "undo"} /\ pc[q] \in {"unlink", "undo"}
    BY <1>1 DEF StartWrite, Rewrite, UnlinkActive, WriteTerminal, UndoTerminal, Closing
  <2>2. lock["active-epoch"] = p /\ lock["active-epoch"] = q
    BY <1>0, <2>1 DEF Control, ControlAt, LocksHeld, InEpochLock
  <2>3. UnlinkActive(q) \/ UndoTerminal(q)
    BY <1>1, <2>1, <2>2 DEF StartWrite, Rewrite, WriteTerminal
  <2>4. pc'[q] = "release"
    BY <1>0, <2>3 DEF UnlinkActive, UndoTerminal, Goto, TypeOK, TypedWith
  <2> QED
    BY <2>4 DEF Closing
<1> QED
  BY <1>1, Writers

\* Only set-brake sets the brake.
LEMMA BrakeSetBy ==
  ASSUME [Next]_vars
  PROVE  brake' = brake \/ \E p \in Procs : SetBrake(p)
<1>1. CASE UNCHANGED vars
  BY <1>1 DEF vars
<1>2. ASSUME NEW p \in Procs, Invoke(p) PROVE brake' = brake
  BY <1>2 DEF Invoke, BeginStart, BeginComplete, BeginFail, BeginBrake, BeginSelfCheck,
              BeginCloseout, Begin, files
<1>3. ASSUME NEW p \in Procs, Step(p), ~SetBrake(p) PROVE brake' = brake
  BY <1>3 DEF Step, AcquireRuntime, AcquireEpochLock, Acquire, ReleaseEpochLock, ReleaseRuntime,
     CheckBrake, ObserveBrake, StartLoad, StartWrite, CompleteLoad, FailLoad, WriteTerminal,
     UnlinkActive, UnlinkFails, UndoTerminal, UndoFails, View, Decide, CheckLoad, ReadRun,
     CloseoutLoad, Rewrite, RecordRun, AuditAppended, AuditFails, files
<1>4. ASSUME NEW p \in Procs, Crash(p) PROVE brake' = brake
  BY <1>4 DEF Crash, files
<1>5. ASSUME NEW e \in Epochs, Age(e) PROVE brake' = brake
  BY <1>5 DEF Age
<1>6. ASSUME NEW l \in Locks, ClearStaleLock(l) PROVE brake' = brake
  BY <1>6 DEF ClearStaleLock, files
<1> QED
  BY <1>1, <1>2, <1>3, <1>4, <1>5, <1>6 DEF Next

\* What is settled stays so when only records of an active epoch change.
LEMMA SettledKept ==
  ASSUME DOMAIN active' = DOMAIN active,
         \A e : e \notin DOMAIN active =>
                  /\ e \in DOMAIN completed' <=> e \in DOMAIN completed
                  /\ e \in failed' <=> e \in failed
                  /\ e \in DOMAIN completed => completed'[e] = completed[e]
  PROVE  Settled' = Settled /\ \A e : StatusOf(e)' = StatusOf(e)
<1>1. Settled' = Settled
  <2>1. (DOMAIN completed \ DOMAIN active)' = DOMAIN completed \ DOMAIN active
    OBVIOUS
  <2>2. \A e \in DOMAIN completed \ DOMAIN active : completed'[e] = completed[e]
    OBVIOUS
  <2> QED
    BY <2>1, <2>2 DEF Settled
<1> QED
  BY <1>1 DEF StatusOf

\* The knowledge lasts, and begins with the terminal record.
LEMMA SpentStep ==
  ASSUME RInv, [Next]_vars, NEW q \in Procs
  PROVE  Spent(q)'
<1>0. /\ TypeOK /\ Control /\ Spent(q) /\ Affordable(q) /\ ControlAt(q)
      /\ job \in [Procs -> Job] /\ pc \in [Procs -> PCs]
  BY DEF RInv, OInv, BInv, IInv, TypeOK, TypedWith, Control
<1> SUFFICES ASSUME Closing(q)' PROVE Spent(q)'
  BY DEF Spent
<1>1. CASE Closing(q) /\ job'[q] = job[q]
  <2>1. UNCHANGED <<active, completed, failed>> /\ Settled' = Settled
    BY <1>1, ClosingAlone DEF Settled
  <2>2. ASSUME job[q].op = "complete" PROVE brake' = brake
    <3>1. lock["runtime"] = q
      BY <1>0, <1>1, <2>2 DEF Closing, ControlAt, LocksHeld, InRuntime, InEpochLock, HoldsRuntime
    <3>2. ASSUME NEW p \in Procs, SetBrake(p) PROVE FALSE
      <4>1. pc[p] = "set-brake" /\ lock["runtime"] = p
        BY <1>0, <3>2 DEF SetBrake, Control, ControlAt, JobFits, LocksHeld, InRuntime, HoldsRuntime
      <4> QED
        BY <1>1, <3>1, <4>1 DEF Closing
    <3> QED
      BY <3>2, BrakeSetBy
  <2>3. ContinueCount(Settled)' = ContinueCount(Settled)
    BY <2>1 DEF ContinueCount
  <2> QED
    BY <1>0, <1>1, <2>1, <2>2, <2>3 DEF Spent
<1>2. CASE WriteTerminal(q)
  <2> DEFINE e == job[q].e
  <2>1. pc[q] = "terminal" /\ job' = job /\ UNCHANGED <<brake, active>>
    BY <1>2 DEF WriteTerminal
  <2>2. e \in DOMAIN active /\ e \notin DOMAIN completed \union failed /\ DOMAIN active = {e}
    BY <1>0, <1>2, <2>1, NoRecordYet
       DEF RInv, OInv, IInv, StillActive, Rewriting, ControlAt, FoundHolds
  <2>3. CASE job[q].to = "failed"
    BY <1>2, <2>1, <2>3 DEF WriteTerminal, Spent
  <2>4. CASE job[q].to = "completed" /\ EndOf(job[q]).decision # "CONTINUE"
    <3>1. completed'[e] = EndOf(job[q])
      BY <1>2, <2>4 DEF WriteTerminal, Put
    <3> QED
      BY <2>1, <2>4, <3>1 DEF Spent
  <2>5. CASE job[q].to = "completed" /\ EndOf(job[q]).decision = "CONTINUE"
    <3>1. job[q].op = "complete" /\ job[q].decision = "CONTINUE"
      BY <1>0, <2>1, <2>5 DEF EndOf, ControlAt, JobFits
    <3>2. brake = "DRIVE" /\ ContinueCount(completed) < Policy.maxEpochs
      BY <1>0, <2>1, <3>1 DEF ControlAt, DriveSeen, NeedsDrive, Affordable
    <3>3. /\ DOMAIN Settled' = DOMAIN completed
          /\ \A x \in DOMAIN completed : Settled'[x] = completed[x]
      BY <1>2, <2>1, <2>2, <2>5 DEF WriteTerminal, Put, Settled
    <3>4. ContinueCount(Settled)' = ContinueCount(completed)
      BY <3>3 DEF ContinueCount
    <3> QED
      BY <2>1, <2>5, <3>1, <3>2, <3>4 DEF Spent
  <2>6. job[q].to \in {"failed", "completed"}
    BY <1>0, <2>1 DEF ControlAt, JobFits
  <2> QED
    BY <2>3, <2>4, <2>5, <2>6
<1> QED
  BY <1>0, <1>1, <1>2, Arrives

------------------------------------------------------------------------------
(* Every step is one of the registry's, or none                             *)

\* A step that leaves every status as it is may set the brake.
LEMMA BrakeRefines ==
  ASSUME TypeOK', Settled' = Settled, \A e : StatusOf(e)' = StatusOf(e)
  PROVE  [Registry!Next]_Registry!rvars
<1>1. ContinueCount(Settled)' = ContinueCount(Settled)
  BY DEF ContinueCount
<1>2. [e \in Epochs |-> StatusOf(e)]' = [e \in Epochs |-> StatusOf(e)]
  OBVIOUS
<1>3. brake' \in {"DRIVE", "NEUTRAL", "PARK"}
  BY DEF TypeOK, TypedWith, BrakeStatuses
<1>4. Registry!SetBrake(brake')
  BY <1>1, <1>2 DEF Registry!SetBrake
<1> QED
  BY <1>3, <1>4 DEF Registry!Next

\* The write of a new epoch is its start.
LEMMA StartRefines ==
  ASSUME RInv, NEW p \in Procs, StartWrite(p)
  PROVE  Registry!Next
<1> DEFINE st == [x \in Epochs |-> StatusOf(x)]
<1>0. TypeOK /\ ControlAt(p)
  BY DEF RInv, OInv, IInv, Control
<1>1. PICK e \in FreshIds : active' = Put(active, e, NewEpoch(job[p].tasks))
  BY DEF StartWrite
<1>2. UNCHANGED <<brake, completed, failed>> /\ brake = "DRIVE" /\ DOMAIN active = {}
  BY <1>0 DEF StartWrite, ControlAt, DriveSeen, NeedsDrive, FoundHolds
<1>3. e \in Epochs /\ e \notin DOMAIN completed \union failed /\ DOMAIN active' = {e}
  BY <1>1, <1>2 DEF FreshIds, Put
<1>4. \A f \in Epochs : st[f] # "active"
  BY <1>2 DEF StatusOf
<1>5. st[e] = "absent"
  BY <1>2, <1>3 DEF StatusOf
<1>6. st' = [st EXCEPT ![e] = "active"]
  BY <1>2, <1>3 DEF StatusOf
<1>7. ContinueCount(Settled)' = ContinueCount(Settled)
  BY <1>2, <1>3 DEF ContinueCount, Settled
<1>8. Registry!Start(e)
  BY <1>2, <1>4, <1>5, <1>6, <1>7 DEF Registry!Start
<1> QED
  BY <1>3, <1>8 DEF Registry!Next

\* The count of CONTINUE after the last record is added: one more, or none.
LEMMA CountAdds ==
  ASSUME Stamped(completed), NEW e \in DOMAIN completed,
         completed[e].stamp = Cardinality(DOMAIN completed),
         NEW before, DOMAIN before = DOMAIN completed \ {e},
         \A x \in DOMAIN before : before[x] = completed[x]
  PROVE  /\ completed[e].decision = "CONTINUE" => ContinueCount(completed) = ContinueCount(before) + 1
         /\ completed[e].decision # "CONTINUE" => ContinueCount(completed) = 0
<1> DEFINE Run(dir) == {x \in DOMAIN dir :
                          /\ dir[x].decision = "CONTINUE"
                          /\ \A f \in DOMAIN dir :
                               dir[f].decision # "CONTINUE" => dir[f].stamp < dir[x].stamp}
<1>1. IsFiniteSet(DOMAIN completed) /\ Cardinality(DOMAIN completed) \in Nat
  BY EpochLifecycleAssumption, FS_Subset, FS_CardinalityType DEF Stamped
<1>2. \A x \in DOMAIN before : /\ x \in DOMAIN completed /\ completed[x].stamp \in Nat
                              /\ completed[x].stamp < completed[e].stamp
  BY <1>1 DEF Stamped
<1>3. CASE completed[e].decision = "CONTINUE"
  <2>1. Run(completed) = Run(before) \union {e} /\ e \notin Run(before)
    BY <1>2, <1>3
  <2>2. Run(before) \subseteq DOMAIN completed
    BY <1>2
  <2> HIDE DEF Run
  <2>3. IsFiniteSet(Run(before))
    BY <1>1, <2>2, FS_Subset
  <2>4. Cardinality(Run(completed)) = Cardinality(Run(before)) + 1
    BY <2>1, <2>3, FS_AddElement
  <2> QED
    BY <1>3, <2>4 DEF ContinueCount, Run
<1>4. CASE completed[e].decision # "CONTINUE"
  <2>1. Run(completed) = {}
    BY <1>1, <1>4 DEF Stamped
  <2> QED
    BY <1>4, <2>1, FS_EmptySet DEF ContinueCount, Run
<1> QED
  BY <1>3, <1>4

\* The end of the active record is the end of the epoch.
LEMMA UnlinkRefines ==
  ASSUME RInv, NEW p \in Procs, UnlinkActive(p)
  PROVE  Registry!Next
<1> DEFINE e  == job[p].e
           st == [x \in Epochs |-> StatusOf(x)]
<1>0. /\ TypeOK /\ ControlAt(p) /\ LastRecord(p) /\ Spent(p) /\ OneRecord(p)
      /\ Stamped(completed) /\ Closing(p) /\ pc[p] = "unlink"
  BY DEF RInv, OInv, BInv, IInv, Control, UnlinkActive, Closing
<1>1. /\ e \in DOMAIN active /\ DOMAIN active = {e} /\ e \in Epochs
      /\ active' = Drop(active, e) /\ UNCHANGED <<brake, completed, failed>>
  BY <1>0 DEF UnlinkActive, ControlAt, FoundHolds, JobFits
<1>2. DOMAIN active' = {}
  BY <1>1 DEF Drop
<1>3. st[e] = "active"
  BY <1>1 DEF StatusOf
<1>4. CASE job[p].to = "failed"
  <2>1. e \in failed /\ e \notin DOMAIN completed
    BY <1>0, <1>4 DEF Spent, OneRecord
  <2>2. st' = [st EXCEPT ![e] = "failed"]
    BY <1>1, <1>2, <2>1 DEF StatusOf
  <2>3. ContinueCount(Settled)' = ContinueCount(Settled)
    BY <1>1, <1>2, <2>1 DEF ContinueCount, Settled
  <2>4. Registry!Fail(e)
    BY <1>1, <1>3, <2>2, <2>3 DEF Registry!Fail
  <2> QED
    BY <1>1, <2>4 DEF Registry!Next
<1>5. CASE job[p].to = "completed"
  <2>1. e \in DOMAIN completed /\ completed[e].stamp = Cardinality(DOMAIN completed)
    BY <1>0, <1>5 DEF LastRecord
  <2>2. st' = [st EXCEPT ![e] = "completed"]
    BY <1>1, <1>2, <2>1 DEF StatusOf
  <2>3. /\ DOMAIN Settled = DOMAIN completed \ {e}
        /\ \A x \in DOMAIN Settled : Settled[x] = completed[x]
    BY <1>1 DEF Settled
  <2>4. ContinueCount(Settled)' = ContinueCount(completed)
    BY <1>1, <1>2 DEF ContinueCount, Settled
  <2>5. CASE completed[e].decision = "CONTINUE"
    <3>1. brake = "DRIVE" /\ ContinueCount(Settled) < Policy.maxEpochs
      BY <1>0, <1>5, <2>5 DEF Spent
    <3>2. ContinueCount(Settled)' = ContinueCount(Settled) + 1
      BY <1>0, <2>1, <2>3, <2>4, <2>5, CountAdds
    <3>3. Registry!Continue(e)
      BY <1>1, <1>3, <2>2, <3>1, <3>2 DEF Registry!Continue
    <3> QED
      BY <1>1, <3>3 DEF Registry!Next
  <2>6. CASE completed[e].decision # "CONTINUE"
    <3>1. ContinueCount(Settled)' = 0
      BY <1>0, <2>1, <2>3, <2>4, <2>6, CountAdds
    <3>2. Registry!End(e)
      BY <1>1, <1>3, <2>2, <3>1 DEF Registry!End
    <3> QED
      BY <1>1, <3>2 DEF Registry!Next
  <2> QED
    BY <2>5, <2>6
<1> QED
  BY <1>0, <1>4, <1>5 DEF ControlAt, JobFits

\* All other writes are of an epoch that is active before and after.
LEMMA StepRefines ==
  ASSUME RInv, [Next]_vars
  PROVE  [Registry!Next]_Registry!rvars
<1>0. TypeOK /\ TypeOK' /\ \A p \in Procs : StillActive(p)
  BY Inductive DEF RInv, OInv, IInv
<1>1. ASSUME UNCHANGED <<active, completed, failed>> PROVE [Registry!Next]_Registry!rvars
  BY <1>0, <1>1, SettledKept, BrakeRefines
<1>2. ASSUME NEW p \in Procs, Rewrite(p) \/ WriteTerminal(p) \/ UndoTerminal(p)
      PROVE  [Registry!Next]_Registry!rvars
  <2>1. job[p].e \in DOMAIN active
    BY <1>0, <1>2 DEF StillActive, Rewriting, Rewrite, WriteTerminal, UndoTerminal
  <2>2. DOMAIN active' = DOMAIN active
    BY <1>2, <2>1 DEF Rewrite, WriteTerminal, UndoTerminal, Put
  <2>3. ASSUME NEW e, e # job[p].e
        PROVE  /\ e \in DOMAIN completed' <=> e \in DOMAIN completed
               /\ e \in failed' <=> e \in failed
               /\ e \in DOMAIN completed => completed'[e] = completed[e]
    BY <1>2, <2>3 DEF Rewrite, WriteTerminal, UndoTerminal, Put, Drop
  <2> QED
    BY <1>0, <2>1, <2>2, <2>3, SettledKept, BrakeRefines
<1> QED
  BY <1>1, <1>2, StartRefines, UnlinkRefines, Writers

\* The epoch commands, each of them several file operations under locks that
\* refuse, do to the epochs only what the atomic registry allows, as long as undoing
\* works and nobody dies half-way: start_epoch, complete_epoch, fail_epoch, set_brake and
\* the closeout of epochs.py and cli.py.
THEOREM EpochsImplementRegistry ==
  ASSUME "undo" \notin Faults, "crash" \notin Faults
  PROVE  Spec => ImplementsRegistry
<1>1. Init => RInv /\ Registry!Init
  <2> SUFFICES ASSUME Init PROVE RInv /\ Registry!Init
    OBVIOUS
  <2>1. OInv
    BY Initially DEF OInv, OneOutcome, Settling, OneRecord, Closing, Init, NoFiles
  <2>2. BInv
    BY Initially, FS_EmptySet DEF BInv, Stamped, ContinueBounded, Affordable, LastRecord, Init, NoFiles
  <2>3. \A p \in Procs : Spent(p)
    BY DEF Spent, Closing, Init
  <2>4. \A e \in Epochs : StatusOf(e) = "absent"
    BY DEF StatusOf, Init, NoFiles
  <2>5. ContinueCount(Settled) = 0
    BY FS_EmptySet DEF ContinueCount, Settled, Init, NoFiles
  <2> QED
    BY <2>1, <2>2, <2>3, <2>4, <2>5 DEF RInv, Registry!Init, Init
<1>2. RInv /\ [Next]_vars => RInv'
  BY Inductive, OneOutcomeStep, SettlingStep, OneRecordStep, HistoryStep, BudgetKnown, SpentStep
     DEF RInv, OInv, BInv
<1>3. RInv /\ [Next]_vars => [Registry!Next]_Registry!rvars
  BY StepRefines
<1> QED
  BY <1>1, <1>2, <1>3, PTL DEF Spec, ImplementsRegistry, Registry!Spec
=============================================================================
