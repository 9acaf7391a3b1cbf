---------------------- MODULE GovernedExecutionProofs ----------------------
(***************************************************************************)
(* Proofs about GovernedExecution for every number of processes, epochs    *)
(* and ownership records.                                                  *)
(***************************************************************************)
EXTENDS GovernedExecution, EpochLifecycleProofs

------------------------------------------------------------------------------
(* The inductive invariant: what each command holds                         *)

Steps == PCs \union GovernedPCs

StartOnly == {"start-lock", "look", "validate", "epoch-lock", "start-load", "start-write",
              "start-release", "bind", "rollback", "unbind", "exit"}
MoveOnly  == {"close", "move", "drop-source", "drop-destination"}

\* What a command holds in memory has what its step needs, and says how far
\* the command has come.
WorkFits(p) ==
  /\ pc[p] \notin GovernedPCs => work[p] = NoWork
  /\ pc[p] \in GovernedPCs => work[p].op # "none" /\ work[p].task \in Tasks
  /\ pc[p] \in StartOnly => work[p].op = "start"
  /\ pc[p] = "claim" => work[p].op = "claim"
  /\ pc[p] \in MoveOnly => work[p].op \in {"close", "fail"}
  /\ pc[p] = "revert" => work[p].op # "start"
  /\ \/ pc[p] \in {"own-lock", "validate", "bind", "unbind", "own-unlock"}
     \/ work[p].op \in {"claim", "close", "fail"} \/ work[p].bound
     => work[p].own \in Owners
  /\ work[p].bound => work[p].op = "start"
  /\ pc[p] \in {"audit-lock", "append", "audit-unlock"}
     /\ work[p].op = "start" /\ work[p].own # "none" => work[p].bound
  /\ pc[p] = "unbind" => work[p].bound
  /\ pc[p] \in {"start-lock", "look", "own-lock", "validate", "epoch-lock", "start-load",
                "start-write", "start-release", "bind"} => ~work[p].bound
  /\ pc[p] \in {"start-lock", "look", "own-lock", "validate", "epoch-lock", "start-load",
                "start-write"} => work[p].epoch = "none"
  /\ work[p].op = "start" /\ pc[p] \in {"bind", "audit-lock", "append", "audit-unlock",
                                         "rollback", "unbind"} => work[p].epoch \in Epochs
  /\ work[p].audited => pc[p] \in {"audit-unlock", "own-unlock", "exit"}

\* The locks a command holds.
OwnSteps == GovernedPCs \ {"start-lock", "look", "own-lock", "exit"}
AtOwnership(p) == pc[p] \in OwnSteps /\ work[p].own # "none"
GovernedLocks(p) ==
  /\ pc[p] \in GovernedPCs \ {"start-lock"} /\ work[p].op = "start" => lock["runtime"] = p
  /\ pc[p] \in {"start-load", "start-write", "start-release"} => lock["active-epoch"] = p
  /\ pc[p] \in {"append", "audit-unlock"} => lock["audit-events"] = p
  /\ AtOwnership(p) <=> lock["work-ownership"] = p

\* What it found under them still holds.
GovernedFound(p) ==
  /\ pc[p] = "start-write" => DOMAIN active = {}
  /\ pc[p] = "append" => work[p].tip = Len(audit)

GovernedAt(p) == WorkFits(p) /\ GovernedLocks(p) /\ GovernedFound(p)
GInv == GovernedTypeOK /\ Control /\ ChainUnbroken /\ \A p \in Procs : GovernedAt(p)

------------------------------------------------------------------------------
(* Types                                                                    *)

\* A command that has not begun holds nothing.
LEMMA BlankWork ==
  /\ NoWork \in Work /\ NoOwnership \in Ownership
  /\ NoWork.op = "none" /\ NoWork.own = "none" /\ NoWork.epoch = "none"
  /\ ~NoWork.bound /\ ~NoWork.audited
  BY DEF NoWork, Work, NoOwnership, Ownership

\* One that begins holds what it was asked for.
LEMMA BegunWork ==
  ASSUME NEW op \in {"start", "claim", "close", "fail"}, NEW t \in Tasks,
         NEW o \in Owners \union {"none"}
  PROVE  LET w == [NoWork EXCEPT !.op = op, !.task = t, !.own = o]
         IN  /\ w \in Work /\ w.op = op /\ w.task = t /\ w.own = o /\ w.epoch = "none"
             /\ ~w.bound /\ ~w.audited
  BY BlankWork DEF Work

LEMMA GovernedSteps == "idle" \in Steps /\ GovernedPCs \subseteq Steps /\ "idle" \notin GovernedPCs
  BY DEF Steps, PCs, GovernedPCs

OwnTyped ==
  /\ DOMAIN own = {"active", "closed", "failed"}
  /\ \A dir \in DOMAIN own : /\ DOMAIN own[dir] \subseteq Owners
                             /\ \A o \in DOMAIN own[dir] : own[dir][o] \in Ownership

\* Writing a record and deleting one keep the directories well typed.
LEMMA RecordType ==
  ASSUME OwnTyped, NEW dir \in DOMAIN own, NEW o \in Owners, NEW doc \in Ownership,
         Record(dir, o, doc)
  PROVE  OwnTyped'
<1>1. own' = [d \in DOMAIN own |-> IF d = dir THEN Put(own[dir], o, doc) ELSE own[d]]
  BY DEF Record
<1>2. /\ DOMAIN Put(own[dir], o, doc) = DOMAIN own[dir] \union {o}
      /\ \A x \in DOMAIN own[dir] \union {o} :
           Put(own[dir], o, doc)[x] = IF x = o THEN doc ELSE own[dir][x]
  BY DEF Put
<1> QED
  BY <1>1, <1>2 DEF OwnTyped

LEMMA EraseType ==
  ASSUME OwnTyped, NEW dir \in DOMAIN own, NEW o, Erase(dir, o)
  PROVE  OwnTyped'
<1>1. own' = [d \in DOMAIN own |-> IF d = dir THEN Drop(own[dir], o) ELSE own[d]]
  BY DEF Erase
<1> QED
  BY <1>1 DEF OwnTyped, Drop

\* Beginning a command keeps the types.
LEMMA EnterType ==
  ASSUME GovernedTypeOK, NEW p \in Procs, BeginGovernedStart(p) \/ BeginOwnership(p)
  PROVE  GovernedTypeOK'
<1>1. PICK step \in {"start-lock", "own-lock"}, w \in Work : Enter(p, step, w)
  <2>1. CASE BeginGovernedStart(p)
    <3>1. PICK t \in Tasks, o \in Owners \union {"none"} :
            Enter(p, "start-lock", [NoWork EXCEPT !.op = "start", !.task = t, !.own = o])
      BY <2>1 DEF BeginGovernedStart
    <3> QED
      BY <3>1, BegunWork
  <2>2. CASE BeginOwnership(p)
    <3>1. PICK op \in {"claim", "close", "fail"}, t \in Tasks, o \in Owners :
            Enter(p, "own-lock", [NoWork EXCEPT !.op = op, !.task = t, !.own = o])
      BY <2>2 DEF BeginOwnership
    <3> QED
      BY <3>1, BegunWork
  <2> QED
    BY <2>1, <2>2
<1>2. step \in Steps
  BY GovernedSteps DEF GovernedPCs
<1> QED
  BY <1>1, <1>2 DEF Enter, Notes, Goto, GovernedTypeOK, Steps, TypedWith, files, Directory

\* So does a step that only moves p on, with its locks and what it holds.
LEMMA NotesType ==
  ASSUME GovernedTypeOK, NEW p \in Procs, NEW step \in Steps, NEW w \in Work, NEW j \in Job,
         Goto(p, step), work' = [work EXCEPT ![p] = w], job' = [job EXCEPT ![p] = j],
         lock' \in [Locks -> Procs \union {Free, Stale}],
         UNCHANGED <<files, own, audit, torn, reported>>
  PROVE  GovernedTypeOK'
  BY DEF Goto, GovernedTypeOK, Steps, TypedWith, files, Directory

\* What a command holds in memory stays typed as the command comes to hold more.
LEMMA EditedWork ==
  ASSUME NEW w \in Work
  PROVE  /\ \A ok \in BOOLEAN : [w EXCEPT !.ok = ok] \in Work
         /\ \A e \in Epochs : [w EXCEPT !.epoch = e] \in Work
         /\ \A doc \in Ownership : [w EXCEPT !.before = doc] \in Work
         /\ \A n \in Nat : [w EXCEPT !.tip = n] \in Work
         /\ [w EXCEPT !.bound = TRUE] \in Work
         /\ [w EXCEPT !.audited = TRUE] \in Work
         /\ [w EXCEPT !.undone = TRUE] \in Work
  BY DEF Work

\* So does every other step of a governed start or an ownership command.
LEMMA GovernedTypeStep ==
  ASSUME GInv, NEW p \in Procs, GovernedStep(p)
  PROVE  GovernedTypeOK'
<1> USE GovernedSteps DEF GovernedPCs
<1>0. /\ GovernedTypeOK /\ WorkFits(p) /\ work[p] \in Work /\ job[p] \in Job
      /\ work \in [Procs -> Work] /\ job \in [Procs -> Job] /\ pc \in [Procs -> Steps]
      /\ lock \in [Locks -> Procs \union {Free, Stale}] /\ OwnTyped
      /\ audit \in Seq(Event) /\ torn \in BOOLEAN /\ reported \subseteq Owners
  BY DEF GInv, GovernedAt, GovernedTypeOK, TypedWith, OwnTyped, Steps
<1>a. NoJob \in Job /\ NoWork \in Work /\ work = [work EXCEPT ![p] = work[p]]
      /\ job = [job EXCEPT ![p] = job[p]]
  BY <1>0, BlankTypes, BlankWork
<1>b. \A l \in Locks : /\ [lock EXCEPT ![l] = p] \in [Locks -> Procs \union {Free, Stale}]
                       /\ [lock EXCEPT ![l] = Free] \in [Locks -> Procs \union {Free, Stale}]
  BY <1>0
<1> DEFINE Moved == \E step \in Steps, v \in Work, j \in Job :
                      /\ Goto(p, step) /\ work' = [work EXCEPT ![p] = v]
                      /\ job' = [job EXCEPT ![p] = j]
           Locked == lock' \in [Locks -> Procs \union {Free, Stale}]
           Same   == UNCHANGED <<files, own, audit, torn, reported>>
<1>c. ASSUME Moved, Locked, Same PROVE GovernedTypeOK'
  BY <1>c, <1>0, NotesType
<1>1. CASE TakeRuntime(p)
  <2>1. Moved
    BY <1>0, <1>a, <1>1 DEF TakeRuntime, Take, Keeps, Exits, Finish
  <2>2. Locked
    BY <1>0, <1>b, <1>1 DEF TakeRuntime, Take, Keeps, Exits, Finish, Locks
  <2> QED
    BY <1>c, <1>1, <2>1, <2>2 DEF TakeRuntime, Take
<1>2. CASE Look(p)
  <2>0. PICK ok \in BOOLEAN, step \in {"own-lock", "epoch-lock", "exit"} :
          Notes(p, step, [work[p] EXCEPT !.ok = ok])
    BY <1>2 DEF Look
  <2>1. Moved
    BY <1>0, <1>a, <2>0, EditedWork DEF Notes
  <2>2. Locked
    BY <1>0, <1>b, <1>2 DEF Look, Notes, Work, Locks
  <2> QED
    BY <1>c, <1>2, <2>1, <2>2 DEF Look
<1>3. CASE TakeOwnership(p)
  <2>1. Moved
    BY <1>0, <1>a, <1>3 DEF TakeOwnership, Take, Keeps, Exits, Finish
  <2>2. Locked
    BY <1>0, <1>b, <1>3 DEF TakeOwnership, Take, Keeps, Exits, Finish, Locks
  <2> QED
    BY <1>c, <1>3, <2>1, <2>2 DEF TakeOwnership, Take
<1>4. CASE ValidateOwnership(p)
  <2>0. \/ Keeps(p, "own-unlock")
        \/ /\ own["active"][work[p].own] \in Ownership
           /\ Notes(p, "epoch-lock", [work[p] EXCEPT !.before = own["active"][work[p].own]])
    BY <1>0, <1>4 DEF ValidateOwnership, OnlyActive, OwnTyped
  <2>1. Moved
    BY <1>0, <1>a, <2>0, EditedWork DEF Notes, Keeps
  <2>2. Locked
    BY <1>0, <1>b, <1>4 DEF ValidateOwnership, OnlyActive, OwnTyped, Notes, Keeps, Work, Locks
  <2> QED
    BY <1>c, <1>4, <2>1, <2>2 DEF ValidateOwnership
<1>5. CASE TakeEpochLock(p)
  <2>1. Moved
    BY <1>0, <1>a, <1>5 DEF TakeEpochLock, Unlock, Take, Keeps, Exits, Finish
  <2>2. Locked
    BY <1>0, <1>b, <1>5 DEF TakeEpochLock, Unlock, Take, Keeps, Exits, Finish, Locks
  <2> QED
    BY <1>c, <1>5, <2>1, <2>2 DEF TakeEpochLock, Take
<1>6. CASE LoadActive(p)
  <2>1. Moved
    BY <1>0, <1>a, <1>6 DEF LoadActive, Keeps
  <2>2. Locked
    BY <1>0, <1>b, <1>6 DEF LoadActive, Keeps, Locks
  <2> QED
    BY <1>c, <1>6, <2>1, <2>2 DEF LoadActive
<1>7. CASE LeaveEpochLock(p)
  <2>1. Moved
    BY <1>0, <1>a, <1>7 DEF LeaveEpochLock, Unlock, Release, Keeps
  <2>2. Locked
    BY <1>0, <1>b, <1>7 DEF LeaveEpochLock, Unlock, Release, Keeps, Locks
  <2> QED
    BY <1>c, <1>7, <2>1, <2>2 DEF LeaveEpochLock
<1>8. CASE BindFails(p)
  <2>1. Moved
    BY <1>0, <1>a, <1>8 DEF BindFails, Keeps
  <2>2. Locked
    BY <1>0, <1>b, <1>8 DEF BindFails, Keeps, Locks
  <2> QED
    BY <1>c, <1>8, <2>1, <2>2 DEF BindFails
<1>9. CASE RollbackFails(p)
  <2>1. Moved
    BY <1>0, <1>a, <1>9 DEF RollbackFails, AfterRollback, Unlock, Keeps
  <2>2. Locked
    BY <1>0, <1>b, <1>9 DEF RollbackFails, AfterRollback, Unlock, Keeps, Locks
  <2> QED
    BY <1>c, <1>9, <2>1, <2>2 DEF RollbackFails
<1>10. CASE OpenAudit(p)
  <2>0. \/ Notes(p, "append", [work[p] EXCEPT !.tip = Len(audit)])
        \/ Keeps(p, Undoing(p))
    BY <1>10 DEF OpenAudit
  <2>1. Moved
    <3>1. [work[p] EXCEPT !.tip = Len(audit)] \in Work
      <4>1. Len(audit) \in Nat
        BY <1>0
      <4> QED
        BY <1>0, <4>1, EditedWork
    <3> QED
      BY <1>0, <1>a, <2>0, <3>1 DEF Undoing, Notes, Keeps
  <2>2. Locked
    BY <1>0, <1>b, <1>10 DEF OpenAudit, Undoing, GovernedTypeOK, Notes, Keeps, Work, Locks
  <2> QED
    BY <1>c, <1>10, <2>1, <2>2 DEF OpenAudit
<1>11. CASE CloseAudit(p)
  <2>1. Moved
    BY <1>0, <1>a, <1>11 DEF CloseAudit, Undoing, Unlock, Release, Keeps
  <2>2. Locked
    BY <1>0, <1>b, <1>11 DEF CloseAudit, Undoing, Unlock, Release, Keeps, Locks
  <2> QED
    BY <1>c, <1>11, <2>1, <2>2 DEF CloseAudit
<1>12. CASE CloseLoad(p)
  <2>0. own["active"][work[p].own] \in Ownership
    BY <1>0, <1>12 DEF CloseLoad, OnlyActive, OwnTyped
  <2>1. Moved
    BY <1>0, <1>a, <1>12, <2>0, EditedWork DEF CloseLoad, Notes
  <2>2. Locked
    BY <1>0, <1>b, <1>12 DEF CloseLoad, OnlyActive, OwnTyped, Notes, Work, Locks
  <2> QED
    BY <1>c, <1>12, <2>1, <2>2 DEF CloseLoad
<1>13. CASE OwnershipRefused(p)
  <2>1. Moved
    BY <1>0, <1>a, <1>13 DEF OwnershipRefused, Keeps
  <2>2. Locked
    BY <1>0, <1>b, <1>13 DEF OwnershipRefused, Keeps, Locks
  <2> QED
    BY <1>c, <1>13, <2>1, <2>2 DEF OwnershipRefused
<1>14. CASE DropSourceFails(p)
  <2>1. Moved
    BY <1>0, <1>a, <1>14 DEF DropSourceFails, Keeps
  <2>2. Locked
    BY <1>0, <1>b, <1>14 DEF DropSourceFails, Keeps, Locks
  <2> QED
    BY <1>c, <1>14, <2>1, <2>2 DEF DropSourceFails
<1>15. CASE LeaveOwnership(p)
  <2>1. Moved
    BY <1>0, <1>a, <1>15 DEF LeaveOwnership, Release, Keeps, Exits, Finish
  <2>2. Locked
    BY <1>0, <1>b, <1>15 DEF LeaveOwnership, Release, Keeps, Exits, Finish, Locks
  <2> QED
    BY <1>c, <1>15, <2>1, <2>2 DEF LeaveOwnership
<1>16. CASE LeaveRuntime(p)
  <2>1. Moved
    BY <1>0, <1>a, <1>16 DEF LeaveRuntime, Release, Exits, Finish
  <2>2. Locked
    BY <1>0, <1>b, <1>16 DEF LeaveRuntime, Release, Exits, Finish, Locks
  <2> QED
    BY <1>c, <1>16, <2>1, <2>2 DEF LeaveRuntime
<1>d. ASSUME Moved, Locked, UNCHANGED <<files, audit, torn>>, OwnTyped', reported' \subseteq Owners
      PROVE  GovernedTypeOK'
  BY <1>d, <1>0 DEF Goto, GovernedTypeOK, Steps, TypedWith, files, Directory, OwnTyped
<1>e. ASSUME Moved, Locked, UNCHANGED <<brake, completed, failed, late, run>>, Directory(active', EpochDoc),
             UNCHANGED <<own, audit, torn, reported>>
      PROVE  GovernedTypeOK'
  BY <1>e, <1>0 DEF Goto, GovernedTypeOK, Steps, TypedWith, files, Directory, OwnTyped
<1>17. CASE WriteEpoch(p)
  <2>1. PICK e \in FreshIds :
          /\ active' = Put(active, e, NewEpoch({work[p].task}))
          /\ Notes(p, "start-release", [work[p] EXCEPT !.epoch = e])
    BY <1>17 DEF WriteEpoch
  <2>2. e \in Epochs /\ work[p].task \in Tasks
    BY <1>0, <1>17 DEF FreshIds, WriteEpoch, WorkFits
  <2>3. Moved
    BY <1>0, <1>a, <2>1, <2>2, EditedWork DEF Notes
  <2>4. Directory(active', EpochDoc)
    BY <1>0, <2>1, <2>2, NewEpochType, PutType DEF GovernedTypeOK, TypedWith
  <2> QED
    BY <1>e, <1>0, <1>17, <2>3, <2>4 DEF WriteEpoch
<1>18. CASE RollBackEpoch(p)
  <2>1. Moved
    BY <1>0, <1>a, <1>18, EditedWork DEF RollBackEpoch, AfterRollback, Unlock, Notes
  <2>2. Directory(active', EpochDoc)
    BY <1>0, <1>18, DropType DEF RollBackEpoch, GovernedTypeOK, TypedWith
  <2> QED
    BY <1>e, <1>0, <1>18, <2>1, <2>2 DEF RollBackEpoch
<1>19. CASE Bind(p)
  <2>1. Moved
    BY <1>0, <1>a, <1>19, EditedWork DEF Bind, Notes
  <2>2. Locked /\ UNCHANGED <<files, audit, torn, reported>>
    BY <1>0, <1>19 DEF Bind
  <2>3. OwnTyped'
    <3>1. work[p].own \in Owners /\ work[p].epoch \in Epochs /\ work[p].before \in Ownership
      BY <1>0, <1>19 DEF Bind, WorkFits, StartOnly, Work
    <3>2. [work[p].before EXCEPT !.epoch = work[p].epoch] \in Ownership
      BY <3>1 DEF Ownership
    <3> QED
      BY <1>0, <1>19, <3>1, <3>2, RecordType DEF Bind, OwnTyped
  <2> QED
    BY <1>d, <1>0, <2>1, <2>2, <2>3
<1>20. CASE Unbind(p)
  <2>1. Moved
    BY <1>0, <1>a, <1>20 DEF Unbind, Keeps
  <2>2. Locked /\ UNCHANGED <<files, audit, torn, reported>>
    BY <1>0, <1>20 DEF Unbind
  <2>3. OwnTyped'
    <3>1. work[p].own \in Owners /\ work[p].before \in Ownership
      BY <1>0, <1>20 DEF Unbind, WorkFits, Work
    <3> QED
      BY <1>0, <1>20, <3>1, RecordType DEF Unbind, OwnTyped
  <2> QED
    BY <1>d, <1>0, <2>1, <2>2, <2>3
<1>21. CASE Claim(p)
  <2>1. Moved
    BY <1>0, <1>a, <1>21 DEF Claim, Keeps
  <2>2. Locked /\ UNCHANGED <<files, audit, torn, reported>>
    BY <1>0, <1>21 DEF Claim
  <2>3. OwnTyped'
    <3>1. work[p].own \in Owners /\ work[p].task \in Tasks
      BY <1>0, <1>21 DEF Claim, WorkFits
    <3>2. [task |-> work[p].task, epoch |-> "none"] \in Ownership
      BY <3>1 DEF Ownership
    <3> QED
      BY <1>0, <1>21, <3>1, <3>2, RecordType DEF Claim, OwnTyped
  <2> QED
    BY <1>d, <1>0, <2>1, <2>2, <2>3
<1>22. CASE MoveRecord(p)
  <2>1. Moved
    BY <1>0, <1>a, <1>22 DEF MoveRecord, Keeps
  <2>2. Locked /\ UNCHANGED <<files, audit, torn, reported>>
    BY <1>0, <1>22 DEF MoveRecord
  <2>3. OwnTyped'
    <3>1. work[p].own \in Owners /\ work[p].before \in Ownership
      BY <1>0, <1>22 DEF MoveRecord, WorkFits, MoveOnly, Work
    <3> QED
      BY <1>0, <1>22, <3>1, RecordType DEF MoveRecord, OwnTyped, Destination
  <2> QED
    BY <1>d, <1>0, <2>1, <2>2, <2>3
<1>23. CASE RevertMove(p)
  <2>1. Moved
    BY <1>0, <1>a, <1>23 DEF RevertMove, Keeps
  <2>2. Locked /\ UNCHANGED <<files, audit, torn, reported>>
    BY <1>0, <1>23 DEF RevertMove
  <2>3. OwnTyped'
    <3>1. work[p].own \in Owners /\ work[p].before \in Ownership
      BY <1>0, <1>23 DEF RevertMove, WorkFits, Work
    <3> QED
      BY <1>0, <1>23, <3>1, RecordType DEF RevertMove, OwnTyped
  <2> QED
    BY <1>d, <1>0, <2>1, <2>2, <2>3
<1>24. CASE DropSource(p)
  <2>1. Moved
    BY <1>0, <1>a, <1>24 DEF DropSource, Keeps
  <2>2. Locked /\ UNCHANGED <<files, audit, torn, reported>>
    BY <1>0, <1>24 DEF DropSource
  <2>3. OwnTyped'
    BY <1>0, <1>24, EraseType DEF DropSource, OwnTyped
  <2> QED
    BY <1>d, <1>0, <2>1, <2>2, <2>3
<1>25. CASE RevertClaim(p)
  <2>1. Moved
    BY <1>0, <1>a, <1>25 DEF RevertClaim, Keeps
  <2>2. Locked /\ UNCHANGED <<files, audit, torn, reported>>
    BY <1>0, <1>25 DEF RevertClaim
  <2>3. OwnTyped'
    BY <1>0, <1>25, EraseType DEF RevertClaim, OwnTyped
  <2> QED
    BY <1>d, <1>0, <2>1, <2>2, <2>3
<1>26. CASE DropDestination(p)
  <2>1. Moved
    BY <1>0, <1>a, <1>26 DEF DropDestination, Keeps
  <2>2. Locked /\ UNCHANGED <<files, audit, torn, reported>>
    BY <1>0, <1>26 DEF DropDestination
  <2>3. OwnTyped'
    BY <1>0, <1>26, EraseType DEF DropDestination, Destination, OwnTyped
  <2> QED
    BY <1>d, <1>0, <2>1, <2>2, <2>3
<1>27. CASE UnbindFails(p)
  <2>1. Moved
    BY <1>0, <1>a, <1>27 DEF UnbindFails, Keeps
  <2>2. work[p].own \in Owners
    BY <1>0, <1>27 DEF UnbindFails, WorkFits, MoveOnly, Work
  <2>3. Locked /\ OwnTyped'
    BY <1>0, <1>27 DEF UnbindFails, OwnTyped
  <2> QED
    BY <1>d, <1>0, <1>27, <2>1, <2>2, <2>3 DEF UnbindFails
<1>28. CASE RevertFails(p)
  <2>1. Moved
    BY <1>0, <1>a, <1>28 DEF RevertFails, Keeps
  <2>2. work[p].own \in Owners
    BY <1>0, <1>28 DEF RevertFails, WorkFits, MoveOnly, Work
  <2>3. Locked /\ OwnTyped'
    BY <1>0, <1>28 DEF RevertFails, OwnTyped
  <2> QED
    BY <1>d, <1>0, <1>28, <2>1, <2>2, <2>3 DEF RevertFails
<1>29. CASE AppendAudit(p)
  <2>1. Moved
    BY <1>0, <1>a, <1>29, EditedWork DEF AppendAudit, Notes
  <2>2. work[p].op # "none"
    BY <1>0, <1>29 DEF AppendAudit, WorkFits
  <2>3. EventOf(work[p]) \in Event
    BY <1>0, <2>2 DEF EventOf, Event, Work
  <2>4. audit' \in Seq(Event)
    BY <1>0, <1>29, <2>3 DEF AppendAudit
  <2> QED
    BY <1>0, <1>29, <2>1, <2>4
       DEF AppendAudit, Goto, GovernedTypeOK, Steps, TypedWith, files, Directory
<1>30. CASE AppendFails(p)
  <2>1. Moved
    BY <1>0, <1>a, <1>30 DEF AppendFails, Keeps
  <2>2. torn' \in BOOLEAN
    <3>1. torn' = torn \/ torn' = TRUE
      BY <1>30 DEF AppendFails
    <3> QED
      BY <1>0, <3>1
  <2> QED
    BY <1>0, <1>30, <2>1, <2>2
       DEF AppendFails, Goto, GovernedTypeOK, Steps, TypedWith, files, Directory
<1> HIDE DEF Moved, Locked, Same
<1> QED
  BY <1>1, <1>2, <1>3, <1>4, <1>5, <1>6, <1>7, <1>8, <1>9, <1>10, <1>11, <1>12, <1>13, <1>14,
     <1>15, <1>16, <1>17, <1>18, <1>19, <1>20, <1>21, <1>22, <1>23, <1>24, <1>25, <1>26, <1>27,
     <1>28, <1>29, <1>30
     DEF GovernedStep
------------------------------------------------------------------------------
(* A step of a governed start or an ownership command                       *)

\* It leaves the other processes and their locks alone, and changes what a
\* lock guards under that lock; but the rollback of an epoch takes none.
Apart(p) ==
  /\ \A q \in Procs \ {p} : pc'[q] = pc[q] /\ job'[q] = job[q] /\ work'[q] = work[q]
  /\ \A q \in Procs \ {p}, l \in Locks : lock'[l] = q <=> lock[l] = q
  /\ pc[p] \in GovernedPCs \union {"idle"} /\ pc'[p] \in GovernedPCs \union {"idle"}
  /\ job'[p] = job[p] \/ job'[p] = NoJob
  /\ UNCHANGED <<brake, completed, failed, late, run>>
  /\ \/ UNCHANGED active \/ lock["active-epoch"] = p
     \/ pc[p] = "rollback" /\ active' = Drop(active, work[p].epoch)
  /\ UNCHANGED <<own, reported>> \/ lock["work-ownership"] = p
  /\ UNCHANGED audit \/ lock["audit-events"] = p

\* Every step does.
LEMMA GovernedApart ==
  ASSUME GInv, NEW p \in Procs, BeginGovernedStart(p) \/ BeginOwnership(p) \/ GovernedStep(p)
  PROVE  Apart(p)
<1>0. /\ pc \in [Procs -> Steps] /\ job \in [Procs -> Job] /\ work \in [Procs -> Work]
      /\ lock \in [Locks -> Procs \union {Free, Stale}] /\ Free \notin Procs
      /\ WorkFits(p) /\ GovernedLocks(p)
  BY EpochLifecycleAssumption DEF GInv, GovernedAt, GovernedTypeOK, TypedWith, Steps, Free
<1> DEFINE Others == \A q \in Procs \ {p} : pc'[q] = pc[q] /\ job'[q] = job[q] /\ work'[q] = work[q]
           Mine   == /\ pc[p] \in GovernedPCs \union {"idle"} /\ pc'[p] \in GovernedPCs \union {"idle"}
                     /\ job'[p] = job[p] \/ job'[p] = NoJob
           Locked == \A q \in Procs \ {p}, l \in Locks : lock'[l] = q <=> lock[l] = q
           Same   == UNCHANGED <<brake, completed, failed, late, run>>

<1>1. CASE TakeRuntime(p) \/ TakeOwnership(p) \/ TakeEpochLock(p)
  <2>1. Others /\ Mine
    BY <1>0, <1>1
       DEF TakeRuntime, TakeOwnership, TakeEpochLock, Take, Keeps, Exits, Finish, Unlock, Goto,
           GovernedPCs
  <2>2. Locked
    BY <1>0, <1>1 DEF TakeRuntime, TakeOwnership, TakeEpochLock, Take, Granted, Locks
  <2> QED
    BY <1>1, <2>1, <2>2 DEF TakeRuntime, TakeOwnership, TakeEpochLock, Take, Apart, files
<1>2. CASE BeginGovernedStart(p) \/ BeginOwnership(p)
  <2>1. \E step \in {"start-lock", "own-lock"} : \E v : Enter(p, step, v)
    BY <1>2 DEF BeginGovernedStart, BeginOwnership
  <2>2. PICK step \in {"start-lock", "own-lock"} : \E v : Enter(p, step, v)
    BY <2>1
  <2>3. Others /\ Mine
    BY <1>0, <2>2 DEF Enter, Notes, Goto, GovernedPCs
  <2> QED
    BY <2>2, <2>3 DEF Enter, Apart, files
<1>3. CASE LeaveOwnership(p)
  <2>1. Others /\ Mine
    BY <1>0, <1>3 DEF LeaveOwnership, Release, Keeps, Exits, Finish, Goto, GovernedPCs
  <2>2. Locked
    <3>1. AtOwnership(p)
      BY <1>0, <1>3, GovernedAssumption
         DEF LeaveOwnership, WorkFits, AtOwnership, OwnSteps, GovernedPCs
    <3> QED
      BY <1>0, <1>3, <3>1 DEF LeaveOwnership, Release, GovernedLocks, Locks
  <2> QED
    BY <1>3, <2>1, <2>2 DEF LeaveOwnership, Apart, files
<1>4. CASE LeaveRuntime(p) \/ LeaveEpochLock(p) \/ CloseAudit(p)
  <2>1. Others /\ Mine
    BY <1>0, <1>4
       DEF LeaveRuntime, LeaveEpochLock, CloseAudit, Release, Keeps, Exits, Finish, Unlock,
           Undoing, Goto, GovernedPCs
  <2>2. Locked
    BY <1>0, <1>4
       DEF LeaveRuntime, LeaveEpochLock, CloseAudit, Release, GovernedLocks, WorkFits,
           StartOnly, GovernedPCs, Locks
  <2> QED
    BY <1>4, <2>1, <2>2 DEF LeaveRuntime, LeaveEpochLock, CloseAudit, Apart, files
<1>5. CASE Look(p) \/ ValidateOwnership(p) \/ LoadActive(p) \/ BindFails(p) \/ RollbackFails(p)
           \/ CloseLoad(p) \/ OwnershipRefused(p) \/ DropSourceFails(p) \/ AppendFails(p)
  <2>1. Others /\ Mine
    BY <1>0, <1>5
       DEF Look, ValidateOwnership, LoadActive, BindFails, RollbackFails, CloseLoad,
           OwnershipRefused, DropSourceFails, AppendFails, Keeps, Notes, AfterRollback, Unlock,
           Goto, GovernedPCs
  <2>2. Locked
    BY <1>0, <1>5
       DEF Look, ValidateOwnership, LoadActive, BindFails, RollbackFails, CloseLoad,
           OwnershipRefused, DropSourceFails, AppendFails
  <2> QED
    BY <1>5, <2>1, <2>2
       DEF Look, ValidateOwnership, LoadActive, BindFails, RollbackFails, CloseLoad,
           OwnershipRefused, DropSourceFails, AppendFails, Apart, files
<1>6. CASE OpenAudit(p)
  <2>1. Others /\ Mine
    BY <1>0, <1>6 DEF OpenAudit, Keeps, Notes, Undoing, Goto, GovernedPCs
  <2>2. Locked
    BY <1>0, <1>6 DEF OpenAudit, Granted, Locks
  <2> QED
    BY <1>6, <2>1, <2>2 DEF OpenAudit, Apart, files
<1>7. CASE WriteEpoch(p)
  <2>1. Others /\ Mine
    BY <1>0, <1>7 DEF WriteEpoch, Notes, Goto, GovernedPCs
  <2>2. Locked
    BY <1>0, <1>7 DEF WriteEpoch
  <2>3. lock["active-epoch"] = p
    BY <1>0, <1>7 DEF WriteEpoch, GovernedLocks
  <2> QED
    BY <1>7, <2>1, <2>2, <2>3 DEF WriteEpoch, Apart, files
<1>8. CASE RollBackEpoch(p)
  <2>1. Others /\ Mine
    BY <1>0, <1>8 DEF RollBackEpoch, Notes, AfterRollback, Unlock, Goto, GovernedPCs
  <2>2. Locked
    BY <1>0, <1>8 DEF RollBackEpoch
  <2> QED
    BY <1>8, <2>1, <2>2 DEF RollBackEpoch, Apart, files
<1>9. CASE AppendAudit(p)
  <2>1. Others /\ Mine
    BY <1>0, <1>9 DEF AppendAudit, Notes, Goto, GovernedPCs
  <2>2. Locked
    BY <1>0, <1>9 DEF AppendAudit
  <2>3. lock["audit-events"] = p
    BY <1>0, <1>9 DEF AppendAudit, GovernedLocks
  <2> QED
    BY <1>9, <2>1, <2>2, <2>3 DEF AppendAudit, Apart, files
<1>10. CASE Bind(p) \/ Unbind(p) \/ UnbindFails(p)
  <2>1. Others /\ Mine
    BY <1>0, <1>10 DEF Bind, Unbind, UnbindFails, Notes, Keeps, Goto, GovernedPCs
  <2>2. Locked
    BY <1>0, <1>10 DEF Bind, Unbind, UnbindFails
  <2>3. lock["work-ownership"] = p
    <3>1. AtOwnership(p)
      BY <1>0, <1>10, GovernedAssumption
         DEF Bind, Unbind, UnbindFails, WorkFits, MoveOnly, AtOwnership, OwnSteps, GovernedPCs,
             Work
    <3> QED
      BY <1>0, <3>1 DEF GovernedLocks
  <2> QED
    BY <1>10, <2>1, <2>2, <2>3 DEF Bind, Unbind, UnbindFails, Apart, files
<1>11. CASE Claim(p) \/ MoveRecord(p) \/ DropSource(p) \/ RevertClaim(p)
  <2>1. Others /\ Mine
    BY <1>0, <1>11 DEF Claim, MoveRecord, DropSource, RevertClaim, Notes, Keeps, Goto, GovernedPCs
  <2>2. Locked
    BY <1>0, <1>11 DEF Claim, MoveRecord, DropSource, RevertClaim
  <2>3. lock["work-ownership"] = p
    <3>1. AtOwnership(p)
      BY <1>0, <1>11, GovernedAssumption
         DEF Claim, MoveRecord, DropSource, RevertClaim, WorkFits, MoveOnly, AtOwnership,
             OwnSteps, GovernedPCs, Work
    <3> QED
      BY <1>0, <3>1 DEF GovernedLocks
  <2> QED
    BY <1>11, <2>1, <2>2, <2>3 DEF Claim, MoveRecord, DropSource, RevertClaim, Apart, files
<1>12. CASE RevertMove(p) \/ DropDestination(p) \/ RevertFails(p)
  <2>1. Others /\ Mine
    BY <1>0, <1>12 DEF RevertMove, DropDestination, RevertFails, Notes, Keeps, Goto, GovernedPCs
  <2>2. Locked
    BY <1>0, <1>12 DEF RevertMove, DropDestination, RevertFails
  <2>3. lock["work-ownership"] = p
    <3>1. AtOwnership(p)
      BY <1>0, <1>12, GovernedAssumption
         DEF RevertMove, DropDestination, RevertFails, WorkFits, MoveOnly, AtOwnership,
             OwnSteps, GovernedPCs, Work
    <3> QED
      BY <1>0, <3>1 DEF GovernedLocks
  <2> QED
    BY <1>12, <2>1, <2>2, <2>3 DEF RevertMove, DropDestination, RevertFails, Apart, files
<1> HIDE DEF Others, Mine, Locked, Same
<1> QED
  BY <1>1, <1>2, <1>3, <1>4, <1>5, <1>6, <1>7, <1>8, <1>9, <1>10, <1>11, <1>12 DEF GovernedStep

\* What the other processes rely on survives such a step.
LEMMA ApartKeeps ==
  ASSUME GInv, NEW p \in Procs, Apart(p), NEW q \in Procs \ {p}
  PROVE  ControlAt(q)' /\ GovernedAt(q)'
<1>1. /\ ControlAt(q) /\ GovernedAt(q)
      /\ pc'[q] = pc[q] /\ job'[q] = job[q] /\ work'[q] = work[q]
      /\ \A l \in Locks : lock'[l] = q <=> lock[l] = q
  BY DEF GInv, Control, Apart
<1>2. lock["active-epoch"] = q => DOMAIN active' \subseteq DOMAIN active
  BY DEF Apart, Drop
<1>3. LocksHeld(q)' /\ JobFits(q)'
  BY <1>1 DEF ControlAt, LocksHeld, JobFits, Locks
<1>4. FoundHolds(q)'
  BY <1>1, <1>2 DEF Apart, ControlAt, FoundHolds, LocksHeld, InEpochLock
<1>5. DriveSeen(q)'
  BY <1>1 DEF Apart, ControlAt, DriveSeen, NeedsDrive
<1>6. WorkFits(q)' /\ GovernedLocks(q)'
  BY <1>1 DEF GovernedAt, WorkFits, GovernedLocks, AtOwnership, Locks
<1>7. GovernedFound(q)'
  BY <1>1, <1>2 DEF Apart, GovernedAt, GovernedFound, GovernedLocks
<1> QED
  BY <1>3, <1>4, <1>5, <1>6, <1>7 DEF ControlAt, GovernedAt

\* And the process that takes it is outside the epoch commands.
LEMMA ApartOwn ==
  ASSUME GInv, NEW p \in Procs, Apart(p)
  PROVE  ControlAt(p)'
<1>1. ControlAt(p) /\ pc[p] \in GovernedPCs \union {"idle"} /\ pc'[p] \in GovernedPCs \union {"idle"}
      /\ (job'[p] = job[p] \/ job'[p] = NoJob)
  BY DEF GInv, Control, Apart
<1>2. LocksHeld(p)' /\ FoundHolds(p)' /\ DriveSeen(p)'
  BY <1>1 DEF LocksHeld, FoundHolds, DriveSeen, InEpochLock, InRuntime, GovernedPCs
<1>3. JobFits(p)'
  BY <1>1, BlankFits DEF ControlAt, JobFits, GovernedPCs
<1> QED
  BY <1>2, <1>3 DEF ControlAt

\* It begins with what it was asked for, and without a lock.
LEMMA Begun ==
  ASSUME GInv, NEW p \in Procs, BeginGovernedStart(p) \/ BeginOwnership(p)
  PROVE  /\ pc[p] = "idle" /\ pc'[p] \in {"start-lock", "own-lock"}
         /\ pc'[p] = "start-lock" => work'[p].op = "start"
         /\ pc'[p] = "own-lock" =>
              work'[p].op \in {"claim", "close", "fail"} /\ work'[p].own \in Owners
         /\ work'[p] \in Work /\ work'[p].op # "none" /\ work'[p].task \in Tasks
         /\ work'[p].epoch = "none" /\ ~work'[p].bound /\ ~work'[p].audited
         /\ UNCHANGED <<files, lock, own, audit, torn, reported>>
<1>0. pc \in [Procs -> Steps] /\ work \in [Procs -> Work]
  BY DEF GInv, GovernedTypeOK, TypedWith, Steps
<1>1. CASE BeginGovernedStart(p)
  <2>1. PICK t \in Tasks, o \in Owners \union {"none"} :
          Enter(p, "start-lock", [NoWork EXCEPT !.op = "start", !.task = t, !.own = o])
    BY <1>1 DEF BeginGovernedStart
  <2> DEFINE w == [NoWork EXCEPT !.op = "start", !.task = t, !.own = o]
  <2>2. /\ w \in Work /\ w.op = "start" /\ w.task = t /\ w.own = o /\ w.epoch = "none"
        /\ ~w.bound /\ ~w.audited
    BY BegunWork
  <2> HIDE DEF w
  <2>3. /\ pc[p] = "idle" /\ pc'[p] = "start-lock" /\ work'[p] = w
        /\ UNCHANGED <<files, lock, own, audit, torn, reported>>
    BY <1>0, <2>1 DEF Enter, Notes, Goto, w
  <2> QED
    BY <2>2, <2>3
<1>2. CASE BeginOwnership(p)
  <2>1. PICK op \in {"claim", "close", "fail"}, t \in Tasks, o \in Owners :
          Enter(p, "own-lock", [NoWork EXCEPT !.op = op, !.task = t, !.own = o])
    BY <1>2 DEF BeginOwnership
  <2> DEFINE w == [NoWork EXCEPT !.op = op, !.task = t, !.own = o]
  <2>2. /\ w \in Work /\ w.op = op /\ w.task = t /\ w.own = o /\ w.epoch = "none"
        /\ ~w.bound /\ ~w.audited
    <3>1. op \in {"start", "claim", "close", "fail"} /\ o \in Owners \union {"none"}
      OBVIOUS
    <3> QED
      BY <3>1, BlankWork DEF Work
  <2> HIDE DEF w
  <2>3. /\ pc[p] = "idle" /\ pc'[p] = "own-lock" /\ work'[p] = w
        /\ UNCHANGED <<files, lock, own, audit, torn, reported>>
    BY <1>0, <2>1 DEF Enter, Notes, Goto, w
  <2> QED
    BY <2>2, <2>3
<1> QED
  BY <1>1, <1>2

\* It moves on with what its next step needs.
LEMMA GovernedFits ==
  ASSUME GInv, NEW p \in Procs, BeginGovernedStart(p) \/ BeginOwnership(p) \/ GovernedStep(p)
  PROVE  WorkFits(p)'
<1> USE DEF Goto, Keeps, Notes, GovernedPCs, StartOnly, MoveOnly
<1>0. /\ pc \in [Procs -> Steps] /\ work \in [Procs -> Work] /\ work[p] \in Work /\ WorkFits(p)
      /\ "none" \notin Owners
  BY GovernedAssumption DEF GInv, GovernedAt, GovernedTypeOK, TypedWith, Steps
<1>1. CASE TakeRuntime(p)
  BY <1>0, <1>1, BlankWork DEF TakeRuntime, WorkFits, Work, Take, Exits, Finish
<1>2. CASE TakeOwnership(p)
  BY <1>0, <1>2, BlankWork DEF TakeOwnership, WorkFits, Work, Take, Exits, Finish
<1>3. CASE TakeEpochLock(p)
  BY <1>0, <1>3, BlankWork DEF TakeEpochLock, WorkFits, Work, Take, Unlock
<1>4. CASE Look(p)
  BY <1>0, <1>4, BlankWork DEF Look, WorkFits, Work
<1>5. CASE ValidateOwnership(p)
  BY <1>0, <1>5, BlankWork DEF ValidateOwnership, WorkFits, Work
<1>6. CASE LoadActive(p)
  BY <1>0, <1>6, BlankWork DEF LoadActive, WorkFits, Work
<1>7. CASE WriteEpoch(p)
  BY <1>0, <1>7, BlankWork DEF WriteEpoch, WorkFits, Work, FreshIds
<1>8. CASE LeaveEpochLock(p)
  <2>1. /\ work' = work /\ pc[p] = "start-release"
        /\ \/ pc'[p] = "exit"
           \/ pc'[p] = "own-unlock" /\ work[p].own # "none"
           \/ pc'[p] = "bind" /\ work[p].epoch # "none" /\ work[p].own # "none"
           \/ pc'[p] = "audit-lock" /\ work[p].epoch # "none" /\ work[p].own = "none"
    BY <1>0, <1>8 DEF LeaveEpochLock, Unlock
  <2>2. work[p].own \in Owners \union {"none"} /\ work[p].epoch \in Epochs \union {"none"}
    BY <1>0 DEF Work
  <2> QED
    BY <1>0, <2>1, <2>2 DEF WorkFits
<1>9. CASE Bind(p)
  BY <1>0, <1>9, BlankWork DEF Bind, WorkFits, Work
<1>10. CASE BindFails(p)
  BY <1>0, <1>10, BlankWork DEF BindFails, WorkFits, Work
<1>11. CASE RollBackEpoch(p)
  BY <1>0, <1>11, BlankWork DEF RollBackEpoch, WorkFits, Work, AfterRollback, Unlock
<1>12. CASE RollbackFails(p)
  BY <1>0, <1>12, BlankWork DEF RollbackFails, WorkFits, Work, AfterRollback, Unlock
<1>13. CASE Unbind(p)
  BY <1>0, <1>13, BlankWork DEF Unbind, WorkFits, Work
<1>14. CASE UnbindFails(p)
  BY <1>0, <1>14, BlankWork DEF UnbindFails, WorkFits, Work
<1>15. CASE OpenAudit(p)
  <2>1. \/ pc'[p] = "append" /\ work'[p] = [work[p] EXCEPT !.tip = Len(audit)]
        \/ pc'[p] \in {"rollback", "revert"} /\ work'[p] = work[p]
    BY <1>0, <1>15 DEF OpenAudit, Undoing
  <2>2. /\ work'[p].op = work[p].op /\ work'[p].task = work[p].task /\ work'[p].own = work[p].own
        /\ work'[p].epoch = work[p].epoch /\ work'[p].bound = work[p].bound
        /\ work'[p].audited = work[p].audited
    BY <1>0, <2>1 DEF Work
  <2>3. /\ pc[p] = "audit-lock"
        /\ pc'[p] = "rollback" => work[p].op = "start"
        /\ pc'[p] = "revert" => work[p].op # "start"
    BY <1>0, <1>15 DEF OpenAudit, Undoing
  <2> QED
    BY <1>0, <2>1, <2>2, <2>3 DEF WorkFits
<1>16. CASE AppendAudit(p)
  BY <1>0, <1>16, BlankWork DEF AppendAudit, WorkFits, Work
<1>17. CASE AppendFails(p)
  BY <1>0, <1>17, BlankWork DEF AppendFails, WorkFits, Work
<1>18. CASE CloseAudit(p)
  BY <1>0, <1>18, BlankWork DEF CloseAudit, WorkFits, Work, Undoing, Unlock
<1>19. CASE Claim(p)
  BY <1>0, <1>19, BlankWork DEF Claim, WorkFits, Work
<1>20. CASE CloseLoad(p)
  BY <1>0, <1>20, BlankWork DEF CloseLoad, WorkFits, Work
<1>21. CASE OwnershipRefused(p)
  BY <1>0, <1>21, BlankWork DEF OwnershipRefused, WorkFits, Work
<1>22. CASE MoveRecord(p)
  BY <1>0, <1>22, BlankWork DEF MoveRecord, WorkFits, Work
<1>23. CASE DropSource(p)
  BY <1>0, <1>23, BlankWork DEF DropSource, WorkFits, Work
<1>24. CASE DropSourceFails(p)
  BY <1>0, <1>24, BlankWork DEF DropSourceFails, WorkFits, Work
<1>25. CASE RevertClaim(p)
  BY <1>0, <1>25, BlankWork DEF RevertClaim, WorkFits, Work
<1>26. CASE RevertMove(p)
  BY <1>0, <1>26, BlankWork DEF RevertMove, WorkFits, Work
<1>27. CASE DropDestination(p)
  BY <1>0, <1>27, BlankWork DEF DropDestination, WorkFits, Work
<1>28. CASE RevertFails(p)
  BY <1>0, <1>28, BlankWork DEF RevertFails, WorkFits, Work
<1>29. CASE LeaveOwnership(p)
  BY <1>0, <1>29, BlankWork DEF LeaveOwnership, WorkFits, Work, Exits, Finish
<1>30. CASE LeaveRuntime(p)
  BY <1>0, <1>30, BlankWork DEF LeaveRuntime, WorkFits, Work, Exits, Finish
<1>31. CASE BeginGovernedStart(p) \/ BeginOwnership(p)
  BY <1>0, <1>31, Begun DEF WorkFits
<1> QED
  BY <1>1, <1>2, <1>3, <1>4, <1>5, <1>6, <1>7, <1>8, <1>9, <1>10, <1>11, <1>12, <1>13, <1>14,
     <1>15, <1>16, <1>17, <1>18, <1>19, <1>20, <1>21, <1>22, <1>23, <1>24, <1>25, <1>26, <1>27,
     <1>28, <1>29, <1>30, <1>31
     DEF GovernedStep

\* It has the locks its next step is under, and no more.
LEMMA GovernedHolds ==
  ASSUME GInv, NEW p \in Procs, BeginGovernedStart(p) \/ BeginOwnership(p) \/ GovernedStep(p)
  PROVE  GovernedLocks(p)'
<1> USE DEF Goto, Keeps, Notes, GovernedPCs, StartOnly, MoveOnly
<1>0. /\ pc \in [Procs -> Steps] /\ work \in [Procs -> Work] /\ work[p] \in Work
      /\ lock \in [Locks -> Procs \union {Free, Stale}] /\ Free \notin Procs
      /\ WorkFits(p) /\ GovernedLocks(p) /\ "none" \notin Owners
  BY GovernedAssumption, EpochLifecycleAssumption
     DEF GInv, GovernedAt, GovernedTypeOK, TypedWith, Steps, Free
<1>1. CASE TakeRuntime(p)
  BY <1>0, <1>1, BlankWork
     DEF TakeRuntime, GovernedLocks, AtOwnership, OwnSteps, WorkFits, Work, Locks, Granted,
         Release, Take, Exits, Finish
<1>2. CASE TakeOwnership(p)
  BY <1>0, <1>2, BlankWork
     DEF TakeOwnership, GovernedLocks, AtOwnership, OwnSteps, WorkFits, Work, Locks, Granted,
         Release, Take, Exits, Finish
<1>3. CASE TakeEpochLock(p)
  BY <1>0, <1>3, BlankWork
     DEF TakeEpochLock, GovernedLocks, AtOwnership, OwnSteps, WorkFits, Work, Locks, Granted,
         Release, Take, Unlock
<1>4. CASE Look(p)
  BY <1>0, <1>4, BlankWork
     DEF Look, GovernedLocks, AtOwnership, OwnSteps, WorkFits, Work, Locks, Granted, Release
<1>5. CASE ValidateOwnership(p)
  BY <1>0, <1>5, BlankWork
     DEF ValidateOwnership, GovernedLocks, AtOwnership, OwnSteps, WorkFits, Work, Locks,
         Granted, Release
<1>6. CASE LoadActive(p)
  BY <1>0, <1>6, BlankWork
     DEF LoadActive, GovernedLocks, AtOwnership, OwnSteps, WorkFits, Work, Locks, Granted, Release
<1>7. CASE WriteEpoch(p)
  BY <1>0, <1>7, BlankWork
     DEF WriteEpoch, GovernedLocks, AtOwnership, OwnSteps, WorkFits, Work, Locks, Granted,
         Release, FreshIds
<1>8. CASE LeaveEpochLock(p)
  BY <1>0, <1>8, BlankWork
     DEF LeaveEpochLock, GovernedLocks, AtOwnership, OwnSteps, WorkFits, Work, Locks, Granted,
         Release, Unlock
<1>9. CASE Bind(p)
  BY <1>0, <1>9, BlankWork
     DEF Bind, GovernedLocks, AtOwnership, OwnSteps, WorkFits, Work, Locks, Granted, Release
<1>10. CASE BindFails(p)
  BY <1>0, <1>10, BlankWork
     DEF BindFails, GovernedLocks, AtOwnership, OwnSteps, WorkFits, Work, Locks, Granted, Release
<1>11. CASE RollBackEpoch(p)
  BY <1>0, <1>11, BlankWork
     DEF RollBackEpoch, GovernedLocks, AtOwnership, OwnSteps, WorkFits, Work, Locks, Granted,
         Release, AfterRollback, Unlock
<1>12. CASE RollbackFails(p)
  BY <1>0, <1>12, BlankWork
     DEF RollbackFails, GovernedLocks, AtOwnership, OwnSteps, WorkFits, Work, Locks, Granted,
         Release, AfterRollback, Unlock
<1>13. CASE Unbind(p)
  BY <1>0, <1>13, BlankWork
     DEF Unbind, GovernedLocks, AtOwnership, OwnSteps, WorkFits, Work, Locks, Granted, Release
<1>14. CASE UnbindFails(p)
  BY <1>0, <1>14, BlankWork
     DEF UnbindFails, GovernedLocks, AtOwnership, OwnSteps, WorkFits, Work, Locks, Granted,
         Release
<1>15. CASE OpenAudit(p)
  BY <1>0, <1>15, BlankWork
     DEF OpenAudit, GovernedLocks, AtOwnership, OwnSteps, WorkFits, Work, Locks, Granted,
         Release, Undoing
<1>16. CASE AppendAudit(p)
  BY <1>0, <1>16, BlankWork
     DEF AppendAudit, GovernedLocks, AtOwnership, OwnSteps, WorkFits, Work, Locks, Granted,
         Release
<1>17. CASE AppendFails(p)
  BY <1>0, <1>17, BlankWork
     DEF AppendFails, GovernedLocks, AtOwnership, OwnSteps, WorkFits, Work, Locks, Granted,
         Release
<1>18. CASE CloseAudit(p)
  BY <1>0, <1>18, BlankWork
     DEF CloseAudit, GovernedLocks, AtOwnership, OwnSteps, WorkFits, Work, Locks, Granted,
         Release, Undoing, Unlock
<1>19. CASE Claim(p)
  BY <1>0, <1>19, BlankWork
     DEF Claim, GovernedLocks, AtOwnership, OwnSteps, WorkFits, Work, Locks, Granted, Release
<1>20. CASE CloseLoad(p)
  BY <1>0, <1>20, BlankWork
     DEF CloseLoad, GovernedLocks, AtOwnership, OwnSteps, WorkFits, Work, Locks, Granted, Release
<1>21. CASE OwnershipRefused(p)
  BY <1>0, <1>21, BlankWork
     DEF OwnershipRefused, GovernedLocks, AtOwnership, OwnSteps, WorkFits, Work, Locks, Granted,
         Release
<1>22. CASE MoveRecord(p)
  BY <1>0, <1>22, BlankWork
     DEF MoveRecord, GovernedLocks, AtOwnership, OwnSteps, WorkFits, Work, Locks, Granted, Release
<1>23. CASE DropSource(p)
  BY <1>0, <1>23, BlankWork
     DEF DropSource, GovernedLocks, AtOwnership, OwnSteps, WorkFits, Work, Locks, Granted, Release
<1>24. CASE DropSourceFails(p)
  BY <1>0, <1>24, BlankWork
     DEF DropSourceFails, GovernedLocks, AtOwnership, OwnSteps, WorkFits, Work, Locks, Granted,
         Release
<1>25. CASE RevertClaim(p)
  BY <1>0, <1>25, BlankWork
     DEF RevertClaim, GovernedLocks, AtOwnership, OwnSteps, WorkFits, Work, Locks, Granted,
         Release
<1>26. CASE RevertMove(p)
  BY <1>0, <1>26, BlankWork
     DEF RevertMove, GovernedLocks, AtOwnership, OwnSteps, WorkFits, Work, Locks, Granted, Release
<1>27. CASE DropDestination(p)
  BY <1>0, <1>27, BlankWork
     DEF DropDestination, GovernedLocks, AtOwnership, OwnSteps, WorkFits, Work, Locks, Granted,
         Release
<1>28. CASE RevertFails(p)
  BY <1>0, <1>28, BlankWork
     DEF RevertFails, GovernedLocks, AtOwnership, OwnSteps, WorkFits, Work, Locks, Granted,
         Release
<1>29. CASE LeaveOwnership(p)
  BY <1>0, <1>29, BlankWork
     DEF LeaveOwnership, GovernedLocks, AtOwnership, OwnSteps, WorkFits, Work, Locks, Granted,
         Release, Exits, Finish
<1>30. CASE LeaveRuntime(p)
  BY <1>0, <1>30, BlankWork
     DEF LeaveRuntime, GovernedLocks, AtOwnership, OwnSteps, WorkFits, Work, Locks, Granted,
         Release, Exits, Finish
<1>31. CASE BeginGovernedStart(p) \/ BeginOwnership(p)
  BY <1>0, <1>31, Begun DEF GovernedLocks, AtOwnership, OwnSteps, WorkFits, Locks
<1> QED
  BY <1>1, <1>2, <1>3, <1>4, <1>5, <1>6, <1>7, <1>8, <1>9, <1>10, <1>11, <1>12, <1>13, <1>14,
     <1>15, <1>16, <1>17, <1>18, <1>19, <1>20, <1>21, <1>22, <1>23, <1>24, <1>25, <1>26, <1>27,
     <1>28, <1>29, <1>30, <1>31
     DEF GovernedStep

\* The actions that write or delete a record, an epoch or a line of the log.
LEMMA GovernedWriters ==
  ASSUME NEW p \in Procs, BeginGovernedStart(p) \/ BeginOwnership(p) \/ GovernedStep(p)
  PROVE  /\ UNCHANGED active \/ WriteEpoch(p) \/ RollBackEpoch(p)
         /\ UNCHANGED audit \/ AppendAudit(p)
         /\ \/ UNCHANGED <<own, reported>>
            \/ Bind(p) \/ Unbind(p) \/ UnbindFails(p)
            \/ Claim(p) \/ MoveRecord(p) \/ DropSource(p) \/ RevertClaim(p) \/ RevertMove(p)
            \/ DropDestination(p) \/ RevertFails(p)
<1> DEFINE Same == UNCHANGED <<active, own, audit, reported>>
<1>1. CASE BeginGovernedStart(p) \/ BeginOwnership(p)
  BY <1>1 DEF BeginGovernedStart, BeginOwnership, Enter, files
<1>2. CASE TakeRuntime(p) \/ TakeOwnership(p) \/ TakeEpochLock(p)
  BY <1>2 DEF TakeRuntime, TakeOwnership, TakeEpochLock, Take, files
<1>3. CASE \/ Look(p) \/ ValidateOwnership(p) \/ LoadActive(p) \/ LeaveEpochLock(p)
           \/ BindFails(p) \/ RollbackFails(p) \/ OpenAudit(p) \/ AppendFails(p)
           \/ CloseAudit(p) \/ CloseLoad(p) \/ OwnershipRefused(p) \/ DropSourceFails(p)
           \/ LeaveOwnership(p) \/ LeaveRuntime(p)
  BY <1>3 DEF Look, ValidateOwnership, LoadActive, LeaveEpochLock, BindFails, RollbackFails,
              OpenAudit, AppendFails, CloseAudit, CloseLoad, OwnershipRefused,
              DropSourceFails, LeaveOwnership, LeaveRuntime, files
<1>4. CASE WriteEpoch(p) \/ RollBackEpoch(p)
  BY <1>4 DEF WriteEpoch, RollBackEpoch
<1>5. CASE AppendAudit(p)
  BY <1>5 DEF AppendAudit, files
<1>6. CASE \/ Bind(p) \/ Unbind(p) \/ UnbindFails(p) \/ Claim(p) \/ MoveRecord(p)
           \/ DropSource(p) \/ RevertClaim(p) \/ RevertMove(p) \/ DropDestination(p)
           \/ RevertFails(p)
  BY <1>6 DEF Bind, Unbind, UnbindFails, Claim, MoveRecord, DropSource, RevertClaim,
              RevertMove, DropDestination, RevertFails, files
<1> QED
  BY <1>1, <1>2, <1>3, <1>4, <1>5, <1>6 DEF GovernedStep

\* What p found under a lock holds when it is about to act on it.
LEMMA GovernedFinds ==
  ASSUME GInv, NEW p \in Procs, BeginGovernedStart(p) \/ BeginOwnership(p) \/ GovernedStep(p)
  PROVE  GovernedFound(p)'
<1> USE DEF Goto, Keeps, Notes
<1>0. pc \in [Procs -> Steps] /\ work \in [Procs -> Work] /\ work[p] \in Work
  BY DEF GInv, GovernedTypeOK, TypedWith, Steps
<1> SUFFICES ASSUME pc'[p] \in {"start-write", "append"} PROVE GovernedFound(p)'
  BY DEF GovernedFound
<1>1. LoadActive(p) \/ OpenAudit(p)
  <2>1. CASE BeginGovernedStart(p) \/ BeginOwnership(p)
    BY <2>1, Begun
  <2>2. CASE TakeRuntime(p) \/ TakeOwnership(p) \/ TakeEpochLock(p)
    BY <1>0, <2>2 DEF TakeRuntime, TakeOwnership, TakeEpochLock, Take, Exits, Finish, Unlock
  <2>3. CASE \/ Look(p) \/ ValidateOwnership(p) \/ WriteEpoch(p) \/ LeaveEpochLock(p)
             \/ Bind(p) \/ BindFails(p) \/ RollBackEpoch(p) \/ RollbackFails(p) \/ Unbind(p)
             \/ UnbindFails(p)
    BY <1>0, <2>3 DEF Look, ValidateOwnership, WriteEpoch, LeaveEpochLock, Bind, BindFails,
                      RollBackEpoch, RollbackFails, Unbind, UnbindFails, AfterRollback, Unlock
  <2>4. CASE AppendAudit(p) \/ AppendFails(p) \/ CloseAudit(p)
    BY <1>0, <2>4 DEF AppendAudit, AppendFails, CloseAudit, Undoing, Unlock
  <2>5. CASE \/ Claim(p) \/ CloseLoad(p) \/ OwnershipRefused(p) \/ MoveRecord(p)
             \/ DropSource(p) \/ DropSourceFails(p) \/ RevertClaim(p) \/ RevertMove(p)
             \/ DropDestination(p) \/ RevertFails(p) \/ LeaveOwnership(p) \/ LeaveRuntime(p)
    BY <1>0, <2>5 DEF Claim, CloseLoad, OwnershipRefused, MoveRecord, DropSource,
                      DropSourceFails, RevertClaim, RevertMove, DropDestination, RevertFails,
                      LeaveOwnership, LeaveRuntime, Exits, Finish
  <2> QED
    BY <2>1, <2>2, <2>3, <2>4, <2>5 DEF GovernedStep
<1>2. CASE LoadActive(p)
  BY <1>0, <1>2 DEF LoadActive, GovernedFound, files
<1>3. CASE OpenAudit(p)
  <2>1. pc'[p] = "append" => work'[p] = [work[p] EXCEPT !.tip = Len(audit)]
    BY <1>0, <1>3 DEF OpenAudit, Undoing
  <2> QED
    BY <1>0, <1>3, <2>1 DEF OpenAudit, GovernedFound, Undoing, Work
<1> QED
  BY <1>1, <1>2, <1>3

\* Two appends never share a tip: the tip was read under the lock that the
\* append is under.
LEMMA ChainStep ==
  ASSUME GInv, NEW p \in Procs, BeginGovernedStart(p) \/ BeginOwnership(p) \/ GovernedStep(p)
  PROVE  ChainUnbroken'
<1>1. CASE UNCHANGED audit
  BY <1>1 DEF GInv, ChainUnbroken
<1>2. CASE AppendAudit(p)
  <2>1. audit \in Seq(Event) /\ audit' = Append(audit, EventOf(work[p]))
    BY <1>2 DEF AppendAudit, GInv, GovernedTypeOK
  <2>2. EventOf(work[p]).prev = Len(audit)
    BY <1>2 DEF AppendAudit, GInv, GovernedAt, GovernedFound, EventOf
  <2>3. ASSUME NEW i \in DOMAIN audit' PROVE audit'[i].prev = i - 1
    <3>1. CASE i \in DOMAIN audit
      BY <2>1, <3>1 DEF GInv, ChainUnbroken
    <3>2. CASE i = Len(audit) + 1
      BY <2>1, <2>2, <3>2
    <3> QED
      BY <2>1, <3>1, <3>2
  <2> QED
    BY <2>3 DEF ChainUnbroken
<1> QED
  BY <1>1, <1>2, GovernedWriters

\* A governed start writes its epoch only while none is active.
LEMMA StartsOne ==
  ASSUME GInv, NEW p \in Procs, BeginGovernedStart(p) \/ BeginOwnership(p) \/ GovernedStep(p)
  PROVE  AtMostOneActive'
<1>0. AtMostOneActive /\ GovernedFound(p)
  BY DEF GInv, Control, GovernedAt
<1>1. CASE UNCHANGED active
  BY <1>0, <1>1 DEF AtMostOneActive
<1>2. CASE WriteEpoch(p)
  BY <1>0, <1>2 DEF WriteEpoch, GovernedFound, Put, AtMostOneActive
<1>3. CASE RollBackEpoch(p)
  BY <1>0, <1>3 DEF RollBackEpoch, Drop, AtMostOneActive
<1> QED
  BY <1>1, <1>2, <1>3, GovernedWriters

\* So the invariant survives it.
LEMMA GovernedInductive ==
  ASSUME GInv, NEW p \in Procs, BeginGovernedStart(p) \/ BeginOwnership(p) \/ GovernedStep(p)
  PROVE  GInv'
<1>1. Apart(p)
  BY GovernedApart
<1>2. GovernedTypeOK'
  BY EnterType, GovernedTypeStep DEF GInv
<1>3. \A q \in Procs : ControlAt(q)'
  BY <1>1, ApartKeeps, ApartOwn
<1>4. \A q \in Procs : GovernedAt(q)'
  <2>1. GovernedAt(p)'
    BY GovernedFits, GovernedHolds, GovernedFinds DEF GovernedAt
  <2> QED
    BY <1>1, <2>1, ApartKeeps
<1> QED
  BY <1>2, <1>3, <1>4, ChainStep, StartsOne DEF GInv, Control

------------------------------------------------------------------------------
(* A step of an epoch command                                               *)

\* What it leaves alone: a process of the other kind only dies, a lock that
\* one holds stays its lock, and the locks of the ownership records and of the
\* log only become stale, when their holder dies, or are cleared.
Dies(q) == pc'[q] = "idle"
LockKept(l) ==
  \/ lock'[l] = lock[l]
  \/ lock[l] \in Procs /\ Dies(lock[l]) /\ lock'[l] = Stale /\ "crash" \in Faults
  \/ lock[l] = Stale /\ lock'[l] = Free
Aside(q) ==
  /\ pc[q] \in GovernedPCs =>
       \/ Dies(q) /\ \A l \in Locks : lock[l] = q => lock'[l] = Stale
       \/ pc'[q] = pc[q] /\ \A l \in Locks : lock[l] = q => lock'[l] = q
  /\ pc[q] \notin GovernedPCs => pc'[q] \notin GovernedPCs

LEMMA EpochApart ==
  ASSUME GInv, [Next]_vars
  PROVE  /\ \A q \in Procs : Aside(q)
         /\ LockKept("work-ownership") /\ LockKept("audit-events")
<1> DEFINE All == /\ \A q \in Procs : Aside(q)
                  /\ LockKept("work-ownership") /\ LockKept("audit-events")
<1> SUFFICES All
  OBVIOUS
<1> USE DEF Goto, Aside, LockKept, Dies, Locks, GovernedPCs
<1>0. /\ pc \in [Procs -> Steps] /\ Free \notin Procs /\ Stale \notin Procs
      /\ lock \in [Locks -> Procs \union {Free, Stale}] /\ \A p \in Procs : LocksHeld(p) /\ JobFits(p)
  BY EpochLifecycleAssumption
     DEF GInv, GovernedTypeOK, TypedWith, Steps, Control, ControlAt, Free, Stale
<1>1. CASE UNCHANGED vars
  BY <1>1 DEF vars
<1>2. ASSUME NEW p \in Procs, Invoke(p) PROVE All
  BY <1>0, <1>2 DEF Invoke, BeginStart, BeginComplete, BeginFail, BeginBrake, BeginSelfCheck,
              BeginCloseout, Begin
<1>3. ASSUME NEW p \in Procs, AcquireRuntime(p) \/ AcquireEpochLock(p) PROVE All
  BY <1>0, <1>3 DEF AcquireRuntime, AcquireEpochLock, Acquire, Granted, Finish
<1>4. ASSUME NEW p \in Procs, ReleaseEpochLock(p) PROVE All
  BY <1>0, <1>4 DEF ReleaseEpochLock, Release, Finish, LocksHeld, InEpochLock
<1>5. ASSUME NEW p \in Procs, ReleaseRuntime(p) PROVE All
  BY <1>0, <1>5 DEF ReleaseRuntime, Release, Finish, LocksHeld, JobFits, InRuntime
<1>6. ASSUME NEW p \in Procs, SetBrake(p) \/ CheckBrake(p) \/ ObserveBrake(p)
      PROVE  All
  BY <1>0, <1>6 DEF SetBrake, CheckBrake, ObserveBrake
<1>7. ASSUME NEW p \in Procs,
             \/ StartLoad(p) \/ StartWrite(p) \/ CompleteLoad(p) \/ FailLoad(p) \/ CheckLoad(p)
             \/ CloseoutLoad(p) \/ Rewrite(p)
      PROVE  All
  BY <1>0, <1>7 DEF StartLoad, StartWrite, CompleteLoad, FailLoad, CheckLoad, CloseoutLoad,
                    Rewrite
<1>8. ASSUME NEW p \in Procs,
             \/ WriteTerminal(p) \/ UnlinkActive(p) \/ UnlinkFails(p) \/ UndoTerminal(p)
             \/ UndoFails(p)
      PROVE  All
  BY <1>0, <1>8 DEF WriteTerminal, UnlinkActive, UnlinkFails, UndoTerminal, UndoFails
<1>9. ASSUME NEW p \in Procs, View(p) \/ Decide(p) \/ ReadRun(p) PROVE All
  BY <1>0, <1>9 DEF View, Decide, ReadRun, Finish
<1>10. ASSUME NEW p \in Procs, RecordRun(p) \/ AuditAppended(p) \/ AuditFails(p)
       PROVE  All
  BY <1>0, <1>10 DEF RecordRun, AuditAppended, AuditFails, Finish
<1>11. ASSUME NEW p \in Procs, Crash(p) PROVE All
  BY <1>0, <1>11 DEF Crash, Finish
<1>12. ASSUME NEW e \in Epochs, Age(e) PROVE All
  BY <1>12 DEF Age
<1>13. ASSUME NEW l \in Locks, ClearStaleLock(l) PROVE All
  BY <1>0, <1>13 DEF ClearStaleLock, Release
<1> HIDE DEF All
<1> QED
  BY <1>1, <1>2, <1>3, <1>4, <1>5, <1>6, <1>7, <1>8, <1>9, <1>10, <1>11, <1>12, <1>13
     DEF Next, Step

\* What a governed start found survives an epoch command's step: an epoch
\* becomes active only under the lock the start holds.
LEMMA EpochKeeps ==
  ASSUME GInv, EpochStep, NEW q \in Procs
  PROVE  GovernedAt(q)'
<1>0. /\ pc \in [Procs -> Steps] /\ WorkFits(q) /\ GovernedLocks(q) /\ GovernedFound(q)
      /\ lock \in [Locks -> Procs \union {Free, Stale}] /\ q # Stale /\ q # Free
      /\ \A p \in Procs : LocksHeld(p) /\ FoundHolds(p)
  BY EpochLifecycleAssumption
     DEF GInv, GovernedAt, GovernedTypeOK, TypedWith, Steps, Control, ControlAt, Free, Stale
<1>1. /\ Aside(q) /\ LockKept("work-ownership") /\ UNCHANGED audit
      /\ work'[q] = IF pc'[q] = "idle" THEN NoWork ELSE work[q]
  BY EpochApart DEF EpochStep
<1>2. CASE pc'[q] \notin GovernedPCs
  <2>1. work'[q] = NoWork
    BY <1>0, <1>1, <1>2 DEF WorkFits, Aside, Dies
  <2>2. WorkFits(q)'
    BY <1>2, <2>1, BlankWork DEF WorkFits, StartOnly, MoveOnly, GovernedPCs
  <2>3. lock'["work-ownership"] # q
    <3>1. lock["work-ownership"] = q => lock'["work-ownership"] = Stale
      BY <1>0, <1>1, <1>2 DEF Aside, GovernedLocks, AtOwnership, OwnSteps, Locks
    <3> QED
      BY <1>0, <1>1, <3>1 DEF LockKept
  <2>4. GovernedLocks(q)'
    BY <1>2, <2>1, <2>3, BlankWork DEF GovernedLocks, AtOwnership, OwnSteps, GovernedPCs
  <2> QED
    BY <1>2, <2>2, <2>4 DEF GovernedAt, GovernedFound, GovernedPCs
<1>3. CASE pc'[q] \in GovernedPCs
  <2>1. pc'[q] = pc[q] /\ work'[q] = work[q] /\ \A l \in Locks : lock[l] = q => lock'[l] = q
    BY <1>1, <1>3 DEF Aside, Dies, GovernedPCs
  <2>2. WorkFits(q)'
    BY <1>0, <2>1 DEF WorkFits
  <2>3. lock'["work-ownership"] = q => lock["work-ownership"] = q
    BY <1>0, <1>1 DEF LockKept
  <2>4. GovernedLocks(q)'
    BY <1>0, <2>1, <2>3 DEF GovernedLocks, AtOwnership, Locks
  <2>5. pc[q] = "start-write" => DOMAIN active' = {}
    <3>1. SUFFICES ASSUME pc[q] = "start-write" PROVE DOMAIN active' = {}
      OBVIOUS
    <3>2. DOMAIN active = {} /\ lock["active-epoch"] = q
      BY <1>0, <3>1 DEF GovernedFound, GovernedLocks
    <3>3. ASSUME NEW p \in Procs, StartWrite(p) \/ Rewrite(p) PROVE FALSE
      BY <1>0, <3>1, <3>2, <3>3 DEF StartWrite, Rewrite, LocksHeld, InEpochLock
    <3>4. CASE UNCHANGED active
      BY <3>2, <3>4
    <3>5. ASSUME NEW p \in Procs, UnlinkActive(p) PROVE DOMAIN active' = {}
      BY <3>2, <3>5 DEF UnlinkActive, Drop
    <3> QED
      BY <3>3, <3>4, <3>5, Writers DEF EpochStep, WriteTerminal, UndoTerminal
  <2> QED
    BY <1>0, <1>1, <2>1, <2>2, <2>4, <2>5 DEF GovernedAt, GovernedFound
<1> QED
  BY <1>2, <1>3

\* The invariant survives a step of an epoch command,
LEMMA EpochInductive ==
  ASSUME GInv, EpochStep
  PROVE  GInv'
<1>0. /\ PCs \subseteq Steps /\ TypedWith(Steps) /\ Control /\ [Next]_vars
      /\ work \in [Procs -> Work] /\ NoWork \in Work
  BY BlankWork DEF GInv, GovernedTypeOK, Steps, EpochStep
<1>1. TypedWith(Steps)' /\ Control'
  BY <1>0, TypeStep, ControlStep
<1>2. work' \in [Procs -> Work]
  BY <1>0 DEF EpochStep
<1>3. GovernedTypeOK'
  BY <1>1, <1>2 DEF GInv, GovernedTypeOK, Steps, EpochStep
<1>4. ChainUnbroken'
  BY DEF GInv, ChainUnbroken, EpochStep
<1> QED
  BY <1>1, <1>3, <1>4, EpochKeeps DEF GInv

\* and so any step.
LEMMA GovernedInvariant ==
  /\ GovernedInit => GInv
  /\ GInv /\ [GovernedNext]_allVars => GInv'
<1>1. ASSUME GovernedInit PROVE GInv
  <2>1. IInv
    BY <1>1, Initially DEF GovernedInit
  <2>2. TypedWith(Steps)
    BY <2>1 DEF IInv, TypeOK, TypedWith, Steps
  <2>3. GovernedTypeOK
    <3>1. OwnTyped
      BY <1>1 DEF GovernedInit, OwnTyped, NoOwnerships, NoFiles
    <3>2. audit \in Seq(Event)
      <4>1. audit = <<>>
        BY <1>1 DEF GovernedInit
      <4> QED
        BY <4>1, EmptySeq
    <3>4. torn \in BOOLEAN /\ reported \subseteq Owners
      <4>1. torn = FALSE /\ reported = {}
        BY <1>1 DEF GovernedInit
      <4> QED
        BY <4>1
    <3>3. work \in [Procs -> Work]
      BY <1>1, BlankWork DEF GovernedInit
    <3> QED
      BY <2>2, <3>1, <3>2, <3>3, <3>4 DEF GovernedTypeOK, Steps, OwnTyped
  <2>4. ASSUME NEW p \in Procs PROVE GovernedAt(p)
    <3>1. /\ pc[p] = "idle" /\ work[p] = NoWork /\ \A l \in Locks : lock[l] # p
      BY <1>1, EpochLifecycleAssumption DEF GovernedInit, Init, Free
    <3> QED
      BY <3>1, BlankWork
         DEF GovernedAt, WorkFits, GovernedLocks, GovernedFound, AtOwnership, OwnSteps,
             GovernedPCs,
             StartOnly, MoveOnly, Locks
  <2> QED
    BY <1>1, <2>1, <2>3, <2>4 DEF GInv, IInv, ChainUnbroken, GovernedInit
<1>2. ASSUME GInv, [GovernedNext]_allVars PROVE GInv'
  <2>1. CASE UNCHANGED allVars
    <3> USE DEF allVars, vars, gvars
    <3>1. GovernedTypeOK' /\ ChainUnbroken'
      BY <1>2, <2>1 DEF GInv, GovernedTypeOK, TypedWith, Directory, ChainUnbroken
    <3>2. Control'
      BY <1>2, <2>1 DEF GInv, Control, AtMostOneActive, ControlAt, LocksHeld, JobFits, FoundHolds,
                        DriveSeen, NeedsDrive, HoldsRuntime
    <3>3. \A p \in Procs : GovernedAt(p)'
      BY <1>2, <2>1 DEF GInv, GovernedAt, WorkFits, GovernedLocks, GovernedFound, AtOwnership
    <3> QED
      BY <3>1, <3>2, <3>3 DEF GInv
  <2>2. CASE EpochStep
    BY <1>2, <2>2, EpochInductive
  <2>3. ASSUME NEW p \in Procs, BeginGovernedStart(p) \/ BeginOwnership(p) \/ GovernedStep(p)
        PROVE  GInv'
    BY <1>2, <2>3, GovernedInductive
  <2> QED
    BY <1>2, <2>1, <2>2, <2>3 DEF GovernedNext
<1> QED
  BY <1>1, <1>2

\* Every file and every command holds what its type says, whatever races,
\* fails or dies.
THEOREM GovernedTypes == GovernedSpec => []GovernedTypeOK
<1>1. GInv => GovernedTypeOK
  BY DEF GInv
<1> QED
  BY <1>1, GovernedInvariant, PTL DEF GovernedSpec

\* The audit log is one chain: each record carries the hash of the record before
\* it, whoever appends and whoever dies appending (append_audit_record reads the
\* last hash and appends under one lock).
THEOREM LogIsOneChain == GovernedSpec => []ChainUnbroken
<1>1. GInv => ChainUnbroken
  BY DEF GInv
<1> QED
  BY <1>1, GovernedInvariant, PTL DEF GovernedSpec

\* At most one epoch is active also while governed starts run, although a start
\* that fails takes its epoch back without the lock.
THEOREM OneActiveGoverned == GovernedSpec => []AtMostOneActive
<1>1. GInv => AtMostOneActive
  BY DEF GInv, Control
<1> QED
  BY <1>1, GovernedInvariant, PTL DEF GovernedSpec


------------------------------------------------------------------------------
(* One owner                                                                *)

\* A command at work on a record knows where the record is, and a closeout that
\* has taken it out of the active directory has left its task to nobody.
ActiveFor(p) ==
  LET w == work[p] IN
  /\ w.own \in DOMAIN own["active"] /\ own["active"][w.own].task = w.task
  /\ w.before.task = w.task
OwnerFound(p) ==
  /\ pc[p] \in {"epoch-lock", "start-load", "start-write", "start-release", "bind", "audit-lock",
                "append", "audit-unlock", "rollback", "unbind"}
     /\ work[p].op = "start" /\ work[p].own # "none" => ActiveFor(p)
  /\ pc[p] \in {"move", "drop-source"} => ActiveFor(p)
  /\ pc[p] \in {"audit-lock", "append", "audit-unlock", "revert"}
     /\ work[p].op \in {"close", "fail"} =>
       OwnersOf(work[p].task) = {} /\ work[p].before.task = work[p].task
Unowned == \A o, other \in DOMAIN own["active"] :
             own["active"][o].task = own["active"][other].task => o = other
OwnerInv == GInv /\ Unowned /\ \A p \in Procs : OwnerFound(p)

\* What others know of the records is under the lock of whoever changes them.
LEMMA OwnerOthers ==
  ASSUME OwnerInv, NEW p \in Procs, Apart(p), NEW q \in Procs \ {p}
  PROVE  OwnerFound(q)'
<1>1. /\ OwnerFound(q) /\ GovernedLocks(q) /\ WorkFits(q)
      /\ pc'[q] = pc[q] /\ work'[q] = work[q] /\ work[q] \in Work
  BY DEF OwnerInv, GInv, GovernedAt, GovernedTypeOK, Apart
<1>2. CASE AtOwnership(q)
  <2>1. UNCHANGED own
    BY <1>1, <1>2 DEF Apart, GovernedLocks
  <2> QED
    BY <1>1, <2>1 DEF OwnerFound, ActiveFor, OwnersOf
<1>3. CASE ~AtOwnership(q)
  <2>1. pc[q] \in GovernedPCs => work[q].op # "none"
    BY <1>1 DEF WorkFits
  <2>2. /\ ~(pc[q] \in {"epoch-lock", "start-load", "start-write", "start-release", "bind",
                        "audit-lock", "append", "audit-unlock", "rollback", "unbind"}
             /\ work[q].own # "none")
        /\ pc[q] \notin {"move", "drop-source"}
        /\ ~(pc[q] \in {"audit-lock", "append", "audit-unlock", "revert"}
             /\ work[q].op \in {"close", "fail"})
    BY <1>1, <1>3, GovernedAssumption
       DEF AtOwnership, OwnSteps, GovernedPCs, WorkFits, MoveOnly
  <2> QED
    BY <1>1, <2>2 DEF OwnerFound
<1> QED
  BY <1>2, <1>3

\* Steps that leave the records alone.
LEMMA OwnerKept ==
  ASSUME OwnerInv, NEW p \in Procs, UNCHANGED own,
         BeginGovernedStart(p) \/ BeginOwnership(p) \/ GovernedStep(p),
         ~Bind(p), ~Unbind(p), ~Claim(p), ~MoveRecord(p), ~DropSource(p), ~RevertClaim(p),
         ~RevertMove(p), ~DropDestination(p)
  PROVE  OwnerFound(p)'
<1> USE DEF Goto, Keeps, Notes
<1>0. /\ pc \in [Procs -> Steps] /\ work \in [Procs -> Work] /\ work[p] \in Work
      /\ OwnerFound(p) /\ WorkFits(p) /\ NoWork.own = "none" /\ NoWork.op = "none"
      /\ \A t : OwnersOf(t)' = OwnersOf(t)
  BY BlankWork DEF OwnerInv, GInv, GovernedAt, GovernedTypeOK, TypedWith, Steps, OwnersOf
<1>1. CASE BeginGovernedStart(p) \/ BeginOwnership(p)
  BY <1>1, Begun DEF OwnerInv, OwnerFound
<1>2. CASE TakeRuntime(p) \/ TakeOwnership(p) \/ LeaveOwnership(p) \/ LeaveRuntime(p) \/ Look(p)
  BY <1>0, <1>2 DEF TakeRuntime, TakeOwnership, LeaveOwnership, LeaveRuntime, Look, Take, Exits,
                    Finish, Unlock, OwnerFound, ActiveFor, Work
<1>3. CASE ValidateOwnership(p)
  BY <1>0, <1>3
     DEF ValidateOwnership, WorkFits, StartOnly, OnlyActive, OwnerFound, ActiveFor, Work
<1>4. CASE TakeEpochLock(p) \/ LoadActive(p) \/ LeaveEpochLock(p) \/ BindFails(p)
           \/ RollbackFails(p) \/ UnbindFails(p) \/ CloseAudit(p) \/ AppendFails(p)
  BY <1>0, <1>4 DEF TakeEpochLock, LoadActive, LeaveEpochLock, BindFails, RollbackFails,
                    UnbindFails, CloseAudit, AppendFails, Take, Unlock, AfterRollback, Undoing,
                    WorkFits, StartOnly, OwnerFound, ActiveFor, Work
<1>5. CASE WriteEpoch(p) \/ RollBackEpoch(p) \/ OpenAudit(p) \/ AppendAudit(p)
  BY <1>0, <1>5 DEF WriteEpoch, RollBackEpoch, OpenAudit, AppendAudit, AfterRollback, Unlock,
                    Undoing, WorkFits, StartOnly, OwnerFound, ActiveFor, Work
<1>6. CASE CloseLoad(p)
  BY <1>0, <1>6 DEF CloseLoad, WorkFits, OnlyActive, OwnerFound, ActiveFor, Work
<1>7. CASE OwnershipRefused(p) \/ DropSourceFails(p) \/ RevertFails(p)
  BY <1>0, <1>7 DEF OwnershipRefused, DropSourceFails, RevertFails, OwnerFound
<1> QED
  BY <1>1, <1>2, <1>3, <1>4, <1>5, <1>6, <1>7 DEF GovernedStep

\* Steps that write or delete a record.  The one a claim adds is of a task that
\* has none; so is the one that a closeout puts back.
LEMMA OwnerWrites ==
  ASSUME OwnerInv, NEW p \in Procs,
         \/ Bind(p) \/ Unbind(p) \/ Claim(p) \/ MoveRecord(p) \/ DropSource(p) \/ RevertClaim(p)
         \/ RevertMove(p) \/ DropDestination(p)
  PROVE  Unowned' /\ OwnerFound(p)'
<1> USE DEF Goto, Keeps, Notes
<1> DEFINE o == work[p].own
<1>0. /\ pc \in [Procs -> Steps] /\ work \in [Procs -> Work] /\ work[p] \in Work
      /\ OwnerFound(p) /\ WorkFits(p) /\ Unowned /\ DOMAIN own = {"active", "closed", "failed"}
  BY DEF OwnerInv, GInv, GovernedAt, GovernedTypeOK, TypedWith, Steps
<1>1. ASSUME NEW doc, Record("active", o, doc)
      PROVE  /\ DOMAIN own'["active"] = DOMAIN own["active"] \union {o} /\ own'["active"][o] = doc
             /\ \A x \in DOMAIN own["active"] \ {o} : own'["active"][x] = own["active"][x]
  BY <1>0, <1>1 DEF Record, Put
<1>2. CASE Bind(p) \/ Unbind(p)
  <2>1. ActiveFor(p)
    BY <1>0, <1>2, GovernedAssumption DEF Bind, Unbind, WorkFits, StartOnly, OwnerFound
  <2>2. PICK doc \in {work[p].before, [work[p].before EXCEPT !.epoch = work[p].epoch]} :
          Record("active", o, doc)
    BY <1>2 DEF Bind, Unbind
  <2>3. doc.task = work[p].task
    BY <1>0, <2>1, <2>2 DEF ActiveFor, Work, Ownership
  <2>4. Unowned'
    BY <1>0, <1>1, <2>1, <2>2, <2>3 DEF Unowned, ActiveFor
  <2>5. OwnerFound(p)'
    BY <1>0, <1>1, <1>2, <2>1, <2>2, <2>3
       DEF Bind, Unbind, OwnerFound, ActiveFor, Work, WorkFits, StartOnly
  <2> QED
    BY <2>4, <2>5
<1>3. CASE Claim(p)
  <2>1. PICK doc \in [task : {work[p].task}, epoch : {"none"}] : Record("active", o, doc)
    BY <1>3 DEF Claim
  <2>2. Unowned'
    BY <1>0, <1>1, <1>3, <2>1 DEF Claim, Unowned, OwnersOf, KnownOwners
  <2>3. OwnerFound(p)'
    BY <1>0, <1>3 DEF Claim, OwnerFound, WorkFits
  <2> QED
    BY <2>2, <2>3
<1>4. CASE MoveRecord(p) \/ DropDestination(p)
  <2>1. own'["active"] = own["active"]
    BY <1>0, <1>4 DEF MoveRecord, DropDestination, Record, Erase, Destination
  <2>2. OwnerFound(p)'
    BY <1>0, <1>4, <2>1 DEF MoveRecord, DropDestination, OwnerFound, ActiveFor
  <2> QED
    BY <1>0, <2>1, <2>2 DEF Unowned
<1>5. CASE DropSource(p) \/ RevertClaim(p)
  <2>1. own'["active"] = Drop(own["active"], o)
    BY <1>0, <1>5 DEF DropSource, RevertClaim, Erase
  <2>2. Unowned'
    BY <1>0, <2>1 DEF Unowned, Drop
  <2>3. OwnerFound(p)'
    <3>1. CASE DropSource(p)
      <4>1. ActiveFor(p) /\ work[p].op \in {"close", "fail"}
        BY <1>0, <3>1 DEF DropSource, OwnerFound, WorkFits, MoveOnly
      <4>2. \A x \in DOMAIN own["active"] \ {o} : own["active"][x].task # work[p].task
        BY <1>0, <4>1 DEF Unowned, ActiveFor
      <4>3. UNCHANGED work
        BY <3>1 DEF DropSource
      <4>4. OwnersOf(work[p].task)' = {}
        BY <2>1, <4>2, <4>3 DEF OwnersOf, Drop
      <4> QED
        BY <1>0, <3>1, <4>1, <4>3, <4>4 DEF DropSource, OwnerFound, ActiveFor
    <3>2. CASE RevertClaim(p)
      BY <1>0, <3>2 DEF RevertClaim, OwnerFound
    <3> QED
      BY <1>5, <3>1, <3>2
  <2> QED
    BY <2>2, <2>3
<1>6. CASE RevertMove(p)
  <2>1. OwnersOf(work[p].task) = {} /\ work[p].before.task = work[p].task
    BY <1>0, <1>6 DEF RevertMove, OwnerFound, WorkFits, Work, GovernedPCs
  <2>2. Record("active", o, work[p].before)
    BY <1>6 DEF RevertMove
  <2>3. Unowned'
    BY <1>0, <1>1, <2>1, <2>2 DEF Unowned, OwnersOf
  <2>4. OwnerFound(p)'
    BY <1>0, <1>6 DEF RevertMove, OwnerFound
  <2> QED
    BY <2>3, <2>4
<1> HIDE DEF o
<1> QED
  BY <1>2, <1>3, <1>4, <1>5, <1>6

\* So nobody ever meets a second owner of a task.
LEMMA OwnerInvariant ==
  /\ GovernedInit => OwnerInv
  /\ OwnerInv /\ [GovernedNext]_allVars => OwnerInv'
<1>1. ASSUME GovernedInit PROVE OwnerInv
  <2>1. GInv /\ DOMAIN own["active"] = {} /\ \A p \in Procs : pc[p] = "idle"
    BY <1>1, GovernedInvariant DEF GovernedInit, Init, NoOwnerships, NoFiles
  <2> QED
    BY <2>1 DEF OwnerInv, Unowned, OwnerFound
<1>2. ASSUME OwnerInv, [GovernedNext]_allVars PROVE OwnerInv'
  <2>0. GInv'
    BY <1>2, GovernedInvariant DEF OwnerInv
  <2>1. CASE UNCHANGED allVars
    BY <1>2, <2>0, <2>1
       DEF OwnerInv, Unowned, OwnerFound, ActiveFor, OwnersOf, allVars, vars, gvars
  <2>2. CASE EpochStep
    <3>1. ASSUME NEW q \in Procs PROVE OwnerFound(q)'
      <4>1. /\ Aside(q) /\ UNCHANGED own /\ OwnerFound(q)
            /\ work'[q] = IF pc'[q] = "idle" THEN NoWork ELSE work[q]
        BY <1>2, <2>2, EpochApart DEF OwnerInv, EpochStep
      <4>2. CASE pc'[q] \notin GovernedPCs
        BY <4>2 DEF OwnerFound, GovernedPCs
      <4>3. CASE pc'[q] \in GovernedPCs
        <5>1. pc'[q] = pc[q] /\ work'[q] = work[q]
          BY <4>1, <4>3 DEF Aside, Dies, GovernedPCs
        <5> QED
          BY <4>1, <5>1 DEF OwnerFound, ActiveFor, OwnersOf
      <4> QED
        BY <4>2, <4>3
    <3> QED
      BY <1>2, <2>0, <2>2, <3>1 DEF OwnerInv, Unowned, EpochStep
  <2>3. ASSUME NEW p \in Procs, BeginGovernedStart(p) \/ BeginOwnership(p) \/ GovernedStep(p)
        PROVE  OwnerInv'
    <3>0. GInv
      BY <1>2 DEF OwnerInv
    <3>1. \A q \in Procs \ {p} : OwnerFound(q)'
      BY <1>2, <2>3, <3>0, GovernedApart, OwnerOthers
    <3>2. CASE \/ Bind(p) \/ Unbind(p) \/ Claim(p) \/ MoveRecord(p) \/ DropSource(p)
               \/ RevertClaim(p) \/ RevertMove(p) \/ DropDestination(p)
      BY <1>2, <2>0, <3>1, <3>2, OwnerWrites DEF OwnerInv
    <3>3. CASE ~(\/ Bind(p) \/ Unbind(p) \/ Claim(p) \/ MoveRecord(p) \/ DropSource(p)
                 \/ RevertClaim(p) \/ RevertMove(p) \/ DropDestination(p))
      <4>1. UNCHANGED own
        BY <2>3, <3>0, <3>3, GovernedWriters DEF UnbindFails, RevertFails
      <4>2. OwnerFound(p)'
        BY <1>2, <2>3, <3>3, <4>1, OwnerKept
      <4> QED
        BY <1>2, <2>0, <3>1, <4>1, <4>2 DEF OwnerInv, Unowned
    <3> QED
      BY <3>2, <3>3
  <2> QED
    BY <1>2, <2>1, <2>2, <2>3 DEF GovernedNext
<1> QED
  BY <1>1, <1>2

\* A task has at most one owner at any time, whatever claims race, closeouts are
\* taken back or commands die (claim_work_ownership looks and writes, and
\* close_work_ownership moves and moves back, under one lock).
THEOREM OneOwnerEach == GovernedSpec => []OneOwner
<1>1. OwnerInv => OneOwner
  <2> SUFFICES ASSUME OwnerInv, NEW t \in Tasks PROVE Cardinality(OwnersOf(t)) <= 1
    BY DEF OneOwner
  <2>1. \A o, other \in OwnersOf(t) : o = other
    BY DEF OwnerInv, Unowned, OwnersOf
  <2>2. CASE OwnersOf(t) = {}
    BY <2>2, FS_EmptySet
  <2>3. CASE OwnersOf(t) # {}
    <3>1. PICK o \in OwnersOf(t) : OwnersOf(t) = {o}
      BY <2>1, <2>3
    <3> QED
      BY <3>1, FS_Singleton
  <2> QED
    BY <2>2, <2>3
<1> QED
  BY <1>1, OwnerInvariant, PTL DEF GovernedSpec

------------------------------------------------------------------------------
(* The log and the directories                                              *)

\* The places of a record, and whether the log tells them and its binding.
Places(o) == {dir \in DOMAIN own : o \in DOMAIN own[dir]}
Unheard(o) == EventsOf(o) = {} /\ StartsFor(o) = {}
Agrees(o) ==
  /\ Places(o) = PlacesOf(o)
  /\ o \in DOMAIN own["active"] => {own["active"][o].epoch} = EpochOf(o)
  /\ Places(o) = {} => Unheard(o)

\* What a command that holds the lock has done to its record and not yet told
\* the log, or not yet taken back.
StartBetween(p) ==
  LET w == work[p]
      o == w.own
  IN
  /\ IF w.bound /\ ~w.audited /\ pc[p] # "own-unlock"
     THEN /\ Places(o) = PlacesOf(o) /\ o \in DOMAIN own["active"]
          /\ {w.before.epoch} = EpochOf(o) /\ own["active"][o].epoch = w.epoch
     ELSE Agrees(o)
  /\ pc[p] \in {"epoch-lock", "start-load", "start-write", "start-release", "bind"}
       => own["active"][o] = w.before
ClaimBetween(p) ==
  LET w == work[p]
      o == w.own
  IN
  IF pc[p] \in {"audit-lock", "append", "audit-unlock", "revert"} /\ ~w.audited
  THEN Places(o) = {"active"} /\ own["active"][o].epoch = "none" /\ Unheard(o)
  ELSE Agrees(o)
CloseBetween(p) ==
  LET w == work[p]
      o == w.own
  IN
  IF pc[p] \in {"close", "move", "own-unlock"} \/ w.audited
  THEN Agrees(o) /\ (pc[p] = "move" => Places(o) = {"active"} /\ own["active"][o] = w.before)
  ELSE /\ PlacesOf(o) = {"active"} /\ {w.before.epoch} = EpochOf(o)
       /\ IF pc[p] \in {"drop-source", "drop-destination"}
          THEN Places(o) = {"active", Destination(p)} /\ own["active"][o] = w.before
          ELSE Places(o) = {Destination(p)}
Between(p) ==
  /\ work[p].op = "start" => StartBetween(p)
  /\ work[p].op = "claim" => ClaimBetween(p)
  /\ work[p].op \in {"close", "fail"} => CloseBetween(p)

AtWork(o) == \E p \in Procs : AtOwnership(p) /\ work[p].own = o
AuditInv ==
  /\ OwnerInv /\ lock["work-ownership"] # Stale
  /\ \A o \in Owners \ reported : ~AtWork(o) => Agrees(o)
  /\ \A p \in Procs : AtOwnership(p) /\ work[p].own \notin reported => Between(p)

\* What an event does to the story the log tells of each record.
LEMMA Heard ==
  ASSUME audit \in Seq(Event), NEW w \in Work, audit' = Append(audit, EventOf(w)), NEW o
  PROVE  /\ w.own # o => /\ PlacesOf(o)' = PlacesOf(o) /\ EpochOf(o)' = EpochOf(o)
                         /\ Unheard(o)' = Unheard(o)
         /\ w.own = o /\ w.op = "start" => PlacesOf(o)' = PlacesOf(o) /\ EpochOf(o)' = {w.epoch}
         /\ w.own = o /\ w.op # "start" => EpochOf(o)' = EpochOf(o) /\ PlacesOf(o)' = {Names[w.op]}
<1> DEFINE n  == Len(audit)
           ev == EventOf(w)
<1>1. /\ n \in Nat /\ DOMAIN audit = 1 .. n /\ DOMAIN audit' = 1 .. n + 1
      /\ \A i \in 1 .. n : audit'[i] = audit[i]
      /\ audit'[n + 1] = ev
  OBVIOUS
<1>2. ev.event = w.op /\ ev.own = w.own /\ ev.epoch = w.epoch
  BY DEF EventOf
<1> HIDE DEF ev, n
<1>3. /\ EventsOf(o) \subseteq 1 .. n /\ StartsFor(o) \subseteq 1 .. n
      /\ EventsOf(o)' = IF w.own = o /\ w.op # "start" THEN EventsOf(o) \union {n + 1} ELSE EventsOf(o)
      /\ StartsFor(o)' = IF w.own = o /\ w.op = "start" THEN StartsFor(o) \union {n + 1} ELSE StartsFor(o)
  <2>1. EventsOf(o) \subseteq 1 .. n /\ StartsFor(o) \subseteq 1 .. n
    BY <1>1 DEF EventsOf, StartsFor
  <2>2. EventsOf(o)' = {i \in 1 .. n + 1 : audit'[i].own = o /\ audit'[i].event # "start"}
    BY <1>1 DEF EventsOf
  <2>3. StartsFor(o)' = {i \in 1 .. n + 1 : audit'[i].event = "start" /\ audit'[i].own = o}
    BY <1>1 DEF StartsFor
  <2>4. \A i \in 1 .. n + 1 : i \in 1 .. n \/ i = n + 1
    BY <1>1
  <2>5. EventsOf(o)' = IF w.own = o /\ w.op # "start" THEN EventsOf(o) \union {n + 1} ELSE EventsOf(o)
    BY <1>1, <1>2, <2>2, <2>4 DEF EventsOf
  <2>6. StartsFor(o)' = IF w.own = o /\ w.op = "start" THEN StartsFor(o) \union {n + 1} ELSE StartsFor(o)
    BY <1>1, <1>2, <2>3, <2>4 DEF StartsFor
  <2> QED
    BY <2>1, <2>5, <2>6
<1>4. ASSUME NEW S \in SUBSET (1 .. n)
      PROVE  Latest(S \union {n + 1}) = {n + 1} /\ Latest(S) \subseteq S
  <2>1. \A j \in S : j <= n + 1 /\ j # n + 1 /\ ~(n + 1 <= j)
    BY <1>1
  <2>2. n + 1 <= n + 1
    BY <1>1
  <2> QED
    BY <2>1, <2>2 DEF Latest
<1>5. EventsOf(o)' = EventsOf(o) => PlacesOf(o)' = PlacesOf(o)
  <2>1. \A i \in Latest(EventsOf(o)) : audit'[i].event = audit[i].event
    BY <1>1, <1>3, <1>4
  <2> QED
    BY <2>1 DEF PlacesOf
<1>6. StartsFor(o)' = StartsFor(o) => EpochOf(o)' = EpochOf(o)
  <2>1. \A i \in Latest(StartsFor(o)) : audit'[i].epoch = audit[i].epoch
    BY <1>1, <1>3, <1>4
  <2> QED
    BY <2>1 DEF EpochOf
<1>7. w.own = o /\ w.op = "start" => EpochOf(o)' = {w.epoch}
  <2> SUFFICES ASSUME w.own = o, w.op = "start" PROVE EpochOf(o)' = {w.epoch}
    OBVIOUS
  <2>1. StartsFor(o)' # {} /\ Latest(StartsFor(o)') = {n + 1}
    BY <1>3, <1>4
  <2>2. EpochOf(o)' = {audit'[i].epoch : i \in {n + 1}}
    BY <2>1 DEF EpochOf
  <2> QED
    BY <1>1, <1>2, <2>2
<1>8. w.own = o /\ w.op # "start" => PlacesOf(o)' = {Names[w.op]}
  <2> SUFFICES ASSUME w.own = o, w.op # "start" PROVE PlacesOf(o)' = {Names[w.op]}
    OBVIOUS
  <2>1. Latest(EventsOf(o)') = {n + 1}
    BY <1>3, <1>4
  <2>2. PlacesOf(o)' = {Names[audit'[i].event] : i \in {n + 1}}
    BY <2>1 DEF PlacesOf
  <2> QED
    BY <1>1, <1>2, <2>2
<1>9. w.own # o => Unheard(o)' = Unheard(o)
  BY <1>3 DEF Unheard
<1> QED
  BY <1>3, <1>5, <1>6, <1>7, <1>8, <1>9

\* A record is nobody's but the command's that holds the lock and is at work
\* on it: for every other record log and directories stay as they are.
LEMMA Elsewhere ==
  ASSUME GInv, NEW p \in Procs, BeginGovernedStart(p) \/ BeginOwnership(p) \/ GovernedStep(p),
         NEW o \in Owners, AtOwnership(p) => work[p].own # o
  PROVE  /\ Places(o)' = Places(o) /\ PlacesOf(o)' = PlacesOf(o) /\ EpochOf(o)' = EpochOf(o)
         /\ Unheard(o)' = Unheard(o)
         /\ o \in DOMAIN own'["active"] <=> o \in DOMAIN own["active"]
         /\ o \in DOMAIN own["active"] => own'["active"][o] = own["active"][o]
<1>0. /\ work[p] \in Work /\ WorkFits(p) /\ "none" \notin Owners /\ audit \in Seq(Event)
      /\ DOMAIN own = {"active", "closed", "failed"}
  BY GovernedAssumption DEF GInv, GovernedAt, GovernedTypeOK
<1>1. /\ Places(o)' = Places(o)
      /\ o \in DOMAIN own'["active"] <=> o \in DOMAIN own["active"]
      /\ o \in DOMAIN own["active"] => own'["active"][o] = own["active"][o]
  <2>1. CASE UNCHANGED own
    BY <2>1 DEF Places
  <2>2. CASE \/ Bind(p) \/ Unbind(p) \/ Claim(p) \/ MoveRecord(p) \/ DropSource(p)
             \/ RevertClaim(p) \/ RevertMove(p) \/ DropDestination(p)
    <3>1. work[p].own # o
      BY <1>0, <2>2 DEF Bind, Unbind, Claim, MoveRecord, DropSource, RevertClaim, RevertMove,
                        DropDestination, AtOwnership, OwnSteps, GovernedPCs
    <3>3. \A dir \in DOMAIN own : /\ o \in DOMAIN own'[dir] <=> o \in DOMAIN own[dir]
                                  /\ o \in DOMAIN own[dir] => own'[dir][o] = own[dir][o]
      BY <1>0, <2>2, <3>1
         DEF Bind, Unbind, Claim, MoveRecord, DropSource, RevertClaim, RevertMove,
             DropDestination, Record, Erase, Put, Drop
    <3>4. DOMAIN own' = DOMAIN own
      BY <1>0, <2>2
         DEF Bind, Unbind, Claim, MoveRecord, DropSource, RevertClaim, RevertMove,
             DropDestination, Record, Erase
    <3> QED
      BY <1>0, <3>3, <3>4 DEF Places
  <2> QED
    BY <2>1, <2>2, GovernedWriters DEF UnbindFails, RevertFails
<1>2. PlacesOf(o)' = PlacesOf(o) /\ EpochOf(o)' = EpochOf(o) /\ Unheard(o)' = Unheard(o)
  <2>1. CASE UNCHANGED audit
    BY <2>1 DEF PlacesOf, EpochOf, Unheard, EventsOf, StartsFor
  <2>2. CASE AppendAudit(p)
    <3>1. work[p].own # o
      BY <1>0, <2>2 DEF AppendAudit, AtOwnership, OwnSteps, GovernedPCs
    <3>2. audit' = Append(audit, EventOf(work[p]))
      BY <2>2 DEF AppendAudit
    <3> QED
      BY <1>0, <3>1, <3>2, Heard
  <2> QED
    BY <2>1, <2>2, GovernedWriters
<1> QED
  BY <1>1, <1>2

\* So it stays in the state it was in, and a command that waits with one too.
LEMMA AuditOthers ==
  ASSUME AuditInv, NEW p \in Procs, BeginGovernedStart(p) \/ BeginOwnership(p) \/ GovernedStep(p)
  PROVE  /\ \A o \in Owners \ reported' :
              (AtOwnership(p) => work[p].own # o) /\ ~AtWork(o)' => Agrees(o)'
         /\ \A q \in Procs \ {p} : AtOwnership(q)' /\ work'[q].own \notin reported' => Between(q)'
<1>0. GInv /\ Apart(p) /\ reported \subseteq reported'
  <2>1. GInv /\ Apart(p)
    BY GovernedApart DEF AuditInv, OwnerInv
  <2>2. UNCHANGED reported \/ UnbindFails(p) \/ RevertFails(p) \/ reported \subseteq reported'
    BY <2>1, GovernedWriters
       DEF Bind, Unbind, Claim, MoveRecord, DropSource, RevertClaim, RevertMove, DropDestination
  <2> QED
    BY <2>1, <2>2 DEF UnbindFails, RevertFails
<1>1. ASSUME NEW o \in Owners \ reported', AtOwnership(p) => work[p].own # o, ~AtWork(o)'
      PROVE  Agrees(o)'
  <2>1. ~AtWork(o)
    BY <1>0, <1>1 DEF AtWork, Apart, AtOwnership
  <2>2. Agrees(o)
    BY <1>0, <1>1, <2>1 DEF AuditInv
  <2>3. /\ Places(o)' = Places(o) /\ PlacesOf(o)' = PlacesOf(o) /\ EpochOf(o)' = EpochOf(o)
        /\ Unheard(o)' = Unheard(o)
        /\ o \in DOMAIN own'["active"] <=> o \in DOMAIN own["active"]
        /\ o \in DOMAIN own["active"] => own'["active"][o] = own["active"][o]
    BY <1>0, <1>1, Elsewhere
  <2> QED
    BY <2>2, <2>3 DEF Agrees
<1>2. ASSUME NEW q \in Procs \ {p}, AtOwnership(q)', work'[q].own \notin reported'
      PROVE  Between(q)'
  <2>1. pc'[q] = pc[q] /\ work'[q] = work[q] /\ AtOwnership(q) /\ work[q] \in Work
    BY <1>0, <1>2 DEF Apart, AtOwnership, GInv, GovernedTypeOK
  <2>2. ~AtOwnership(p) /\ work[q].own \in Owners
    BY <1>0, <2>1 DEF GInv, GovernedAt, GovernedLocks, AtOwnership, Work
  <2>3. Between(q)
    BY <1>0, <1>2, <2>1 DEF AuditInv
  <2> DEFINE o == work[q].own
  <2>4. /\ Places(o)' = Places(o) /\ PlacesOf(o)' = PlacesOf(o) /\ EpochOf(o)' = EpochOf(o)
        /\ Unheard(o)' = Unheard(o)
        /\ o \in DOMAIN own'["active"] <=> o \in DOMAIN own["active"]
        /\ o \in DOMAIN own["active"] => own'["active"][o] = own["active"][o]
    <3>1. \A x \in Owners :
            /\ Places(x)' = Places(x) /\ PlacesOf(x)' = PlacesOf(x) /\ EpochOf(x)' = EpochOf(x)
            /\ Unheard(x)' = Unheard(x)
            /\ x \in DOMAIN own'["active"] <=> x \in DOMAIN own["active"]
            /\ x \in DOMAIN own["active"] => own'["active"][x] = own["active"][x]
      BY <1>0, <2>2, Elsewhere
    <3> QED
      BY <2>1, <2>2, <3>1
  <2>5. Agrees(o) => Agrees(o)'
    BY <2>1, <2>4 DEF Agrees
  <2>6. Places(o) = {"active"} \/ Places(o) = {"active", Destination(q)} => o \in DOMAIN own["active"]
    BY DEF Places
  <2>7. work[q].op = "start"
        /\ pc[q] \in {"epoch-lock", "start-load", "start-write", "start-release", "bind"}
          => o \in DOMAIN own["active"]
    BY <2>1, <2>2, GovernedAssumption DEF AuditInv, OwnerInv, OwnerFound, ActiveFor, AtOwnership
  <2> HIDE DEF o
  <2> QED
    BY <2>1, <2>3, <2>4, <2>5, <2>6, <2>7
       DEF o, Between, StartBetween, ClaimBetween, CloseBetween, Destination
<1> QED
  BY <1>1, <1>2

\* The lock on the records is taken and left in these steps only.
LEMMA OwnershipMoves ==
  ASSUME GInv, NEW p \in Procs, BeginGovernedStart(p) \/ BeginOwnership(p) \/ GovernedStep(p)
  PROVE  /\ lock'["work-ownership"] = lock["work-ownership"] \/ TakeOwnership(p) \/ LeaveOwnership(p)
         /\ AtOwnership(p)' => AtOwnership(p) \/ TakeOwnership(p)
         /\ AtOwnership(p) => AtOwnership(p)' \/ LeaveOwnership(p)
<1>0. /\ lock \in [Locks -> Procs \union {Free, Stale}] /\ Free \notin Procs
      /\ GovernedLocks(p)
  BY EpochLifecycleAssumption DEF GInv, GovernedAt, GovernedTypeOK, TypedWith, Free
<1>1. \/ lock'["work-ownership"] = lock["work-ownership"] \/ TakeOwnership(p) \/ LeaveOwnership(p)
  <2>1. CASE BeginGovernedStart(p) \/ BeginOwnership(p)
    BY <2>1, Begun
  <2>2. CASE TakeRuntime(p) \/ TakeEpochLock(p) \/ LeaveEpochLock(p) \/ LeaveRuntime(p)
    BY <1>0, <2>2
       DEF TakeRuntime, TakeEpochLock, LeaveEpochLock, LeaveRuntime, Take, Release, Locks
  <2>3. CASE OpenAudit(p) \/ CloseAudit(p)
    BY <1>0, <2>3 DEF OpenAudit, CloseAudit, Release, Locks
  <2>4. CASE \/ Look(p) \/ ValidateOwnership(p) \/ LoadActive(p) \/ WriteEpoch(p) \/ Bind(p)
             \/ BindFails(p) \/ RollBackEpoch(p) \/ RollbackFails(p) \/ Unbind(p) \/ UnbindFails(p)
    BY <2>4 DEF Look, ValidateOwnership, LoadActive, WriteEpoch, Bind, BindFails, RollBackEpoch,
                RollbackFails, Unbind, UnbindFails
  <2>5. CASE \/ AppendAudit(p) \/ AppendFails(p) \/ Claim(p) \/ CloseLoad(p)
             \/ OwnershipRefused(p) \/ MoveRecord(p) \/ DropSource(p) \/ DropSourceFails(p)
             \/ RevertClaim(p) \/ RevertMove(p) \/ DropDestination(p) \/ RevertFails(p)
    BY <2>5 DEF AppendAudit, AppendFails, Claim, CloseLoad, OwnershipRefused, MoveRecord,
                DropSource, DropSourceFails, RevertClaim, RevertMove, DropDestination, RevertFails
  <2> QED
    BY <2>1, <2>2, <2>3, <2>4, <2>5 DEF GovernedStep
<1>2. GovernedLocks(p)'
  BY GovernedHolds
<1>3. TakeOwnership(p) => lock["work-ownership"] # p
  BY <1>0 DEF TakeOwnership, GovernedLocks, AtOwnership, OwnSteps
<1>4. LeaveOwnership(p) => lock'["work-ownership"] # p
  BY <1>0 DEF LeaveOwnership, Release, Locks
<1>5. TakeOwnership(p) => lock'["work-ownership"] \in {p, lock["work-ownership"]}
  BY <1>0 DEF TakeOwnership, Take, Locks
<1> QED
  BY <1>0, <1>1, <1>2, <1>3, <1>4, <1>5 DEF GovernedLocks

\* Neither side of the comparison moves while the directories and the log stay.
LEMMA StillAgrees ==
  ASSUME UNCHANGED <<own, audit>>, NEW o
  PROVE  /\ Places(o)' = Places(o) /\ PlacesOf(o)' = PlacesOf(o) /\ EpochOf(o)' = EpochOf(o)
         /\ Unheard(o)' <=> Unheard(o)
         /\ Agrees(o)' <=> Agrees(o)
<1>1. Places(o)' = Places(o) /\ EventsOf(o)' = EventsOf(o) /\ StartsFor(o)' = StartsFor(o)
  BY DEF Places, EventsOf, StartsFor
<1>2. PlacesOf(o)' = PlacesOf(o) /\ EpochOf(o)' = EpochOf(o) /\ (Unheard(o)' <=> Unheard(o))
  BY <1>1 DEF PlacesOf, EpochOf, Unheard
<1> QED
  BY <1>1, <1>2 DEF Agrees

\* A command that has just taken the lock finds its record as the log has it.
LEMMA AuditTakes ==
  ASSUME AuditInv, NEW p \in Procs, TakeOwnership(p), AtOwnership(p)',
         work'[p].own \notin reported'
  PROVE  Between(p)'
<1> USE DEF Goto, Keeps
<1>0. /\ GInv /\ pc \in [Procs -> Steps] /\ work \in [Procs -> Work] /\ work[p] \in Work
      /\ GovernedLocks(p) /\ WorkFits(p) /\ pc[p] = "own-lock"
      /\ lock \in [Locks -> Procs \union {Free, Stale}] /\ Free \notin Procs
  BY EpochLifecycleAssumption
     DEF AuditInv, OwnerInv, GInv, GovernedAt, GovernedTypeOK, TypedWith, Steps, TakeOwnership,
         Free
<1>1. /\ Granted("work-ownership")
      /\ pc'[p] = CASE work[p].op = "start" -> (IF work[p].ok THEN "validate" ELSE "own-unlock")
                    [] work[p].op = "claim" -> "claim"
                    [] OTHER -> "close"
      /\ UNCHANGED <<own, audit, reported, work>>
  BY <1>0 DEF TakeOwnership, Take, Exits, Finish, AtOwnership, OwnSteps, GovernedPCs
<1>2. work[p].own \in Owners \ reported
  BY <1>0, <1>1 DEF AtOwnership, Work
<1>3. ~AtWork(work[p].own)
  BY <1>0, <1>1 DEF Granted, AtWork, GInv, GovernedAt, GovernedLocks
<1>4. Agrees(work[p].own)
  BY <1>2, <1>3 DEF AuditInv
<1>5. Agrees(work[p].own)'
  BY <1>1, <1>4, StillAgrees
<1>6. ~work[p].bound /\ ~work[p].audited /\ work[p].op # "none"
  BY <1>0 DEF WorkFits, GovernedPCs
<1> QED
  BY <1>0, <1>1, <1>5, <1>6 DEF Between, StartBetween, ClaimBetween, CloseBetween, Work

\* A command that leaves it leaves its record as the log has it.
LEMMA AuditLeaves ==
  ASSUME AuditInv, NEW p \in Procs, LeaveOwnership(p), NEW o \in Owners \ reported,
         work[p].own = o
  PROVE  Agrees(o)'
<1>0. work[p] \in Work /\ WorkFits(p) /\ "none" \notin Owners /\ pc[p] = "own-unlock"
  BY GovernedAssumption DEF AuditInv, OwnerInv, GInv, GovernedAt, GovernedTypeOK, LeaveOwnership
<1>1. AtOwnership(p) /\ work[p].op # "none"
  BY <1>0 DEF AtOwnership, OwnSteps, GovernedPCs, WorkFits
<1>2. Between(p)
  BY <1>1 DEF AuditInv
<1>3. Agrees(o)
  BY <1>0, <1>1, <1>2 DEF Between, StartBetween, ClaimBetween, CloseBetween, Work
<1>4. UNCHANGED <<own, audit>>
  BY DEF LeaveOwnership
<1> QED
  BY <1>3, <1>4, StillAgrees

\* A command never turns to another record.
LEMMA OwnKept ==
  ASSUME GInv, NEW p \in Procs, BeginGovernedStart(p) \/ BeginOwnership(p) \/ GovernedStep(p),
         AtOwnership(p), AtOwnership(p)'
  PROVE  work'[p].own = work[p].own
<1> USE DEF Goto, Keeps, Notes
<1>0. /\ pc \in [Procs -> Steps] /\ work \in [Procs -> Work] /\ work[p] \in Work
      /\ pc[p] \in OwnSteps /\ pc'[p] # "idle"
  BY DEF GInv, GovernedTypeOK, TypedWith, Steps, AtOwnership, OwnSteps, GovernedPCs
<1>1. CASE \/ TakeRuntime(p) \/ TakeOwnership(p) \/ TakeEpochLock(p) \/ LoadActive(p)
           \/ LeaveEpochLock(p) \/ BindFails(p) \/ RollbackFails(p) \/ Unbind(p) \/ UnbindFails(p)
  BY <1>0, <1>1 DEF TakeRuntime, TakeOwnership, TakeEpochLock, LoadActive, LeaveEpochLock,
                    BindFails, RollbackFails, Unbind, UnbindFails, Take, Exits, Finish
<1>2. CASE Look(p) \/ ValidateOwnership(p) \/ WriteEpoch(p) \/ Bind(p) \/ RollBackEpoch(p)
  BY <1>0, <1>2 DEF Look, ValidateOwnership, WriteEpoch, Bind, RollBackEpoch, Work
<1>3. CASE OpenAudit(p) \/ AppendAudit(p) \/ CloseLoad(p)
  BY <1>0, <1>3 DEF OpenAudit, AppendAudit, CloseLoad, Work
<1>4. CASE \/ AppendFails(p) \/ CloseAudit(p) \/ Claim(p) \/ OwnershipRefused(p) \/ MoveRecord(p)
           \/ DropSource(p) \/ DropSourceFails(p) \/ RevertClaim(p) \/ RevertMove(p)
           \/ DropDestination(p) \/ RevertFails(p)
  BY <1>4 DEF AppendFails, CloseAudit, Claim, OwnershipRefused, MoveRecord, DropSource,
              DropSourceFails, RevertClaim, RevertMove, DropDestination, RevertFails
<1>5. CASE LeaveOwnership(p) \/ LeaveRuntime(p)
  BY <1>0, <1>5 DEF LeaveOwnership, LeaveRuntime, Exits, Finish
<1>6. ~(BeginGovernedStart(p) \/ BeginOwnership(p))
  BY <1>0, Begun DEF OwnSteps, GovernedPCs
<1> QED
  BY <1>1, <1>2, <1>3, <1>4, <1>5, <1>6 DEF GovernedStep

\* A step that changes neither its record nor the log.
LEMMA AuditRests ==
  ASSUME AuditInv, NEW p \in Procs, AtOwnership(p), work'[p].own \notin reported',
         \/ ValidateOwnership(p) \/ TakeEpochLock(p) \/ LoadActive(p) \/ WriteEpoch(p)
         \/ LeaveEpochLock(p) \/ BindFails(p) \/ RollBackEpoch(p) \/ RollbackFails(p)
         \/ UnbindFails(p) \/ OpenAudit(p) \/ AppendFails(p) \/ CloseAudit(p) \/ CloseLoad(p)
         \/ OwnershipRefused(p) \/ DropSourceFails(p) \/ RevertFails(p)
  PROVE  Between(p)'
<1> USE DEF Goto, Keeps, Notes
<1>0. /\ GInv /\ pc \in [Procs -> Steps] /\ work \in [Procs -> Work] /\ work[p] \in Work
      /\ WorkFits(p) /\ OwnerFound(p) /\ work[p].own # "none"
  BY DEF AuditInv, OwnerInv, GInv, GovernedAt, GovernedTypeOK, TypedWith, Steps, AtOwnership
<1>1. UNCHANGED <<own, audit>>
  BY DEF ValidateOwnership, TakeEpochLock, LoadActive, WriteEpoch, LeaveEpochLock, BindFails,
         RollBackEpoch, RollbackFails, UnbindFails, OpenAudit, AppendFails, CloseAudit, CloseLoad,
         OwnershipRefused, DropSourceFails, RevertFails, Take
<1>2. \A o : /\ Places(o)' = Places(o) /\ PlacesOf(o)' = PlacesOf(o) /\ EpochOf(o)' = EpochOf(o)
             /\ Unheard(o)' <=> Unheard(o)
             /\ Agrees(o)' <=> Agrees(o)
  BY <1>1, StillAgrees
<1>3. Between(p) \/ UnbindFails(p) \/ RevertFails(p)
  <2>1. CASE TakeEpochLock(p) \/ LoadActive(p) \/ LeaveEpochLock(p) \/ BindFails(p) \/ RollbackFails(p)
             \/ AppendFails(p) \/ CloseAudit(p) \/ OwnershipRefused(p) \/ DropSourceFails(p)
    <3>1. UNCHANGED <<work, reported>>
      BY <1>0, <2>1 DEF TakeEpochLock, LoadActive, LeaveEpochLock, BindFails, RollbackFails,
                        AppendFails, CloseAudit, OwnershipRefused, DropSourceFails, Take, Unlock
    <3> QED
      BY <3>1 DEF AuditInv
  <2>2. CASE ValidateOwnership(p) \/ WriteEpoch(p) \/ RollBackEpoch(p) \/ OpenAudit(p) \/ CloseLoad(p)
    <3>1. work'[p].own = work[p].own /\ UNCHANGED reported
      BY <1>0, <2>2 DEF ValidateOwnership, WriteEpoch, RollBackEpoch, OpenAudit, CloseLoad, Work
    <3> QED
      BY <3>1 DEF AuditInv
  <2> QED
    BY <2>1, <2>2
<1>4. CASE UnbindFails(p) \/ RevertFails(p)
  BY <1>0, <1>4 DEF UnbindFails, RevertFails
<1>5. CASE ValidateOwnership(p)
  BY <1>0, <1>1, <1>2, <1>3, <1>5
     DEF ValidateOwnership, WorkFits, StartOnly, GovernedPCs, UnbindFails, RevertFails, Between,
         StartBetween, ClaimBetween, CloseBetween, Work
<1>6. CASE TakeEpochLock(p) \/ LoadActive(p) \/ LeaveEpochLock(p) \/ BindFails(p) \/ RollbackFails(p)
  BY <1>0, <1>1, <1>2, <1>3, <1>6
     DEF TakeEpochLock, LoadActive, LeaveEpochLock, BindFails, RollbackFails, Take, Unlock,
         AfterRollback, WorkFits, StartOnly, GovernedPCs, UnbindFails, RevertFails, Between,
         StartBetween, ClaimBetween, CloseBetween, Work
<1>7. CASE WriteEpoch(p) \/ RollBackEpoch(p)
  BY <1>0, <1>1, <1>2, <1>3, <1>7
     DEF WriteEpoch, RollBackEpoch, Unlock, AfterRollback, WorkFits, StartOnly, GovernedPCs,
         UnbindFails, RevertFails, Between, StartBetween, ClaimBetween, CloseBetween, Work
<1>8. CASE OpenAudit(p)
  <2>1. /\ Between(p) /\ ~work[p].audited /\ pc[p] = "audit-lock"
        /\ work[p].op = "start" => work[p].bound
    BY <1>0, <1>3, <1>8 DEF OpenAudit, UnbindFails, RevertFails, WorkFits
  <2>2. /\ pc'[p] \in {"append", Undoing(p)}
        /\ work'[p] \in {work[p], [work[p] EXCEPT !.tip = Len(audit)]}
    BY <1>0, <1>8 DEF OpenAudit
  <2>3. /\ work'[p].op = work[p].op /\ work'[p].own = work[p].own
        /\ work'[p].epoch = work[p].epoch /\ work'[p].before = work[p].before
        /\ work'[p].bound <=> work[p].bound
        /\ work'[p].audited <=> work[p].audited
    BY <1>0, <2>2 DEF Work
  <2>4. Destination(p)' = Destination(p)
    BY <2>3 DEF Destination
  <2> HIDE <1>8
  <2>5. work[p].op = "start" => StartBetween(p)'
    BY <1>0, <1>1, <1>2, <2>1, <2>2, <2>3 DEF Undoing, Between, StartBetween
  <2>6. work[p].op = "claim" => ClaimBetween(p)'
    BY <1>0, <1>1, <1>2, <2>1, <2>2, <2>3 DEF Undoing, Between, ClaimBetween
  <2>7. work[p].op \in {"close", "fail"} => CloseBetween(p)'
    BY <1>0, <1>1, <1>2, <2>1, <2>2, <2>3, <2>4 DEF Undoing, Between, CloseBetween
  <2> QED
    BY <2>3, <2>5, <2>6, <2>7 DEF Between
<1>9. CASE AppendFails(p) \/ CloseAudit(p)
  BY <1>0, <1>1, <1>2, <1>3, <1>9
     DEF AppendFails, CloseAudit, Undoing, Unlock, WorkFits, StartOnly, GovernedPCs, UnbindFails,
         RevertFails, Between, StartBetween, ClaimBetween, CloseBetween, Destination, Work
<1>10. CASE CloseLoad(p)
  <2>1. Places(work[p].own) = {"active"}
    BY <1>0, <1>10 DEF CloseLoad, OnlyActive, Places, GInv, GovernedTypeOK
  <2> QED
    BY <1>0, <1>1, <1>2, <1>3, <1>10, <2>1
       DEF CloseLoad, WorkFits, MoveOnly, GovernedPCs, UnbindFails, RevertFails, Between,
           StartBetween, ClaimBetween, CloseBetween, Work
<1>11. CASE OwnershipRefused(p) \/ DropSourceFails(p)
  BY <1>0, <1>1, <1>2, <1>3, <1>11
     DEF OwnershipRefused, DropSourceFails, WorkFits, MoveOnly, GovernedPCs, UnbindFails,
         RevertFails, Between, StartBetween, ClaimBetween, CloseBetween, Destination, Work
<1> QED
  BY <1>4, <1>5, <1>6, <1>7, <1>8, <1>9, <1>10, <1>11

\* What writing or deleting a record does to its places.
LEMMA Placed ==
  ASSUME DOMAIN own = {"active", "closed", "failed"}, NEW dir \in DOMAIN own, NEW o, NEW doc
  PROVE  /\ Record(dir, o, doc) =>
              /\ Places(o)' = Places(o) \union {dir} /\ own'[dir][o] = doc
              /\ \A d \in DOMAIN own \ {dir} : own'[d] = own[d]
         /\ Erase(dir, o) =>
              /\ Places(o)' = Places(o) \ {dir}
              /\ \A d \in DOMAIN own \ {dir} : own'[d] = own[d]
<1>1. ASSUME Record(dir, o, doc)
      PROVE  /\ Places(o)' = Places(o) \union {dir} /\ own'[dir][o] = doc
             /\ \A d \in DOMAIN own \ {dir} : own'[d] = own[d]
  <2>1. own' = [own EXCEPT ![dir] = Put(own[dir], o, doc)]
    BY <1>1 DEF Record
  <2>2. DOMAIN Put(own[dir], o, doc) = DOMAIN own[dir] \union {o} /\ Put(own[dir], o, doc)[o] = doc
    BY DEF Put
  <2> QED
    BY <2>1, <2>2 DEF Places
<1>2. ASSUME Erase(dir, o)
      PROVE  /\ Places(o)' = Places(o) \ {dir}
             /\ \A d \in DOMAIN own \ {dir} : own'[d] = own[d]
  <2>1. own' = [own EXCEPT ![dir] = Drop(own[dir], o)]
    BY <1>2 DEF Erase
  <2>2. DOMAIN Drop(own[dir], o) = DOMAIN own[dir] \ {o}
    BY DEF Drop
  <2> QED
    BY <2>1, <2>2 DEF Places
<1> QED
  BY <1>1, <1>2

\* A step that changes its record, or tells the log.
LEMMA AuditWrites ==
  ASSUME AuditInv, NEW p \in Procs, AtOwnership(p), work'[p].own \notin reported',
         \/ Bind(p) \/ Unbind(p) \/ Claim(p) \/ MoveRecord(p) \/ DropSource(p) \/ RevertClaim(p)
         \/ RevertMove(p) \/ DropDestination(p) \/ AppendAudit(p)
  PROVE  Between(p)'
<1> USE DEF Goto, Keeps, Notes
<1>0. /\ GInv /\ pc \in [Procs -> Steps] /\ work \in [Procs -> Work] /\ work[p] \in Work
      /\ WorkFits(p) /\ OwnerFound(p) /\ work[p].own \in Owners /\ work[p].own # "none"
      /\ DOMAIN own = {"active", "closed", "failed"}
  BY DEF AuditInv, OwnerInv, GInv, GovernedAt, GovernedTypeOK, TypedWith, Steps, AtOwnership, Work
<1>1. PICK o \in Owners : o = work[p].own
  BY <1>0
<1>2. /\ work'[p].op = work[p].op /\ work'[p].own = o /\ work[p].own = o
      /\ work'[p].epoch = work[p].epoch /\ work'[p].before = work[p].before
      /\ UNCHANGED reported
  BY <1>0, <1>1 DEF Bind, Unbind, Claim, MoveRecord, DropSource, RevertClaim, RevertMove,
              DropDestination, AppendAudit, Work
<1>3. Between(p)
  BY <1>2 DEF AuditInv
<1>4. UNCHANGED audit => /\ PlacesOf(o)' = PlacesOf(o) /\ EpochOf(o)' = EpochOf(o)
                         /\ Unheard(o)' <=> Unheard(o)
  BY DEF PlacesOf, EpochOf, Unheard, EventsOf, StartsFor
<1>5. DOMAIN own' = DOMAIN own
  BY <1>0 DEF Bind, Unbind, Claim, MoveRecord, DropSource, RevertClaim, RevertMove,
              DropDestination, AppendAudit, Record, Erase
<1>6. /\ o \in DOMAIN own["active"] <=> "active" \in Places(o)
      /\ o \in DOMAIN own'["active"] <=> "active" \in Places(o)'
  BY <1>0, <1>5 DEF Places
<1>7. Unheard(o) => PlacesOf(o) = {} /\ EpochOf(o) = {"none"}
  BY DEF Unheard, PlacesOf, EpochOf, Latest
<1>8. Destination(p) \in {"closed", "failed"} /\ Destination(p)' = Destination(p)
  BY <1>2 DEF Destination
<1>9. CASE Bind(p)
  <2>1. /\ work[p].op = "start" /\ ~work[p].bound /\ pc[p] = "bind"
        /\ o \in DOMAIN own["active"]
    BY <1>0, <1>2, <1>9 DEF Bind, WorkFits, StartOnly, OwnerFound, ActiveFor
  <2>2. /\ Agrees(o) /\ own["active"][o] = work[p].before
    BY <1>2, <1>3, <2>1 DEF Between, StartBetween
  <2>3. /\ Places(o)' = Places(o) /\ own'["active"][o].epoch = work[p].epoch
    <3>1. Record("active", o, [work[p].before EXCEPT !.epoch = work[p].epoch])
      BY <1>2, <1>9 DEF Bind
    <3>2. [work[p].before EXCEPT !.epoch = work[p].epoch].epoch = work[p].epoch
      BY <1>0 DEF Work, Ownership
    <3>3. /\ Places(o)' = Places(o) \union {"active"}
          /\ own'["active"][o] = [work[p].before EXCEPT !.epoch = work[p].epoch]
      BY <1>0, <3>1, Placed
    <3> QED
      BY <1>6, <2>1, <3>2, <3>3
  <2>4. UNCHANGED audit /\ pc'[p] = "audit-lock" /\ work'[p].bound /\ ~work'[p].audited
    BY <1>0, <1>9 DEF Bind, Work, WorkFits
  <2>5. StartBetween(p)'
    BY <1>2, <1>4, <1>6, <2>1, <2>2, <2>3, <2>4 DEF StartBetween, Agrees
  <2> QED
    BY <1>2, <2>1, <2>5 DEF Between
<1>10. CASE Unbind(p)
  <2>1. /\ work[p].op = "start" /\ work[p].bound /\ ~work[p].audited /\ pc[p] = "unbind"
    BY <1>0, <1>10 DEF Unbind, WorkFits, StartOnly
  <2>2. /\ Places(o) = PlacesOf(o) /\ o \in DOMAIN own["active"]
        /\ {work[p].before.epoch} = EpochOf(o)
    BY <1>2, <1>3, <2>1 DEF Between, StartBetween
  <2>3. /\ Places(o)' = Places(o) /\ own'["active"][o] = work[p].before
    <3>1. Record("active", o, work[p].before)
      BY <1>2, <1>10 DEF Unbind
    <3> QED
      <4>1. Places(o)' = Places(o) \union {"active"} /\ own'["active"][o] = work[p].before
        BY <1>0, <3>1, Placed
      <4> QED
        BY <1>6, <2>2, <4>1
  <2>4. UNCHANGED audit /\ pc'[p] = "own-unlock"
    BY <1>0, <1>10 DEF Unbind
  <2>5. StartBetween(p)'
    BY <1>2, <1>4, <1>6, <2>2, <2>3, <2>4 DEF StartBetween, Agrees
  <2> QED
    BY <1>2, <2>1, <2>5 DEF Between
<1>11. CASE Claim(p)
  <2>1. /\ work[p].op = "claim" /\ Places(o) = {} /\ ~work[p].audited
    BY <1>0, <1>2, <1>11 DEF Claim, KnownOwners, Places, WorkFits
  <2>2. Unheard(o)
    BY <1>0, <1>2, <1>3, <1>11, <2>1 DEF Between, ClaimBetween, Agrees, Claim
  <2>3. Places(o)' = {"active"} /\ own'["active"][o].epoch = "none"
    <3>1. Record("active", o, [task |-> work[p].task, epoch |-> "none"])
      BY <1>2, <1>11 DEF Claim
    <3> QED
      BY <1>0, <2>1, <3>1, Placed
  <2>4. UNCHANGED <<audit, work>> /\ pc'[p] = "audit-lock"
    BY <1>0, <1>11 DEF Claim
  <2>5. ClaimBetween(p)'
    BY <1>2, <1>4, <2>1, <2>2, <2>3, <2>4 DEF ClaimBetween
  <2> QED
    BY <1>2, <2>1, <2>5 DEF Between
<1>12. CASE RevertClaim(p)
  <2>1. work[p].op = "claim" /\ ~work[p].audited /\ pc[p] = "revert"
    BY <1>0, <1>12 DEF RevertClaim, WorkFits
  <2>2. Places(o) = {"active"} /\ Unheard(o)
    BY <1>2, <1>3, <2>1 DEF Between, ClaimBetween
  <2>3. Places(o)' = {}
    <3>1. Erase("active", o)
      BY <1>2, <1>12 DEF RevertClaim
    <3> QED
      BY <1>0, <2>2, <3>1, Placed
  <2>4. UNCHANGED <<audit, work>> /\ pc'[p] = "own-unlock"
    BY <1>0, <1>12 DEF RevertClaim
  <2>5. ClaimBetween(p)'
    BY <1>2, <1>4, <1>6, <1>7, <2>2, <2>3, <2>4 DEF ClaimBetween, Agrees
  <2> QED
    BY <1>2, <2>1, <2>5 DEF Between
<1>13. CASE MoveRecord(p)
  <2>1. work[p].op \in {"close", "fail"} /\ ~work[p].audited /\ pc[p] = "move"
    BY <1>0, <1>13 DEF MoveRecord, WorkFits, MoveOnly
  <2>2. Agrees(o) /\ Places(o) = {"active"} /\ own["active"][o] = work[p].before
    BY <1>2, <1>3, <2>1 DEF Between, CloseBetween
  <2>3. Places(o)' = {"active", Destination(p)} /\ own'["active"][o] = work[p].before
    <3>1. Record(Destination(p), o, work[p].before)
      BY <1>2, <1>13 DEF MoveRecord
    <3>2. PICK dir \in {"closed", "failed"} : dir = Destination(p)
      BY <1>8
    <3> QED
      BY <1>0, <2>2, <3>1, <3>2, Placed
  <2>4. UNCHANGED <<audit, work>> /\ pc'[p] = "drop-source"
    BY <1>0, <1>13 DEF MoveRecord
  <2>5. CloseBetween(p)'
    BY <1>2, <1>4, <1>6, <1>8, <2>1, <2>2, <2>3, <2>4 DEF CloseBetween, Agrees
  <2> QED
    BY <1>2, <2>1, <2>5 DEF Between
<1>14. CASE DropSource(p)
  <2>1. work[p].op \in {"close", "fail"} /\ ~work[p].audited /\ pc[p] = "drop-source"
    BY <1>0, <1>14 DEF DropSource, WorkFits, MoveOnly
  <2>2. /\ PlacesOf(o) = {"active"} /\ {work[p].before.epoch} = EpochOf(o)
        /\ Places(o) = {"active", Destination(p)}
    BY <1>2, <1>3, <2>1 DEF Between, CloseBetween
  <2>3. Places(o)' = {Destination(p)}
    <3>1. Erase("active", o)
      BY <1>2, <1>14 DEF DropSource
    <3> QED
      <4>1. Places(o)' = Places(o) \ {"active"}
        BY <1>0, <3>1, Placed
      <4> QED
        BY <1>8, <2>2, <4>1
  <2>4. UNCHANGED <<audit, work>> /\ pc'[p] = "audit-lock"
    BY <1>0, <1>14 DEF DropSource
  <2>5. CloseBetween(p)'
    BY <1>2, <1>4, <1>8, <2>1, <2>2, <2>3, <2>4 DEF CloseBetween
  <2> QED
    BY <1>2, <2>1, <2>5 DEF Between
<1>15. CASE RevertMove(p)
  <2>1. work[p].op \in {"close", "fail"} /\ ~work[p].audited /\ pc[p] = "revert"
    BY <1>0, <1>15 DEF RevertMove, WorkFits, GovernedPCs, Work
  <2>2. /\ PlacesOf(o) = {"active"} /\ {work[p].before.epoch} = EpochOf(o)
        /\ Places(o) = {Destination(p)}
    BY <1>2, <1>3, <2>1 DEF Between, CloseBetween
  <2>3. Places(o)' = {"active", Destination(p)} /\ own'["active"][o] = work[p].before
    <3>1. Record("active", o, work[p].before)
      BY <1>2, <1>15 DEF RevertMove
    <3> QED
      BY <1>0, <2>2, <3>1, Placed
  <2>4. UNCHANGED <<audit, work>> /\ pc'[p] = "drop-destination"
    BY <1>0, <1>15 DEF RevertMove
  <2>5. CloseBetween(p)'
    BY <1>2, <1>4, <1>8, <2>1, <2>2, <2>3, <2>4 DEF CloseBetween
  <2> QED
    BY <1>2, <2>1, <2>5 DEF Between
<1>16. CASE DropDestination(p)
  <2>1. work[p].op \in {"close", "fail"} /\ ~work[p].audited /\ pc[p] = "drop-destination"
    BY <1>0, <1>16 DEF DropDestination, WorkFits, MoveOnly
  <2>2. /\ PlacesOf(o) = {"active"} /\ {work[p].before.epoch} = EpochOf(o)
        /\ Places(o) = {"active", Destination(p)} /\ own["active"][o] = work[p].before
    BY <1>2, <1>3, <2>1 DEF Between, CloseBetween
  <2>3. Places(o)' = {"active"} /\ own'["active"] = own["active"]
    <3>1. Erase(Destination(p), o)
      BY <1>2, <1>16 DEF DropDestination
    <3>2. PICK dir \in {"closed", "failed"} : dir = Destination(p)
      BY <1>8
    <3> QED
      <4>1. Places(o)' = Places(o) \ {dir} /\ \A d \in DOMAIN own \ {dir} : own'[d] = own[d]
        BY <1>0, <3>1, <3>2, Placed
      <4> QED
        BY <1>0, <2>2, <3>2, <4>1
  <2>4. UNCHANGED <<audit, work>> /\ pc'[p] = "own-unlock"
    BY <1>0, <1>16 DEF DropDestination
  <2>5. CloseBetween(p)'
    BY <1>2, <1>4, <2>1, <2>2, <2>3, <2>4 DEF CloseBetween, Agrees
  <2> QED
    BY <1>2, <2>1, <2>5 DEF Between
<1>17. CASE AppendAudit(p)
  <2>1. /\ work[p].op = "start" => work[p].bound
        /\ work[p].op \in {"start", "claim", "close", "fail"}
        /\ pc[p] = "append" /\ ~work[p].audited
    BY <1>0, <1>17 DEF AppendAudit, WorkFits, GovernedPCs, Work
  <2>2. UNCHANGED own /\ pc'[p] = "audit-unlock" /\ work'[p].audited
    BY <1>0, <1>17 DEF AppendAudit, Work
  <2>3. Places(o)' = Places(o)
    BY <2>2 DEF Places
  <2>4. /\ work[p].op = "start" => PlacesOf(o)' = PlacesOf(o) /\ EpochOf(o)' = {work[p].epoch}
        /\ work[p].op # "start" => EpochOf(o)' = EpochOf(o) /\ PlacesOf(o)' = {Names[work[p].op]}
    <3>1. audit \in Seq(Event) /\ audit' = Append(audit, EventOf(work[p]))
      BY <1>0, <1>17 DEF AppendAudit, GInv, GovernedTypeOK
    <3> QED
      BY <1>0, <1>2, <3>1, Heard
  <2>5. work[p].op = "start" => Agrees(o)'
    BY <1>2, <1>3, <1>6, <2>1, <2>2, <2>3, <2>4 DEF Between, StartBetween, Agrees
  <2>6. work[p].op = "claim" => Agrees(o)'
    BY <1>2, <1>3, <1>6, <1>7, <2>1, <2>2, <2>3, <2>4 DEF Between, ClaimBetween, Agrees, Names
  <2>7. work[p].op \in {"close", "fail"} => Agrees(o)'
    BY <1>2, <1>3, <1>6, <1>8, <2>1, <2>2, <2>3, <2>4
       DEF Between, CloseBetween, Destination, Agrees, Names
  <2> QED
    BY <1>2, <2>1, <2>2, <2>5, <2>6, <2>7 DEF Between, StartBetween, ClaimBetween, CloseBetween
<1> QED
  BY <1>9, <1>10, <1>11, <1>12, <1>13, <1>14, <1>15, <1>16, <1>17

\* The log and the directories never part for longer than a command holds the
\* lock.  A command that dies would leave them apart: no process dies here.
LEMMA AuditInvariant ==
  ASSUME "crash" \notin Faults
  PROVE  /\ GovernedInit => AuditInv
         /\ AuditInv /\ [GovernedNext]_allVars => AuditInv'
<1>1. ASSUME GovernedInit PROVE AuditInv
  <2>1. OwnerInv
    BY <1>1, OwnerInvariant
  <2>2. /\ lock["work-ownership"] = Free
        /\ \A p \in Procs : ~AtOwnership(p)
    BY <1>1 DEF GovernedInit, Init, Locks, AtOwnership, OwnSteps, GovernedPCs
  <2>3. ASSUME NEW o \in Owners PROVE Agrees(o)
    <3>1. audit = <<>> /\ own = NoOwnerships
      BY <1>1 DEF GovernedInit
    <3>2. EventsOf(o) = {} /\ StartsFor(o) = {}
      BY <3>1 DEF EventsOf, StartsFor
    <3>3. PlacesOf(o) = {}
      BY <3>2 DEF PlacesOf, Latest
    <3>4. Places(o) = {} /\ o \notin DOMAIN own["active"]
      BY <3>1 DEF Places, NoOwnerships, NoFiles
    <3> QED
      BY <3>2, <3>3, <3>4 DEF Agrees, Unheard
  <2> QED
    BY <2>1, <2>2, <2>3 DEF AuditInv, Free, Stale
<1>2. ASSUME AuditInv, [GovernedNext]_allVars PROVE AuditInv'
  <2>0. OwnerInv' /\ GInv /\ OwnerInv
    BY <1>2, OwnerInvariant DEF AuditInv, OwnerInv
  <2>1. ASSUME UNCHANGED <<own, audit, reported>>,
               \A q \in Procs : AtOwnership(q)' => AtOwnership(q) /\ pc'[q] = pc[q] /\ work'[q] = work[q],
               \A q \in Procs : AtOwnership(q) => AtOwnership(q)',
               lock'["work-ownership"] # Stale
        PROVE  AuditInv'
    <3>1. \A o : /\ Places(o)' = Places(o) /\ PlacesOf(o)' = PlacesOf(o) /\ EpochOf(o)' = EpochOf(o)
                 /\ Unheard(o)' <=> Unheard(o)
                 /\ Agrees(o)' <=> Agrees(o)
      BY <2>1, StillAgrees
    <3>2. ASSUME NEW o \in Owners \ reported', ~AtWork(o)' PROVE Agrees(o)'
      <4>1. ~AtWork(o)
        BY <2>1, <3>2 DEF AtWork
      <4> QED
        BY <1>2, <2>1, <3>1, <3>2, <4>1 DEF AuditInv
    <3>3. ASSUME NEW q \in Procs, AtOwnership(q)', work'[q].own \notin reported' PROVE Between(q)'
      <4>1. Between(q) /\ pc'[q] = pc[q] /\ work'[q] = work[q]
        BY <1>2, <2>1, <3>3 DEF AuditInv
      <4> QED
        BY <2>1, <3>1, <4>1 DEF Between, StartBetween, ClaimBetween, CloseBetween, Destination
    <3> QED
      BY <2>0, <2>1, <3>2, <3>3 DEF AuditInv
  <2>2. CASE UNCHANGED allVars
    BY <1>2, <2>1, <2>2 DEF AuditInv, allVars, vars, gvars, AtOwnership
  <2>3. CASE EpochStep
    <3>1. LockKept("work-ownership") /\ \A q \in Procs : Aside(q)
      BY <2>0, <2>3, EpochApart DEF EpochStep
    <3>2. lock'["work-ownership"] # Stale
      BY <1>2, <3>1 DEF LockKept, AuditInv, Free, Stale
    <3>3. ASSUME NEW q \in Procs
          PROVE  /\ AtOwnership(q)' => AtOwnership(q) /\ pc'[q] = pc[q] /\ work'[q] = work[q]
                 /\ AtOwnership(q) => AtOwnership(q)'
      <4>1. /\ GovernedLocks(q) /\ GovernedLocks(q)'
            /\ lock["work-ownership"] = q => lock'["work-ownership"] # Stale
        BY <2>0, <3>2 DEF OwnerInv, GInv, GovernedAt
      <4>2. AtOwnership(q) => lock'["work-ownership"] = q
        BY <1>2, <3>1, <4>1
           DEF LockKept, AuditInv, GovernedLocks, Aside, AtOwnership, OwnSteps, Locks
      <4>3. AtOwnership(q)' => pc'[q] = pc[q] /\ work'[q] = work[q]
        BY <2>3, <3>1 DEF AtOwnership, OwnSteps, Aside, Dies, EpochStep, GovernedPCs
      <4> QED
        BY <4>1, <4>2, <4>3 DEF GovernedLocks, AtOwnership
    <3> QED
      BY <2>1, <2>3, <3>2, <3>3 DEF EpochStep
  <2>4. ASSUME NEW p \in Procs, BeginGovernedStart(p) \/ BeginOwnership(p) \/ GovernedStep(p)
        PROVE  AuditInv'
    <3>1. /\ \A o \in Owners \ reported' :
               (AtOwnership(p) => work[p].own # o) /\ ~AtWork(o)' => Agrees(o)'
          /\ \A q \in Procs \ {p} : AtOwnership(q)' /\ work'[q].own \notin reported' => Between(q)'
      BY <1>2, <2>4, AuditOthers
    <3>2. /\ lock'["work-ownership"] = lock["work-ownership"] \/ TakeOwnership(p) \/ LeaveOwnership(p)
          /\ AtOwnership(p)' => AtOwnership(p) \/ TakeOwnership(p)
          /\ AtOwnership(p) => AtOwnership(p)' \/ LeaveOwnership(p)
      BY <2>0, <2>4, OwnershipMoves
    <3>3. lock'["work-ownership"] # Stale
      BY <1>2, <2>0, <3>2, EpochLifecycleAssumption
         DEF AuditInv, GInv, GovernedTypeOK, TypedWith, TakeOwnership, Take, LeaveOwnership,
             Release,
             Locks, Free, Stale
    <3>4. ASSUME AtOwnership(p)', work'[p].own \notin reported' PROVE Between(p)'
      <4>1. CASE TakeOwnership(p)
        BY <1>2, <3>4, <4>1, AuditTakes
      <4>2. CASE AtOwnership(p) /\ ~TakeOwnership(p)
        <5>1. /\ pc[p] \in OwnSteps /\ lock'["work-ownership"] = p /\ Free # p
              /\ lock \in [Locks -> Procs \union {Free, Stale}]
          BY <2>0, <3>4, <4>2, EpochLifecycleAssumption
             DEF OwnerInv, GInv, GovernedAt, GovernedLocks, AtOwnership, GovernedTypeOK,
                 TypedWith, Free
        <5>2. ~LeaveOwnership(p)
          BY <5>1 DEF LeaveOwnership, Release, Locks
        <5>3. ~(\/ TakeRuntime(p) \/ Look(p) \/ LeaveRuntime(p) \/ BeginGovernedStart(p)
                \/ BeginOwnership(p))
          BY <5>1, <2>0, Begun DEF TakeRuntime, Look, LeaveRuntime, OwnSteps, GovernedPCs
        <5> QED
          BY <1>2, <2>4, <3>4, <4>2, <5>2, <5>3, AuditRests, AuditWrites DEF GovernedStep
      <4> QED
        BY <3>2, <3>4, <4>1, <4>2
    <3>5. ASSUME NEW o \in Owners \ reported', ~AtWork(o)' PROVE Agrees(o)'
      <4>1. CASE AtOwnership(p) => work[p].own # o
        BY <3>1, <3>5, <4>1
      <4>2. CASE AtOwnership(p) /\ work[p].own = o
        <5>1. CASE LeaveOwnership(p)
          BY <1>2, <3>5, <4>2, <5>1, AuditLeaves DEF LeaveOwnership
        <5>2. CASE AtOwnership(p)'
          BY <2>0, <2>4, <3>5, <4>2, <5>2, OwnKept DEF AtWork
        <5> QED
          BY <3>2, <4>2, <5>1, <5>2
      <4> QED
        BY <4>1, <4>2
    <3> QED
      BY <2>0, <3>1, <3>3, <3>4, <3>5 DEF AuditInv
  <2> QED
    BY <1>2, <2>2, <2>3, <2>4 DEF GovernedNext
<1> QED
  BY <1>1, <1>2

\* Whenever no command is at work on the ownership records, each is in the one
\* place, and bound to the one epoch, that the audit log tells: although binding
\* and closeout are several file operations that may fail half way
\* (start_governed_execution_command, close_work_ownership and their ways back).
\* Only a command that reported it could not take back what it did is excused,
\* and no command dies: that leaves a lock, and a record, to be repaired by hand.
THEOREM OwnershipTold ==
  ASSUME "crash" \notin Faults
  PROVE  GovernedSpec => []OwnershipIsAudited
<1>1. AuditInv => OwnershipIsAudited
  <2> SUFFICES ASSUME AuditInv, lock["work-ownership"] = Free, NEW o \in Owners \ reported
               PROVE  /\ {dir \in DOMAIN own : o \in DOMAIN own[dir]} = PlacesOf(o)
                      /\ o \in DOMAIN own["active"] => {own["active"][o].epoch} = EpochOf(o)
    BY DEF OwnershipIsAudited
  <2>1. \A p \in Procs : ~AtOwnership(p)
    BY EpochLifecycleAssumption DEF AuditInv, OwnerInv, GInv, GovernedAt, GovernedLocks, Free
  <2>2. Agrees(o)
    BY <2>1 DEF AuditInv, AtWork
  <2> QED
    BY <2>2 DEF Agrees, Places
<1> QED
  BY <1>1, AuditInvariant, PTL DEF GovernedSpec

------------------------------------------------------------------------------
(* Started epochs                                                           *)

\* An epoch that the log tells of, or that a start is about to tell it of, is
\* not lost: whoever ends it writes its terminal record while its active one is
\* there, and takes back the terminal one only while the active one stays.
Live(p) ==
  /\ pc[p] \in {"start-release", "bind", "audit-lock", "append", "audit-unlock", "rollback"}
  /\ work[p].op = "start" /\ work[p].epoch # "none"
Known == DOMAIN active \union DOMAIN completed \union failed
Told(e) == \E i \in DOMAIN audit : audit[i].event = "start" /\ audit[i].epoch = e
Claimed(e) == Told(e) \/ \E p \in Procs : Live(p) /\ work[p].epoch = e
Ends(q) == pc[q] \in {"terminal", "unlink", "undo"}
EndKept(q) ==
  /\ Ends(q) /\ Claimed(job[q].e) => job[q].e \in DOMAIN active
  /\ pc[q] = "unlink" => job[q].e \in DOMAIN completed \union failed
StartInv ==
  /\ GInv /\ \A e : Claimed(e) => e \in Known
  /\ \A p, q \in Procs : Live(p) /\ Live(q) /\ work[p].epoch = work[q].epoch => p = q
  /\ \A p \in Procs : Live(p) /\ ~work[p].audited => ~Told(work[p].epoch)
  /\ \A q \in Procs : EndKept(q)

\* A process that ends an epoch holds the lock of the epochs.
LEMMA EndsLocked ==
  ASSUME GInv, NEW q \in Procs, Ends(q)
  PROVE  lock["active-epoch"] = q
  BY DEF GInv, Control, ControlAt, LocksHeld, InEpochLock, Ends

\* A step of an epoch command loses no such epoch.
LEMMA StartedEpochStep ==
  ASSUME StartInv, EpochStep
  PROVE  StartInv'
<1>0. GInv /\ GInv' /\ [Next]_vars /\ UNCHANGED audit /\ PCs \subseteq Steps /\ TypedWith(Steps)
  BY EpochInductive DEF StartInv, EpochStep, GInv, GovernedTypeOK, Steps
<1>1. ASSUME NEW p \in Procs, Live(p)' PROVE Live(p) /\ work'[p] = work[p]
  <2>1. Aside(p) /\ pc'[p] \in GovernedPCs /\ work'[p] = IF pc'[p] = "idle" THEN NoWork ELSE work[p]
    BY <1>0, <1>1, EpochApart DEF Live, GovernedPCs, EpochStep
  <2> QED
    BY <1>1, <2>1 DEF Aside, Dies, Live, GovernedPCs
<1>2. \A e : Claimed(e)' => Claimed(e)
  BY <1>0, <1>1 DEF Claimed, Told
<1>3. \/ UNCHANGED <<active, completed, failed>>
      \/ \E p \in Procs : \/ StartWrite(p) \/ Rewrite(p) \/ UnlinkActive(p)
                          \/ WriteTerminal(p) \/ UndoTerminal(p)
  BY <1>0, Writers
<1>4. ASSUME NEW e, Claimed(e)' PROVE e \in Known'
  <2>1. Claimed(e) /\ e \in Known
    BY <1>2, <1>4 DEF StartInv
  <2>2. CASE UNCHANGED <<active, completed, failed>>
    BY <2>1, <2>2 DEF Known
  <2>3. ASSUME NEW p \in Procs, StartWrite(p) \/ Rewrite(p) PROVE e \in Known'
    BY <2>1, <2>3 DEF StartWrite, Rewrite, Put, Known
  <2>4. ASSUME NEW p \in Procs, UnlinkActive(p) PROVE e \in Known'
    <3>1. EndKept(p)
      BY DEF StartInv
    <3> QED
      BY <2>1, <2>4, <3>1 DEF UnlinkActive, EndKept, Drop, Known
  <2>5. ASSUME NEW p \in Procs, WriteTerminal(p) PROVE e \in Known'
    BY <2>1, <2>5 DEF WriteTerminal, Put, Known
  <2>6. ASSUME NEW p \in Procs, UndoTerminal(p) PROVE e \in Known'
    <3>1. EndKept(p)
      BY DEF StartInv
    <3>2. e = job[p].e => e \in DOMAIN active
      BY <2>1, <2>6, <3>1 DEF UndoTerminal, EndKept, Ends
    <3> QED
      BY <2>1, <2>6, <3>2 DEF UndoTerminal, Drop, Known
  <2> QED
    BY <1>3, <2>2, <2>3, <2>4, <2>5, <2>6
<1>5. ASSUME NEW q \in Procs, NEW e, Ends(q)', job'[q].e = e
      PROVE  /\ Claimed(e)' => e \in DOMAIN active'
             /\ pc'[q] = "unlink" => e \in DOMAIN completed' \union failed'
  <2>1. \/ pc'[q] = pc[q] /\ job'[q] = job[q]
        \/ /\ DOMAIN active = {e} /\ UNCHANGED active
           /\ pc'[q] \in {"write", "terminal"}
        \/ WriteTerminal(q) \/ UnlinkFails(q)
    BY <1>0, <1>5, Arrivals DEF Ends, Rewriting
  <2>2. CASE /\ DOMAIN active = {e} /\ UNCHANGED active
             /\ pc'[q] \in {"write", "terminal"}
    BY <2>2
  <2>3. CASE WriteTerminal(q) \/ UnlinkFails(q)
    <3>1. /\ EndKept(q) /\ Ends(q) /\ UNCHANGED <<active, job>>
          /\ pc'[q] = "unlink" => job[q].e \in DOMAIN completed' \union failed'
      BY <1>0, <2>3 DEF StartInv, WriteTerminal, UnlinkFails, Ends, Put, Goto, files, TypedWith
    <3> QED
      BY <1>2, <1>5, <3>1 DEF EndKept
  <2>4. CASE pc'[q] = pc[q] /\ job'[q] = job[q]
    <3>1. EndKept(q) /\ Ends(q) /\ lock["active-epoch"] = q
      BY <1>0, <1>5, <2>4, EndsLocked DEF StartInv, Ends
    <3>2. ASSUME NEW p \in Procs, UnlinkActive(p) \/ UndoTerminal(p) PROVE FALSE
      <4>1. Ends(p) /\ pc'[p] = "release"
        BY <1>0, <3>2 DEF UnlinkActive, UndoTerminal, Ends, Goto, TypedWith
      <4>2. p = q
        BY <1>0, <3>1, <4>1, EndsLocked
      <4> QED
        BY <2>4, <3>1, <4>1, <4>2 DEF Ends
    <3>3. /\ DOMAIN active \subseteq DOMAIN active' /\ DOMAIN completed \subseteq DOMAIN completed'
          /\ failed \subseteq failed'
      BY <1>3, <3>2 DEF StartWrite, Rewrite, WriteTerminal, Put
    <3> QED
      BY <1>2, <1>5, <2>4, <3>1, <3>3 DEF EndKept
  <2> QED
    BY <2>1, <2>2, <2>3, <2>4
<1>6. ASSUME NEW p \in Procs, Live(p)', ~work'[p].audited PROVE ~Told(work[p].epoch)'
  BY <1>0, <1>1, <1>6 DEF StartInv, Told
<1>7. ASSUME NEW q \in Procs PROVE EndKept(q)'
  BY <1>5 DEF EndKept, Ends
<1> QED
  BY <1>0, <1>1, <1>4, <1>6, <1>7 DEF StartInv, Told

\* A start is at work on an epoch from the write of its active record until the
\* log tells of it, or until it is rolled back.
LEMMA LiveComes ==
  ASSUME GInv, NEW p \in Procs, BeginGovernedStart(p) \/ BeginOwnership(p) \/ GovernedStep(p),
         Live(p)'
  PROVE  \/ WriteEpoch(p)
         \/ /\ Live(p) /\ work'[p].epoch = work[p].epoch /\ ~RollBackEpoch(p)
            /\ ~work'[p].audited => ~work[p].audited
<1> USE DEF Goto, Keeps, Notes
<1> DEFINE Stays == /\ Live(p) /\ work'[p].epoch = work[p].epoch /\ ~RollBackEpoch(p)
                    /\ ~work'[p].audited => ~work[p].audited
<1>0. /\ pc \in [Procs -> Steps] /\ work \in [Procs -> Work] /\ work[p] \in Work
      /\ WorkFits(p) /\ NoWork.op = "none"
      /\ pc'[p] \in {"start-release", "bind", "audit-lock", "append", "audit-unlock", "rollback"}
      /\ work'[p].op = "start" /\ work'[p].epoch # "none"
  BY BlankWork DEF GInv, GovernedAt, GovernedTypeOK, TypedWith, Steps, Live
<1>1. CASE BeginGovernedStart(p) \/ BeginOwnership(p)
  BY <1>0, <1>1, Begun
<1>2. CASE \/ TakeRuntime(p) \/ TakeOwnership(p) \/ TakeEpochLock(p) \/ Look(p)
           \/ ValidateOwnership(p)
  BY <1>0, <1>2 DEF TakeRuntime, TakeOwnership, TakeEpochLock, Look, ValidateOwnership, Take,
                    Exits, Finish, Unlock
<1>3. CASE LoadActive(p) \/ LeaveEpochLock(p) \/ BindFails(p)
  BY <1>0, <1>3 DEF LoadActive, LeaveEpochLock, BindFails, Live, WorkFits, Unlock, RollBackEpoch
<1>4. CASE WriteEpoch(p)
  BY <1>4
<1>5. CASE Bind(p) \/ OpenAudit(p) \/ AppendAudit(p)
  <2>1. /\ pc[p] \in {"bind", "audit-lock", "append"} /\ ~RollBackEpoch(p)
        /\ work'[p].op = work[p].op /\ work'[p].epoch = work[p].epoch
    BY <1>0, <1>5 DEF Bind, OpenAudit, AppendAudit, Work, RollBackEpoch
  <2>2. ~work[p].audited
    BY <1>0, <2>1 DEF WorkFits
  <2> QED
    BY <1>0, <2>1, <2>2 DEF Live
<1>6. CASE AppendFails(p) \/ CloseAudit(p)
  BY <1>0, <1>6 DEF AppendFails, CloseAudit, Live, Undoing, Unlock, RollBackEpoch
<1>7. CASE \/ RollBackEpoch(p) \/ RollbackFails(p) \/ Unbind(p) \/ UnbindFails(p)
           \/ LeaveOwnership(p) \/ LeaveRuntime(p)
  BY <1>0, <1>7 DEF RollBackEpoch, RollbackFails, Unbind, UnbindFails, LeaveOwnership,
                    LeaveRuntime, AfterRollback, Unlock, Exits, Finish
<1>8. CASE \/ Claim(p) \/ CloseLoad(p) \/ OwnershipRefused(p) \/ MoveRecord(p) \/ DropSource(p)
           \/ DropSourceFails(p) \/ RevertClaim(p) \/ RevertMove(p) \/ DropDestination(p)
           \/ RevertFails(p)
  BY <1>0, <1>8 DEF Claim, CloseLoad, OwnershipRefused, MoveRecord, DropSource, DropSourceFails,
                    RevertClaim, RevertMove, DropDestination, RevertFails, WorkFits, MoveOnly
<1> QED
  BY <1>1, <1>2, <1>3, <1>4, <1>5, <1>6, <1>7, <1>8 DEF GovernedStep

\* What a command appends, it has done.
LEMMA ToldComes ==
  ASSUME StartInv, NEW p \in Procs, BeginGovernedStart(p) \/ BeginOwnership(p) \/ GovernedStep(p),
         NEW e, Told(e)'
  PROVE  \/ Told(e)
         \/ AppendAudit(p) /\ Live(p) /\ work[p].epoch = e
<1>1. CASE UNCHANGED audit
  BY <1>1 DEF Told
<1>2. CASE AppendAudit(p)
  <2>1. audit \in Seq(Event) /\ audit' = Append(audit, EventOf(work[p])) /\ pc[p] = "append"
    BY <1>2 DEF AppendAudit, StartInv, GInv, GovernedTypeOK
  <2>2. EventOf(work[p]).event = work[p].op /\ EventOf(work[p]).epoch = work[p].epoch
    BY DEF EventOf
  <2>3. work[p].op = "start" => Live(p)
    BY <2>1, GovernedAssumption DEF StartInv, GInv, GovernedAt, WorkFits, Live
  <2>4. PICK i \in DOMAIN audit' : audit'[i].event = "start" /\ audit'[i].epoch = e
    BY DEF Told
  <2>5. CASE i \in DOMAIN audit
    BY <2>1, <2>4, <2>5 DEF Told
  <2>6. CASE i = Len(audit) + 1
    BY <1>2, <2>1, <2>2, <2>3, <2>4, <2>6
  <2> QED
    BY <2>1, <2>4, <2>5, <2>6
<1> QED
  BY <1>1, <1>2, GovernedWriters DEF StartInv

\* No step of a governed start or an ownership command loses such an epoch: the
\* one that is rolled back, the log will never tell of.
LEMMA StartedStep ==
  ASSUME StartInv, NEW p \in Procs, BeginGovernedStart(p) \/ BeginOwnership(p) \/ GovernedStep(p)
  PROVE  StartInv'
<1>0. GInv /\ GInv' /\ Apart(p)
  BY GovernedInductive, GovernedApart DEF StartInv
<1>1. ASSUME NEW q \in Procs \ {p}, Live(q)' PROVE Live(q) /\ work'[q] = work[q]
  BY <1>0, <1>1 DEF Apart, Live
<1>2. ASSUME NEW q \in Procs, Ends(q)' PROVE q # p /\ Ends(q) /\ pc'[q] = pc[q] /\ job'[q] = job[q]
  BY <1>0, <1>2 DEF Apart, Ends, GovernedPCs
<1>3. CASE WriteEpoch(p)
  <2>1. PICK e \in FreshIds : /\ active' = Put(active, e, NewEpoch({work[p].task}))
                              /\ work' = [work EXCEPT ![p] = [work[p] EXCEPT !.epoch = e]]
    BY <1>3 DEF WriteEpoch, Notes
  <2>2. /\ e \notin Known /\ ~Claimed(e) /\ Known' = Known \union {e}
        /\ UNCHANGED <<completed, failed, audit>>
    BY <1>3, <2>1 DEF StartInv, FreshIds, Known, Put, WriteEpoch
  <2>3. work'[p].epoch = e
    BY <1>0, <2>1 DEF GInv, GovernedTypeOK, Work
  <2>4. \A x : Claimed(x)' => Claimed(x) \/ x = e
    BY <1>1, <2>2, <2>3 DEF Claimed, Told
  <2>5. \A q \in Procs : EndKept(q)'
    <3>1. lock["active-epoch"] = p
      BY <1>0, <1>3 DEF WriteEpoch, GInv, GovernedAt, GovernedLocks
    <3> QED
      BY <1>0, <1>2, <3>1, EndsLocked DEF EndKept, Ends
  <2>6. ASSUME NEW q \in Procs, NEW r \in Procs, Live(q)', Live(r)', work'[q].epoch = work'[r].epoch
        PROVE  q = r
    <3>1. \A x \in Procs \ {p} : Live(x)' => work'[x].epoch # e
      BY <1>1, <2>2 DEF Claimed
    <3> QED
      BY <1>1, <2>3, <2>6, <3>1 DEF StartInv
  <2>7. ASSUME NEW q \in Procs, Live(q)', ~work'[q].audited PROVE ~Told(work[q].epoch)'
    <3>1. CASE q = p
      BY <2>2, <2>3, <3>1 DEF Claimed, Told
    <3>2. CASE q # p
      BY <1>1, <2>2, <2>7, <3>2 DEF StartInv, Told
    <3> QED
      BY <3>1, <3>2
  <2> QED
    BY <1>0, <2>2, <2>4, <2>5, <2>6, <2>7 DEF StartInv
<1>4. CASE ~WriteEpoch(p)
  <2>1. ASSUME NEW q \in Procs, Live(q)'
        PROVE  /\ Live(q) /\ work'[q].epoch = work[q].epoch /\ (q = p => ~RollBackEpoch(p))
               /\ ~work'[q].audited => ~work[q].audited
    BY <1>0, <1>1, <1>4, <2>1, LiveComes
  <2>2. \A x : Claimed(x)' => Claimed(x)
    <3> SUFFICES ASSUME NEW x, Claimed(x)' PROVE Claimed(x)
      OBVIOUS
    <3> QED
      BY <2>1, ToldComes DEF Claimed
  <2>3. UNCHANGED <<completed, failed>> /\ (UNCHANGED active \/ RollBackEpoch(p))
    BY <1>0, <1>4, GovernedWriters DEF Apart
  <2>4. ASSUME RollBackEpoch(p), NEW e, Claimed(e)'
        PROVE  e # work[p].epoch /\ active' = Drop(active, work[p].epoch)
    <3>1. Live(p) /\ ~work[p].audited /\ UNCHANGED audit
      BY <1>0, <2>4, GovernedAssumption
         DEF RollBackEpoch, Live, GInv, GovernedAt, WorkFits, StartOnly
    <3>2. ~Told(work[p].epoch)
      BY <3>1 DEF StartInv
    <3>3. Told(e)' => Told(e)
      BY <3>1 DEF Told
    <3>4. ASSUME NEW q \in Procs, Live(q)', work'[q].epoch = e PROVE e # work[p].epoch
      BY <2>1, <2>4, <3>1, <3>4 DEF StartInv
    <3> QED
      BY <2>4, <3>2, <3>3, <3>4 DEF Claimed, RollBackEpoch
  <2>5. ASSUME NEW e, Claimed(e)' PROVE e \in DOMAIN active => e \in DOMAIN active'
    BY <2>3, <2>4, <2>5 DEF Drop
  <2>6. \A e : Claimed(e)' => e \in Known'
    BY <2>2, <2>3, <2>5 DEF StartInv, Known
  <2>7. ASSUME NEW q \in Procs PROVE EndKept(q)'
    <3>1. ASSUME NEW e, Ends(q)', job'[q].e = e
          PROVE  /\ Claimed(e)' => e \in DOMAIN active'
                 /\ pc'[q] = "unlink" => e \in DOMAIN completed' \union failed'
      BY <1>2, <2>2, <2>3, <2>5, <3>1 DEF StartInv, EndKept
    <3> QED
      BY <3>1 DEF EndKept, Ends
  <2>8. ASSUME NEW q \in Procs, Live(q)', ~work'[q].audited PROVE ~Told(work[q].epoch)'
    <3>1. Live(q) /\ ~work[q].audited /\ work'[q].epoch = work[q].epoch
      BY <2>1, <2>8
    <3>2. PICK e \in Epochs : e = work[q].epoch
      BY <1>0, <3>1 DEF Live, GInv, GovernedTypeOK, Work
    <3>3. ~Told(e)
      BY <3>1, <3>2 DEF StartInv
    <3>4. ~Told(e)'
      <4>1. ASSUME AppendAudit(p), Live(p), work[p].epoch = e PROVE FALSE
        <5>1. q = p
          BY <3>1, <3>2, <4>1 DEF StartInv
        <5>2. work'[p].audited
          BY <1>0, <4>1 DEF AppendAudit, Notes, GInv, GovernedTypeOK, Work
        <5> QED
          BY <2>8, <5>1, <5>2
      <4> QED
        BY <3>3, <4>1, ToldComes
    <3> QED
      BY <3>1, <3>2, <3>4 DEF Told
  <2>9. \A q, r \in Procs : Live(q)' /\ Live(r)' /\ work'[q].epoch = work'[r].epoch => q = r
    BY <2>1 DEF StartInv
  <2> QED
    BY <1>0, <2>6, <2>7, <2>8, <2>9 DEF StartInv
<1> QED
  BY <1>3, <1>4

\* So the log tells of no start that did not happen.
LEMMA StartedInvariant ==
  /\ GovernedInit => StartInv
  /\ StartInv /\ [GovernedNext]_allVars => StartInv'
<1>1. ASSUME GovernedInit PROVE StartInv
  <2>1. GInv /\ DOMAIN audit = {} /\ \A p \in Procs : pc[p] = "idle"
    BY <1>1, GovernedInvariant DEF GovernedInit, Init
  <2> QED
    BY <2>1 DEF StartInv, Claimed, Told, Live, EndKept, Ends
<1>2. ASSUME StartInv, [GovernedNext]_allVars PROVE StartInv'
  <2>1. CASE UNCHANGED allVars
    <3>1. GInv'
      BY <1>2, GovernedInvariant DEF StartInv
    <3> QED
      BY <1>2, <2>1, <3>1
         DEF StartInv, Claimed, Told, Live, Known, EndKept, Ends, allVars, vars, gvars
  <2>2. CASE EpochStep
    BY <1>2, <2>2, StartedEpochStep
  <2>3. ASSUME NEW p \in Procs, BeginGovernedStart(p) \/ BeginOwnership(p) \/ GovernedStep(p)
        PROVE  StartInv'
    BY <1>2, <2>3, StartedStep
  <2> QED
    BY <1>2, <2>1, <2>2, <2>3 DEF GovernedNext
<1> QED
  BY <1>1, <1>2

\* The log never tells of a start whose epoch is gone: one that was rolled back,
\* or lost between its terminal and its active record
\* (start_governed_execution_command tells the log last, and write_terminal_epoch
\* writes the terminal record before it unlinks the active one).
THEOREM StartedEpochsAreReal == GovernedSpec => []StartedIsReal
<1>1. StartInv => StartedIsReal
  BY DEF StartInv, StartedIsReal, Claimed, Told, Known
<1> QED
  BY <1>1, StartedInvariant, PTL DEF GovernedSpec

------------------------------------------------------------------------------
(* Starts and the brake                                                     *)

\* A start that has looked at the brake holds the runtime lock from before the
\* look, so that the brake is as it found it.
BrakeKnown(p) ==
  \/ pc[p] \in {"validate", "epoch-lock", "start-load", "start-write"}
  \/ pc[p] = "own-lock" /\ work[p].op = "start" /\ work[p].ok
  => brake = "DRIVE"

\* And no command of another kind is in flight than those in use.
AskedFor(p) == job[p].op \in Commands \union {"none"}

DriveInv == GInv /\ \A p \in Procs : BrakeKnown(p) /\ AskedFor(p)

\* A command stays the command it began as; only set-brake sets the brake.
LEMMA StaysAsked ==
  ASSUME [Next]_vars, TypedWith(Steps), NEW q \in Procs, AskedFor(q)
  PROVE  AskedFor(q)'
<1>0. job \in [Procs -> Job] /\ NoJob.op = "none"
  BY BlankFits DEF TypedWith
<1> USE DEF AskedFor
<1>1. CASE UNCHANGED vars
  BY <1>1 DEF vars
<1>2. ASSUME NEW p \in Procs, Invoke(p) PROVE AskedFor(q)'
  <2>1. PICK j, step : Begin(p, step, j)
    BY <1>2 DEF Invoke, BeginStart, BeginComplete, BeginFail, BeginBrake, BeginSelfCheck,
                BeginCloseout
  <2> QED
    BY <1>0, <2>1 DEF Begin
<1>3. ASSUME NEW p \in Procs,
             \/ AcquireRuntime(p) \/ AcquireEpochLock(p) \/ ReleaseEpochLock(p)
             \/ ReleaseRuntime(p) \/ SetBrake(p) \/ CheckBrake(p) \/ ObserveBrake(p)
      PROVE  AskedFor(q)'
  BY <1>0, <1>3 DEF AcquireRuntime, AcquireEpochLock, Acquire, ReleaseEpochLock, ReleaseRuntime,
                    SetBrake, CheckBrake, ObserveBrake, Finish, Job
<1>4. ASSUME NEW p \in Procs,
             \/ StartLoad(p) \/ StartWrite(p) \/ CompleteLoad(p) \/ FailLoad(p) \/ CheckLoad(p)
             \/ Rewrite(p)
      PROVE  AskedFor(q)'
  <2>1. UNCHANGED job \/ \E d : job' = [job EXCEPT ![p].doc = d]
    BY <1>4 DEF StartLoad, StartWrite, CompleteLoad, FailLoad, CheckLoad, Rewrite
  <2> QED
    BY <1>0, <2>1 DEF Job
<1>5. ASSUME NEW p \in Procs, CloseoutLoad(p) PROVE AskedFor(q)'
  <2> DEFINE e == job[p].e
             after == [active[e] EXCEPT !.done = @ \union {RunTask[job[p].run]},
                                        !.closeouts = Append(@, job[p].run)]
  <2>1. \/ UNCHANGED job
        \/ \E to \in {"failed", "completed", "task_completed"}, d \in {active[e], after} :
              job' = [job EXCEPT ![p] = [@ EXCEPT !.to = to, !.doc = d]]
    BY <1>5 DEF CloseoutLoad
  <2> HIDE DEF after
  <2>2. CASE UNCHANGED job
    BY <2>2
  <2>3. ASSUME NEW to, NEW d, job' = [job EXCEPT ![p] = [job[p] EXCEPT !.to = to, !.doc = d]]
        PROVE  AskedFor(q)'
    BY <1>0, <2>3, EditedJob
  <2> QED
    BY <2>1, <2>2, <2>3
<1>6. ASSUME NEW p \in Procs,
             \/ WriteTerminal(p) \/ UnlinkActive(p) \/ UnlinkFails(p) \/ UndoTerminal(p)
             \/ UndoFails(p)
      PROVE  AskedFor(q)'
  BY <1>0, <1>6 DEF WriteTerminal, UnlinkActive, UnlinkFails, UndoTerminal, UndoFails, Job
<1>7. ASSUME NEW p \in Procs, View(p) \/ Decide(p) \/ ReadRun(p) PROVE AskedFor(q)'
  <2>1. \/ UNCHANGED job \/ job' = [job EXCEPT ![p] = NoJob]
        \/ \E c : job' = [job EXCEPT ![p].check = c] \/ job' = [job EXCEPT ![p].runWas = c]
    BY <1>7 DEF View, Decide, ReadRun, Finish
  <2> QED
    BY <1>0, <2>1 DEF Job
<1>8. ASSUME NEW p \in Procs, RecordRun(p) \/ AuditAppended(p) \/ AuditFails(p) \/ Crash(p)
      PROVE  AskedFor(q)'
  BY <1>0, <1>8 DEF RecordRun, AuditAppended, AuditFails, Crash, Finish
<1>9. ASSUME NEW e \in Epochs, Age(e) PROVE AskedFor(q)'
  BY <1>9 DEF Age
<1>10. ASSUME NEW l \in Locks, ClearStaleLock(l) PROVE AskedFor(q)'
  BY <1>10 DEF ClearStaleLock
<1> HIDE DEF AskedFor
<1> QED
  BY <1>1, <1>2, <1>3, <1>4, <1>5, <1>6, <1>7, <1>8, <1>9, <1>10 DEF Next, Step

LEMMA BrakeSetter ==
  ASSUME [Next]_vars
  PROVE  UNCHANGED brake \/ \E p \in Procs : SetBrake(p)
<1>1. CASE UNCHANGED vars
  BY <1>1 DEF vars
<1>2. ASSUME NEW p \in Procs, Invoke(p) PROVE UNCHANGED brake
  BY <1>2 DEF Invoke, BeginStart, BeginComplete, BeginFail, BeginBrake, BeginSelfCheck,
              BeginCloseout, Begin, files
<1>3. ASSUME NEW p \in Procs, Step(p) \/ Crash(p), ~SetBrake(p) PROVE UNCHANGED brake
  BY <1>3 DEF Step, AcquireRuntime, AcquireEpochLock, Acquire, ReleaseEpochLock,
              ReleaseRuntime, CheckBrake, ObserveBrake, StartLoad, StartWrite, CompleteLoad,
              FailLoad, WriteTerminal, UnlinkActive, UnlinkFails, UndoTerminal, UndoFails,
              View, Decide, CheckLoad, ReadRun, CloseoutLoad, Rewrite, RecordRun,
              AuditAppended, AuditFails, Crash, files
<1>4. ASSUME NEW e \in Epochs, Age(e) PROVE UNCHANGED brake
  BY <1>4 DEF Age
<1>5. ASSUME NEW l \in Locks, ClearStaleLock(l) PROVE UNCHANGED brake
  BY <1>5 DEF ClearStaleLock, files
<1> QED
  BY <1>1, <1>2, <1>3, <1>4, <1>5 DEF Next

\* An epoch command leaves the brake to a start that has looked at it,
LEMMA BrakeLeft ==
  ASSUME DriveInv, EpochStep
  PROVE  DriveInv'
<1>0. GInv /\ GInv' /\ [Next]_vars /\ TypedWith(Steps)
  BY EpochInductive DEF DriveInv, EpochStep, GInv, GovernedTypeOK, Steps
<1>1. \A q \in Procs : AskedFor(q)'
  BY <1>0, StaysAsked DEF DriveInv
<1>2. ASSUME NEW q \in Procs PROVE BrakeKnown(q)'
  <2> SUFFICES ASSUME \/ pc'[q] \in {"validate", "epoch-lock", "start-load", "start-write"}
                      \/ pc'[q] = "own-lock" /\ work'[q].op = "start" /\ work'[q].ok
               PROVE  brake' = "DRIVE"
    BY DEF BrakeKnown
  <2>1. Aside(q) /\ pc'[q] \in GovernedPCs /\ work'[q] = IF pc'[q] = "idle" THEN NoWork ELSE work[q]
    BY <1>0, EpochApart DEF GovernedPCs, EpochStep
  <2>2. pc'[q] = pc[q] /\ work'[q] = work[q]
    BY <2>1 DEF Aside, Dies, GovernedPCs
  <2>3. BrakeKnown(q) /\ WorkFits(q) /\ GovernedLocks(q)
    BY DEF DriveInv, GInv, GovernedAt
  <2>4. brake = "DRIVE" /\ lock["runtime"] = q
    <3>1. brake = "DRIVE"
      BY <2>2, <2>3 DEF BrakeKnown
    <3>2. work[q].op = "start"
      BY <2>2, <2>3 DEF WorkFits, StartOnly
    <3> QED
      BY <2>2, <2>3, <3>1, <3>2 DEF GovernedLocks, GovernedPCs
  <2>5. ASSUME NEW p \in Procs, SetBrake(p) PROVE FALSE
    <3>1. lock["runtime"] = p /\ pc[p] = "set-brake"
      BY <1>0, <2>5 DEF SetBrake, GInv, Control, ControlAt, LocksHeld, JobFits, InRuntime,
                        HoldsRuntime
    <3> QED
      BY <2>2, <2>4, <3>1
  <2> QED
    BY <1>0, <2>4, <2>5, BrakeSetter
<1> QED
  BY <1>0, <1>1, <1>2 DEF DriveInv

\* and a start goes on only from a look that found it off.
LEMMA BrakeLookedAt ==
  ASSUME DriveInv, NEW p \in Procs, BeginGovernedStart(p) \/ BeginOwnership(p) \/ GovernedStep(p)
  PROVE  DriveInv'
<1>0. /\ GInv /\ GInv' /\ Apart(p) /\ BrakeKnown(p)
      /\ pc \in [Procs -> Steps] /\ work \in [Procs -> Work] /\ work[p] \in Work
  BY GovernedInductive, GovernedApart DEF DriveInv, GInv, GovernedTypeOK, TypedWith, Steps
<1>1. \A q \in Procs : AskedFor(q)'
  BY <1>0, BlankFits DEF DriveInv, AskedFor, Apart
<1>2. \A q \in Procs \ {p} : BrakeKnown(q)'
  BY <1>0 DEF DriveInv, BrakeKnown, Apart
<1>3. BrakeKnown(p)'
  <2> USE DEF Goto, Keeps, Notes
  <2> SUFFICES ASSUME \/ pc'[p] \in {"validate", "epoch-lock", "start-load", "start-write"}
                      \/ pc'[p] = "own-lock" /\ work'[p].op = "start" /\ work'[p].ok
               PROVE  brake = "DRIVE"
    BY <1>0 DEF BrakeKnown, Apart
  <2>1. CASE BeginGovernedStart(p) \/ BeginOwnership(p)
    BY <1>0, <2>1, Begun
  <2>2. CASE TakeRuntime(p) \/ TakeOwnership(p) \/ TakeEpochLock(p)
    BY <1>0, <2>2 DEF TakeRuntime, TakeOwnership, TakeEpochLock, Take, Exits, Finish, Unlock,
                      BrakeKnown
  <2>3. CASE Look(p)
    <3>1. PICK fits \in BOOLEAN :
            LET ok == brake = "DRIVE" /\ DOMAIN active = {} /\ fits
            IN  /\ pc' = [pc EXCEPT ![p] = IF work[p].own # "none" THEN "own-lock"
                                           ELSE IF ok THEN "epoch-lock" ELSE "exit"]
                /\ work' = [work EXCEPT ![p] = [work[p] EXCEPT !.ok = ok]]
      BY <2>3 DEF Look
    <3> DEFINE ok == brake = "DRIVE" /\ DOMAIN active = {} /\ fits
    <3>2. work'[p].ok => ok
      BY <1>0, <3>1 DEF Work
    <3> QED
      BY <1>0, <3>1, <3>2
  <2>4. CASE ValidateOwnership(p) \/ LoadActive(p)
    BY <1>0, <2>4 DEF ValidateOwnership, LoadActive, BrakeKnown
  <2>5. CASE \/ WriteEpoch(p) \/ LeaveEpochLock(p) \/ Bind(p) \/ BindFails(p)
             \/ RollBackEpoch(p) \/ RollbackFails(p) \/ Unbind(p) \/ UnbindFails(p)
    BY <1>0, <2>5 DEF WriteEpoch, LeaveEpochLock, Bind, BindFails, RollBackEpoch, RollbackFails,
                      Unbind, UnbindFails, AfterRollback, Unlock
  <2>6. CASE OpenAudit(p) \/ AppendAudit(p) \/ AppendFails(p) \/ CloseAudit(p)
    BY <1>0, <2>6 DEF OpenAudit, AppendAudit, AppendFails, CloseAudit, Undoing, Unlock
  <2>7. CASE \/ Claim(p) \/ CloseLoad(p) \/ OwnershipRefused(p) \/ MoveRecord(p)
             \/ DropSource(p) \/ DropSourceFails(p) \/ RevertClaim(p) \/ RevertMove(p)
             \/ DropDestination(p) \/ RevertFails(p) \/ LeaveOwnership(p) \/ LeaveRuntime(p)
    BY <1>0, <2>7 DEF Claim, CloseLoad, OwnershipRefused, MoveRecord, DropSource,
                      DropSourceFails, RevertClaim, RevertMove, DropDestination, RevertFails,
                      LeaveOwnership, LeaveRuntime, Exits, Finish
  <2> QED
    BY <2>1, <2>2, <2>3, <2>4, <2>5, <2>6, <2>7 DEF GovernedStep
<1> QED
  BY <1>0, <1>1, <1>2, <1>3 DEF DriveInv

LEMMA DriveInvariant ==
  /\ GovernedInit => DriveInv
  /\ DriveInv /\ [GovernedNext]_allVars => DriveInv'
<1>1. ASSUME GovernedInit PROVE DriveInv
  <2>1. GInv /\ \A p \in Procs : pc[p] = "idle" /\ job[p] = NoJob
    BY <1>1, GovernedInvariant DEF GovernedInit, Init
  <2> QED
    BY <2>1, BlankFits DEF DriveInv, BrakeKnown, AskedFor
<1>2. ASSUME DriveInv, [GovernedNext]_allVars PROVE DriveInv'
  <2>1. CASE UNCHANGED allVars
    <3>1. GInv'
      BY <1>2, GovernedInvariant DEF DriveInv
    <3> QED
      BY <1>2, <2>1, <3>1 DEF DriveInv, BrakeKnown, AskedFor, allVars, vars, gvars
  <2>2. CASE EpochStep
    BY <1>2, <2>2, BrakeLeft
  <2>3. ASSUME NEW p \in Procs, BeginGovernedStart(p) \/ BeginOwnership(p) \/ GovernedStep(p)
        PROVE  DriveInv'
    BY <1>2, <2>3, BrakeLookedAt
  <2> QED
    BY <1>2, <2>1, <2>2, <2>3 DEF GovernedNext
<1> QED
  BY <1>1, <1>2

\* No step starts or continues work while the brake is set, unless it is one that
\* rewrites an epoch it loaded before a start rolled it back.
LEMMA GovernedDrive ==
  ASSUME DriveInv, [GovernedNext]_allVars
  PROVE  OnlyOnDrive \/ \E p \in Procs : Rewrite(p)
<1>0. GInv /\ Control
  BY DEF DriveInv, GInv
<1>1. CASE UNCHANGED <<active, completed>>
  BY <1>1 DEF OnlyOnDrive
<1>2. CASE UNCHANGED allVars
  BY <1>2 DEF allVars, vars, OnlyOnDrive
<1>3. CASE EpochStep
  <2>1. ASSUME NEW p \in Procs, StartWrite(p) PROVE OnlyOnDrive
    BY <1>0, <2>1 DEF StartWrite, Control, ControlAt, DriveSeen, NeedsDrive, OnlyOnDrive
  <2>2. ASSUME NEW p \in Procs, UnlinkActive(p) \/ UndoTerminal(p) PROVE OnlyOnDrive
    BY <2>2 DEF UnlinkActive, UndoTerminal, Drop, OnlyOnDrive
  <2>3. ASSUME NEW p \in Procs, WriteTerminal(p) PROVE OnlyOnDrive
    BY <1>0, <2>3, TerminalOnDrive
  <2>4. [Next]_vars
    BY <1>3 DEF EpochStep
  <2> QED
    BY <1>1, <2>1, <2>2, <2>3, <2>4, Writers
<1>4. ASSUME NEW p \in Procs, BeginGovernedStart(p) \/ BeginOwnership(p) \/ GovernedStep(p)
      PROVE  OnlyOnDrive
  <2>1. UNCHANGED completed /\ BrakeKnown(p)
    BY <1>0, <1>4, GovernedApart DEF Apart, DriveInv
  <2>2. CASE WriteEpoch(p)
    BY <2>1, <2>2 DEF WriteEpoch, BrakeKnown, OnlyOnDrive
  <2>3. CASE RollBackEpoch(p)
    BY <2>1, <2>3 DEF RollBackEpoch, Drop, OnlyOnDrive
  <2>4. UNCHANGED active \/ WriteEpoch(p) \/ RollBackEpoch(p)
    BY <1>4, GovernedWriters
  <2>5. CASE UNCHANGED active
    BY <2>1, <2>5 DEF OnlyOnDrive
  <2> QED
    BY <2>2, <2>3, <2>4, <2>5
<1> QED
  BY <1>2, <1>3, <1>4 DEF GovernedNext

\* While no self-check and no closeout is in use, an epoch is started, by a plain
\* start or a governed one, and ended with CONTINUE, only while the brake is
\* DRIVE: start_governed_execution_command holds runtime.lock from before its look
\* at the brake until it is done.  (With them in use an epoch that a governed start
\* has rolled back without the epoch lock may be written back by a command that had
\* loaded it, whatever the brake is by then.)
THEOREM GovernedStartsOnDrive ==
  ASSUME Commands \cap {"check", "closeout"} = {}
  PROVE  GovernedSpec => DriveGoverns
<1>1. ASSUME DriveInv, NEW p \in Procs, Rewrite(p) PROVE FALSE
  BY <1>1 DEF DriveInv, AskedFor, Rewrite
<1>2. DriveInv /\ [GovernedNext]_allVars => [OnlyOnDrive]_vars
  BY <1>1, GovernedDrive
<1> QED
  BY <1>2, DriveInvariant, PTL DEF GovernedSpec, DriveGoverns
=============================================================================
