-------------------------- MODULE GovernedExecution --------------------------
(***************************************************************************)
(* A governed start (start_governed_execution_command, cli.py) beside the  *)
(* epoch commands and the work-ownership commands: one command that starts *)
(* an epoch, binds an ownership record to it, appends an audit record, and *)
(* takes back what it did when a later part fails.                         *)
(*                                                                         *)
(* The epoch commands are those of EpochLifecycle, unchanged; processes,   *)
(* locks, the brake and the epoch files are shared with them.              *)
(***************************************************************************)
EXTENDS EpochLifecycle

CONSTANTS
  Owners,      \* ids of work-ownership records
  GovernedOps, \* which of "start", "claim", "close", "fail" are in use
  MaxAudit     \* bound: no audited command begins once the log is that long

ASSUME GovernedAssumption ==
  /\ GovernedOps \subseteq {"start", "claim", "close", "fail"} /\ MaxAudit \in Nat
  /\ "none" \notin Owners \union Epochs

VARIABLES
  own,         \* work-ownership/active, closed, failed: id -> record
  audit,       \* audit/events.jsonl: the complete lines
  torn,        \* ends the log in the middle of a line?
  reported,    \* owners of which a command said it could not put them back
  work         \* what each of these commands holds in memory

gvars   == <<own, audit, torn, reported, work>>
allVars == <<vars, gvars>>

NoOwnerships == [dir \in {"active", "closed", "failed"} |-> NoFiles]
\* A claim leaves epoch_id out: a record is bound by a governed start.
NoOwnership == [task |-> "none", epoch |-> "none"]
NoWork == [op |-> "none", task |-> "none", own |-> "none", ok |-> TRUE, epoch |-> "none",
           before |-> NoOwnership, bound |-> FALSE, tip |-> 0, audited |-> FALSE,
           undone |-> FALSE]

GovernedInit ==
  /\ Init
  /\ own = NoOwnerships /\ audit = <<>> /\ torn = FALSE /\ reported = {}
  /\ work = [p \in Procs |-> NoWork]

------------------------------------------------------------------------------
(* Processes                                                                *)

Exits(p) == Finish(p) /\ work' = [work EXCEPT ![p] = NoWork]
Keeps(p, step) == Goto(p, step) /\ UNCHANGED <<work, job>>
Notes(p, step, w) == Goto(p, step) /\ work' = [work EXCEPT ![p] = w] /\ UNCHANGED job

Enter(p, step, w) ==
  /\ pc[p] = "idle" /\ w.op \in GovernedOps /\ Len(audit) < MaxAudit
  /\ Notes(p, step, w)
  /\ UNCHANGED <<files, lock, own, audit, torn, reported>>

\* The task packet is valid and the token is its checksum's: any other start
\* ends before it has looked at the runtime root.
BeginGovernedStart(p) ==
  \E t \in Tasks, o \in Owners \union {"none"} :
    Enter(p, "start-lock", [NoWork EXCEPT !.op = "start", !.task = t, !.own = o])

BeginOwnership(p) ==
  \E op \in {"claim", "close", "fail"}, t \in Tasks, o \in Owners :
    Enter(p, "own-lock", [NoWork EXCEPT !.op = op, !.task = t, !.own = o])

\* exclusive_lock, again: taken, or the command goes on as if it had failed.
Take(p, l, granted, refused) ==
  /\ IF Granted(l) THEN lock' = [lock EXCEPT ![l] = p] /\ Keeps(p, granted)
     ELSE UNCHANGED lock /\ IF refused = "idle" THEN Exits(p) ELSE Keeps(p, refused)
  /\ UNCHANGED <<files, own, audit, torn, reported>>

TakeRuntime(p) == pc[p] = "start-lock" /\ Take(p, "runtime", "look", "idle")

\* Where a governed start goes once it is done with the ownership record.
Unlock(p) == IF work[p].own = "none" THEN "exit" ELSE "own-unlock"

TakeOwnership(p) ==
  /\ pc[p] = "own-lock"
  /\ CASE work[p].op = "start" -> Take(p, "work-ownership",
                                       IF work[p].ok THEN "validate" ELSE "own-unlock", "exit")
       [] work[p].op = "claim" -> Take(p, "work-ownership", "claim", "idle")
       [] OTHER -> Take(p, "work-ownership", "close", "idle")

LeaveOwnership(p) ==
  /\ pc[p] = "own-unlock"
  /\ Release("work-ownership")
  /\ IF work[p].op = "start" THEN Keeps(p, "exit") ELSE Exits(p)
  /\ UNCHANGED <<files, own, audit, torn, reported>>

LeaveRuntime(p) ==
  /\ pc[p] = "exit"
  /\ Release("runtime") /\ Exits(p)
  /\ UNCHANGED <<files, own, audit, torn, reported>>

------------------------------------------------------------------------------
(* start-governed-execution: the checks and the epoch                       *)

\* Brake, active epochs and repository; all are looked at, and the ownership
\* lock is taken, even if one of them already refuses.
Look(p) ==
  /\ pc[p] = "look"
  /\ \E repoFits \in BOOLEAN :
       LET ok == brake = "DRIVE" /\ DOMAIN active = {} /\ repoFits
       IN  Notes(p, IF work[p].own # "none" THEN "own-lock"
                    ELSE IF ok THEN "epoch-lock" ELSE "exit",
                 [work[p] EXCEPT !.ok = ok])
  /\ UNCHANGED <<files, lock, own, audit, torn, reported>>

\* find_work_ownership_record: in exactly one directory, the active one.
OnlyActive(o) == o \in DOMAIN own["active"] \ (DOMAIN own["closed"] \union DOMAIN own["failed"])
OwnersOf(t) == {o \in DOMAIN own["active"] : own["active"][o].task = t}

\* Fresh: young enough, and of the role and claimer asked for.
ValidateOwnership(p) ==
  LET o == work[p].own IN
  /\ pc[p] = "validate"
  /\ \E fresh \in BOOLEAN :
       IF OnlyActive(o) /\ own["active"][o].task = work[p].task
          /\ Cardinality(OwnersOf(work[p].task)) = 1 /\ fresh
       THEN Notes(p, "epoch-lock", [work[p] EXCEPT !.before = own["active"][o]])
       ELSE Keeps(p, "own-unlock")
  /\ UNCHANGED <<files, lock, own, audit, torn, reported>>

TakeEpochLock(p) ==
  pc[p] = "epoch-lock" /\ Take(p, "active-epoch", "start-load", Unlock(p))

LoadActive(p) ==
  /\ pc[p] = "start-load"
  /\ Keeps(p, IF DOMAIN active = {} /\ FreshIds # {} THEN "start-write" ELSE "start-release")
  /\ UNCHANGED <<files, lock, own, audit, torn, reported>>

WriteEpoch(p) ==
  /\ pc[p] = "start-write"
  /\ \E e \in FreshIds :
       /\ active' = Put(active, e, NewEpoch({work[p].task}))
       /\ Notes(p, "start-release", [work[p] EXCEPT !.epoch = e])
  /\ UNCHANGED <<brake, completed, failed, late, run, lock, own, audit, torn, reported>>

LeaveEpochLock(p) ==
  /\ pc[p] = "start-release"
  /\ Release("active-epoch")
  /\ Keeps(p, IF work[p].epoch = "none" THEN Unlock(p)
              ELSE IF work[p].own = "none" THEN "audit-lock" ELSE "bind")
  /\ UNCHANGED <<files, own, audit, torn, reported>>

------------------------------------------------------------------------------
(* ... the binding, and the way back                                        *)

Record(dir, o, doc) == own' = [own EXCEPT ![dir] = Put(@, o, doc)]
Erase(dir, o) == own' = [own EXCEPT ![dir] = Drop(@, o)]

Bind(p) ==
  /\ pc[p] = "bind"
  /\ Record("active", work[p].own, [work[p].before EXCEPT !.epoch = work[p].epoch])
  /\ Notes(p, "audit-lock", [work[p] EXCEPT !.bound = TRUE])
  /\ UNCHANGED <<files, lock, audit, torn, reported>>

BindFails(p) ==
  /\ pc[p] = "bind" /\ "write" \in Faults
  /\ Keeps(p, "rollback")
  /\ UNCHANGED <<files, lock, own, audit, torn, reported>>

\* The active epoch is unlinked without its lock; finding it gone is as good.
AfterRollback(p) == IF work[p].bound THEN "unbind" ELSE Unlock(p)

RollBackEpoch(p) ==
  /\ pc[p] = "rollback"
  /\ active' = Drop(active, work[p].epoch)
  /\ Notes(p, AfterRollback(p), [work[p] EXCEPT !.undone = TRUE])
  /\ UNCHANGED <<brake, completed, failed, late, run, lock, own, audit, torn, reported>>

RollbackFails(p) ==
  /\ pc[p] = "rollback" /\ "unlink" \in Faults /\ work[p].epoch \in DOMAIN active
  /\ Keeps(p, AfterRollback(p))
  /\ UNCHANGED <<files, lock, own, audit, torn, reported>>

Unbind_Forgotten(p) ==                        \* mutant: the binding stays
  /\ pc[p] = "unbind" /\ Keeps(p, "own-unlock")
  /\ UNCHANGED <<files, lock, own, audit, torn, reported>>

Unbind(p) ==
  /\ pc[p] = "unbind"
  /\ Record("active", work[p].own, work[p].before)
  /\ Keeps(p, "own-unlock")
  /\ UNCHANGED <<files, lock, audit, torn, reported>>

UnbindFails(p) ==
  /\ pc[p] = "unbind" /\ "undo" \in Faults
  /\ reported' = reported \union {work[p].own}
  /\ Keeps(p, "own-unlock")
  /\ UNCHANGED <<files, lock, own, audit, torn>>

------------------------------------------------------------------------------
(* The audit log (append_audit_record)                                      *)

\* Where a command goes when its audit record could not be written.
Undoing(p) == IF work[p].op = "start" THEN "rollback" ELSE "revert"

OpenAudit_LastIndex(p) ==                     \* mutant: the tip is the last record's place
  /\ pc[p] = "audit-lock"
  /\ IF Granted("audit-events")
     THEN /\ lock' = [lock EXCEPT !["audit-events"] = p]
          /\ Notes(p, "append", [work[p] EXCEPT !.tip = Len(audit) - 1])
     ELSE UNCHANGED lock /\ Keeps(p, Undoing(p))
  /\ UNCHANGED <<files, own, audit, torn, reported>>

OpenAudit_Unlocked(p) ==                      \* mutant: the tip is read without the lock
  /\ pc[p] = "audit-lock"
  /\ Notes(p, "append", [work[p] EXCEPT !.tip = Len(audit)])
  /\ UNCHANGED <<files, lock, own, audit, torn, reported>>

OpenAudit(p) ==
  /\ pc[p] = "audit-lock"
  /\ IF Granted("audit-events")
     THEN /\ lock' = [lock EXCEPT !["audit-events"] = p]
          /\ Notes(p, "append", [work[p] EXCEPT !.tip = Len(audit)])
     ELSE UNCHANGED lock /\ Keeps(p, Undoing(p))
  /\ UNCHANGED <<files, own, audit, torn, reported>>

\* Each record carries its predecessor's hash; here, its place.
EventOf(w) == [event |-> w.op, epoch |-> w.epoch, own |-> w.own, prev |-> w.tip]

AppendAudit(p) ==
  /\ pc[p] = "append" /\ ~torn
  /\ audit' = Append(audit, EventOf(work[p]))
  /\ Notes(p, "audit-unlock", [work[p] EXCEPT !.audited = TRUE])
  /\ UNCHANGED <<files, lock, own, torn, reported>>

\* The log is not one that may be appended to, or the write fails, and may
\* leave part of a line.  (A process that dies in its write is one that fails
\* in it and then dies.)
AppendFails(p) ==
  /\ pc[p] = "append" /\ (torn \/ "audit" \in Faults)
  /\ torn' \in {torn, TRUE}
  /\ Keeps(p, "audit-unlock")
  /\ UNCHANGED <<files, lock, own, audit, reported>>

CloseAudit_Finally(p) ==                      \* mutant: the rollback is in a finally
  /\ pc[p] = "audit-unlock"
  /\ Release("audit-events")
  /\ Keeps(p, Undoing(p))
  /\ UNCHANGED <<files, own, audit, torn, reported>>

CloseAudit(p) ==
  /\ pc[p] = "audit-unlock"
  /\ Release("audit-events")
  /\ Keeps(p, IF ~work[p].audited THEN Undoing(p) ELSE Unlock(p))
  /\ UNCHANGED <<files, own, audit, torn, reported>>

------------------------------------------------------------------------------
(* claim-, close- and fail-work-ownership                                   *)

KnownOwners == DOMAIN own["active"] \union DOMAIN own["closed"] \union DOMAIN own["failed"]

Claim_Duplicate(p) ==                         \* mutant: only the id must be new
  /\ pc[p] = "claim" /\ work[p].own \notin KnownOwners
  /\ Record("active", work[p].own, [task |-> work[p].task, epoch |-> "none"])
  /\ Keeps(p, "audit-lock")
  /\ UNCHANGED <<files, lock, audit, torn, reported>>

Claim(p) ==
  /\ pc[p] = "claim"
  /\ OwnersOf(work[p].task) = {} /\ work[p].own \notin KnownOwners
  /\ Record("active", work[p].own, [task |-> work[p].task, epoch |-> "none"])
  /\ Keeps(p, "audit-lock")
  /\ UNCHANGED <<files, lock, audit, torn, reported>>

\* The record found is the one asked for.
CloseLoad(p) ==
  LET o == work[p].own IN
  /\ pc[p] = "close"
  /\ OnlyActive(o) /\ own["active"][o].task = work[p].task
  /\ Notes(p, "move", [work[p] EXCEPT !.before = own["active"][o]])
  /\ UNCHANGED <<files, lock, own, audit, torn, reported>>

\* A claim or a closeout is refused on what it finds, on the state of the
\* repository, or because the record cannot be written.
OwnershipRefused(p) ==
  /\ pc[p] \in {"claim", "close", "move"}
  /\ Keeps(p, "own-unlock")
  /\ UNCHANGED <<files, lock, own, audit, torn, reported>>

Destination(p) == IF work[p].op = "close" THEN "closed" ELSE "failed"

MoveRecord(p) ==
  /\ pc[p] = "move"
  /\ Record(Destination(p), work[p].own, work[p].before)
  /\ Keeps(p, "drop-source")
  /\ UNCHANGED <<files, lock, audit, torn, reported>>

DropSource(p) ==
  /\ pc[p] = "drop-source"
  /\ Erase("active", work[p].own)
  /\ Keeps(p, "audit-lock")
  /\ UNCHANGED <<files, lock, audit, torn, reported>>

DropSourceFails(p) ==
  /\ pc[p] = "drop-source" /\ "unlink" \in Faults
  /\ Keeps(p, "drop-destination")
  /\ UNCHANGED <<files, lock, own, audit, torn, reported>>

\* The audit append failed: a claim is deleted, a closeout moved back.
RevertClaim(p) ==
  /\ pc[p] = "revert" /\ work[p].op = "claim"
  /\ Erase("active", work[p].own)
  /\ Keeps(p, "own-unlock")
  /\ UNCHANGED <<files, lock, audit, torn, reported>>

RevertMove(p) ==
  /\ pc[p] = "revert" /\ work[p].op # "claim"
  /\ Record("active", work[p].own, work[p].before)
  /\ Keeps(p, "drop-destination")
  /\ UNCHANGED <<files, lock, audit, torn, reported>>

DropDestination(p) ==
  /\ pc[p] = "drop-destination"
  /\ Erase(Destination(p), work[p].own)
  /\ Keeps(p, "own-unlock")
  /\ UNCHANGED <<files, lock, audit, torn, reported>>

RevertFails(p) ==
  /\ pc[p] \in {"revert", "drop-destination"} /\ "undo" \in Faults
  /\ reported' = reported \union {work[p].own}
  /\ Keeps(p, "own-unlock")
  /\ UNCHANGED <<files, lock, own, audit, torn>>

------------------------------------------------------------------------------

GovernedStep(p) ==
  \/ TakeRuntime(p) \/ Look(p) \/ TakeOwnership(p) \/ ValidateOwnership(p)
  \/ TakeEpochLock(p) \/ LoadActive(p) \/ WriteEpoch(p) \/ LeaveEpochLock(p)
  \/ Bind(p) \/ BindFails(p) \/ RollBackEpoch(p) \/ RollbackFails(p) \/ Unbind(p)
  \/ UnbindFails(p) \/ OpenAudit(p) \/ AppendAudit(p) \/ AppendFails(p) \/ CloseAudit(p)
  \/ Claim(p) \/ CloseLoad(p) \/ OwnershipRefused(p) \/ MoveRecord(p) \/ DropSource(p)
  \/ DropSourceFails(p) \/ RevertClaim(p) \/ RevertMove(p) \/ DropDestination(p)
  \/ RevertFails(p) \/ LeaveOwnership(p) \/ LeaveRuntime(p)

\* A command of EpochLifecycle, or a process that dies in either module.  The
\* age of an epoch is nothing these commands look at.
EpochStep == Next /\ UNCHANGED <<late, own, audit, torn, reported>>
                  /\ work' = [p \in Procs |-> IF pc'[p] = "idle" THEN NoWork ELSE work[p]]

GovernedNext ==
  \/ EpochStep
  \/ \E p \in Procs : BeginGovernedStart(p) \/ BeginOwnership(p) \/ GovernedStep(p)

GovernedSpec == GovernedInit /\ [][GovernedNext]_allVars

------------------------------------------------------------------------------
(* Types                                                                    *)

Ownership == [task : Tasks \union {"none"}, epoch : Epochs \union {"none"}]
Event == [event : {"start", "claim", "close", "fail"}, epoch : Epochs \union {"none"},
          own : Owners \union {"none"}, prev : Nat]
Work == [op : {"none", "start", "claim", "close", "fail"}, task : Tasks \union {"none"},
         own : Owners \union {"none"}, ok : BOOLEAN, epoch : Epochs \union {"none"},
         before : Ownership, bound : BOOLEAN, tip : Nat, audited : BOOLEAN, undone : BOOLEAN]
GovernedPCs == {"start-lock", "look", "own-lock", "validate", "epoch-lock", "start-load",
                "start-write", "start-release", "bind", "audit-lock", "append", "audit-unlock",
                "rollback", "unbind", "own-unlock", "exit", "claim", "close", "move",
                "drop-source", "revert", "drop-destination"}

GovernedTypeOK ==
  /\ TypedWith(PCs \union GovernedPCs)
  /\ DOMAIN own = {"active", "closed", "failed"}
  /\ \A dir \in DOMAIN own : /\ DOMAIN own[dir] \subseteq Owners
                             /\ \A o \in DOMAIN own[dir] : own[dir][o] \in Ownership
  /\ audit \in Seq(Event) /\ torn \in BOOLEAN /\ reported \subseteq Owners
  /\ work \in [Procs -> Work]

------------------------------------------------------------------------------
(* Properties                                                               *)

\* The log never tells of a start that did not happen: an epoch with a start
\* event is active or has ended, however the start raced and whoever died.
StartedIsReal ==
  \A i \in DOMAIN audit :
    audit[i].event = "start" =>
      audit[i].epoch \in DOMAIN active \union DOMAIN completed \union failed

\* A task has one owner at any time: two claims of it never both succeed, and
\* a closeout that is taken back does not meet a new owner.
OneOwner == \A t \in Tasks : Cardinality(OwnersOf(t)) <= 1

\* The log and the directories tell the same story: whenever nobody is at work
\* on the ownership records, a record is in the place its latest event names
\* and in no other; and all or nothing, it is bound to the epoch of the latest
\* start the log has for it, and to none if there is no such start: although
\* each of these is several file operations, and any of them may fail.  (Unless
\* the command said that it could not take back what it did.)
Names == [claim |-> "active", close |-> "closed", fail |-> "failed"]
EventsOf(o) == {i \in DOMAIN audit : audit[i].own = o /\ audit[i].event # "start"}
StartsFor(o) == {i \in DOMAIN audit : audit[i].event = "start" /\ audit[i].own = o}
Latest(events) == {i \in events : \A j \in events : j <= i}
PlacesOf(o) == {Names[audit[i].event] : i \in Latest(EventsOf(o))}
EpochOf(o) == IF StartsFor(o) = {} THEN {"none"} ELSE {audit[i].epoch : i \in Latest(StartsFor(o))}
OwnershipIsAudited ==
  lock["work-ownership"] = Free =>
    \A o \in Owners \ reported :
      /\ {dir \in DOMAIN own : o \in DOMAIN own[dir]} = PlacesOf(o)
      /\ o \in DOMAIN own["active"] => {own["active"][o].epoch} = EpochOf(o)

\* Each record of the log carries its predecessor's hash, whoever appends.
ChainUnbroken == \A i \in DOMAIN audit : audit[i].prev = i - 1

\* A start that reports it was rolled back has left no epoch behind.
RollbackHolds ==
  \A p \in Procs : pc[p] = "exit" /\ work[p].undone => work[p].epoch \notin DOMAIN active
=============================================================================
