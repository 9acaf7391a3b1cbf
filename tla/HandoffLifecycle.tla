-------------------------- MODULE HandoffLifecycle --------------------------
(***************************************************************************)
(* Handoffs under concurrent commands (the handoff commands of cli.py and  *)
(* prepare_handoff of handoff_loop.py).                                    *)
(*                                                                         *)
(* A handoff is a file in one of four directories; moving it writes the    *)
(* target and then deletes the source, under the lock of its id.  Creation *)
(* takes no lock at all, preparation takes the runtime lock, and a claim   *)
(* takes the runtime lock and then the id's.  As in EpochLifecycle each    *)
(* step is one file operation, or a read whose result is used later.  A    *)
(* look through the four directories is one step: one that overlaps a move *)
(* can only fail its command.                                              *)
(***************************************************************************)
EXTENDS Naturals, FiniteSets

CONSTANTS
  Procs,     \* the commands that may be in flight at once
  Ids,       \* handoff ids
  GivenIds,  \* those callers pass as --id to "create" and to "prepare"
  Contents,  \* title, message and estimate of a handoff, as its checksums bind them
  Gated,     \* contents whose pickup needs an approval
  Barred,    \* contents that may never be picked up (self-evolution execution)
  Brakes,    \* the brake values operators use
  Faults     \* which of "unlink", "undo", "write", "crash", "clear" may happen

Torn == "torn"   \* a file created with O_EXCL whose text is not written yet
States == {"ready", "claimed", "completed", "failed"}
BrakeStatuses == {"DRIVE", "NEUTRAL", "PARK"}
Free  == "free"
Stale == "stale"
Locks == {"runtime"} \union Ids

ASSUME HandoffLifecycleAssumption ==
  /\ GivenIds \in [{"create", "prepare"} -> SUBSET Ids]
  /\ Gated \subseteq Contents /\ Barred \subseteq Contents
  /\ Torn \notin Contents /\ "none" \notin Contents \union Ids /\ "runtime" \notin Ids
  /\ "DRIVE" \in Brakes /\ Brakes \subseteq BrakeStatuses
  /\ Free \notin Procs /\ Stale \notin Procs

VARIABLES
  brake,     \* brake.json
  dir,       \* handoffs/<state>: id -> content
  approval,  \* approvals: id -> the content that was approved
  square,    \* logs/clean-square: ids
  lock,      \* the runtime lock and the lock of each handoff
  pc, job    \* each process: its next step, and what it holds in memory

files == <<brake, dir, approval, square>>
vars  == <<brake, dir, approval, square, lock, pc, job>>

NoFiles == [x \in {} |-> x]
Put(d, h, c) == [x \in DOMAIN d \union {h} |-> IF x = h THEN c ELSE d[x]]
Drop(d, h)   == [x \in DOMAIN d \ {h} |-> d[x]]

Exists(h, s) == h \in DOMAIN dir[s]
Recorded(h)  == \E s \in States : Exists(h, s)

\* find_handoff: exactly one record of the id, and it can be read.
Found_Torn(h, s) == {t \in States : Exists(h, t)} = {s}   \* mutant: a torn text is taken
Found(h, s) == {t \in States : Exists(h, t)} = {s} /\ dir[s][h] # Torn

\* approval_is_valid: the approval binds the checksums of this very content.
Approved(h, c) == h \in DOMAIN approval /\ approval[h] = c

\* pickup_policy_block finds nothing.
MayPickUp(h, c) == c \notin Barred /\ (c \in Gated => Approved(h, c))

------------------------------------------------------------------------------

NoJob == [op |-> "none", h |-> "none", c |-> "none", from |-> "none", to |-> "none",
          brake |-> "DRIVE"]

Init ==
  /\ brake = "DRIVE" /\ dir = [s \in States |-> NoFiles]
  /\ approval = NoFiles /\ square = {}
  /\ lock = [l \in Locks |-> Free]
  /\ pc = [p \in Procs |-> "idle"] /\ job = [p \in Procs |-> NoJob]

Goto(p, step) == pc' = [pc EXCEPT ![p] = step]
Finish(p) == Goto(p, "idle") /\ job' = [job EXCEPT ![p] = NoJob]

Begin(p, step, j) ==
  /\ pc[p] = "idle"
  /\ Goto(p, step) /\ job' = [job EXCEPT ![p] = j]
  /\ UNCHANGED <<files, lock>>

\* generate_handoff_id: an id nobody has used or uses.
FreshIds ==
  {h \in Ids : ~Recorded(h) /\ h \notin square /\ \A q \in Procs : job[q].h # h}

\* Ids a caller may type: not those that are being generated right now.
TypedIds(cmd) ==
  {h \in GivenIds[cmd] :
     h \in GivenIds["create"] \/ \A q \in Procs : job[q].op = "create" => job[q].h # h}

BeginCreate(p) ==
  \E h \in FreshIds \union TypedIds("create"), c \in Contents :
    Begin(p, "create", [NoJob EXCEPT !.op = "create", !.h = h, !.c = c])
BeginPrepare(p) ==
  \E h \in FreshIds \union TypedIds("prepare"), c \in Contents :
    Begin(p, "available", [NoJob EXCEPT !.op = "prepare", !.h = h, !.c = c])
BeginApprove(p) ==
  \E h \in Ids : Begin(p, "find", [NoJob EXCEPT !.op = "approve", !.h = h])
BeginClaim(p) ==
  \E h \in Ids : Begin(p, "runtime", [NoJob EXCEPT !.op = "claim", !.h = h, !.from = "ready",
                                                   !.to = "claimed"])
BeginComplete(p) ==
  \E h \in Ids : Begin(p, "lock", [NoJob EXCEPT !.op = "complete", !.h = h,
                                                !.from = "claimed", !.to = "completed"])
BeginFail(p) ==
  \E h \in Ids : Begin(p, "peek", [NoJob EXCEPT !.op = "fail", !.h = h, !.to = "failed"])
BeginCleanSquare(p) ==
  \E h \in Ids : Begin(p, "view", [NoJob EXCEPT !.op = "clean-square", !.h = h])
BeginBrake(p) ==
  \E b \in Brakes : Begin(p, "runtime", [NoJob EXCEPT !.op = "brake", !.brake = b])

------------------------------------------------------------------------------
(* Locks: created with O_EXCL, never waited for, left behind by the dead    *)

Acquire(p, l, granted, refused) ==
  IF lock[l] = Free
  THEN lock' = [lock EXCEPT ![l] = p] /\ Goto(p, granted) /\ UNCHANGED <<files, job>>
  ELSE UNCHANGED <<files, lock>> /\ IF refused = "idle" THEN Finish(p)
                                    ELSE Goto(p, refused) /\ UNCHANGED job
Release(l) == lock' = [lock EXCEPT ![l] = Free]

AcquireRuntime(p) ==
  /\ pc[p] = "runtime"
  /\ Acquire(p, "runtime", CASE job[p].op = "brake" -> "set-brake"
                             [] job[p].op = "prepare" -> "guard"
                             [] OTHER -> "policy", "idle")
ReleaseRuntime(p) ==
  pc[p] = "return" /\ Release("runtime") /\ Finish(p) /\ UNCHANGED files

AcquireHandoff(p) ==
  /\ pc[p] = "lock"
  /\ Acquire(p, job[p].h, "load", IF job[p].op = "claim" THEN "return" ELSE "idle")

ReleaseHandoff(p) ==
  /\ pc[p] = "release"
  /\ Release(job[p].h) /\ UNCHANGED files
  /\ IF job[p].op = "claim" THEN Goto(p, "return") /\ UNCHANGED job ELSE Finish(p)

SetBrake(p) ==
  /\ pc[p] = "set-brake"
  /\ brake' = job[p].brake /\ Goto(p, "return")
  /\ UNCHANGED <<dir, approval, square, lock, job>>

------------------------------------------------------------------------------
(* create-handoff: looks only for a ready record, then replaces it          *)

CreateCheck(p) ==
  /\ pc[p] = "create"
  /\ IF Exists(job[p].h, "ready") THEN Finish(p) ELSE Goto(p, "publish") /\ UNCHANGED job
  /\ UNCHANGED <<files, lock>>

CreatePublish(p) ==
  /\ pc[p] = "publish"
  /\ dir' = [dir EXCEPT !["ready"] = Put(@, job[p].h, job[p].c)]
  /\ Finish(p) /\ UNCHANGED <<brake, approval, square, lock>>

------------------------------------------------------------------------------
(* prepare-handoff: all under the runtime lock, each file created once      *)

PrepareAvailable(p) ==
  /\ pc[p] = "available"
  /\ IF Recorded(job[p].h) THEN Finish(p) ELSE Goto(p, "runtime") /\ UNCHANGED job
  /\ UNCHANGED <<files, lock>>

PrepareGuard(p) ==
  /\ pc[p] = "guard"
  /\ Goto(p, IF ~Recorded(job[p].h) /\ brake = "DRIVE" THEN "square" ELSE "return")
  /\ UNCHANGED <<files, lock, job>>

PrepareSquare(p) ==
  /\ pc[p] = "square"
  /\ IF job[p].h \in square THEN Goto(p, "return") /\ UNCHANGED square
     ELSE square' = square \union {job[p].h} /\ Goto(p, "again")
  /\ UNCHANGED <<brake, dir, approval, lock, job>>

PrepareAgain(p) ==
  /\ pc[p] = "again"
  /\ Goto(p, IF Recorded(job[p].h) THEN "withdraw-square" ELSE "open")
  /\ UNCHANGED <<files, lock, job>>

\* _write_json_once: the file exists before its text does.
PrepareOpen(p) ==
  /\ pc[p] = "open"
  /\ IF Exists(job[p].h, "ready") THEN Goto(p, "withdraw-square") /\ UNCHANGED dir
     ELSE dir' = [dir EXCEPT !["ready"] = Put(@, job[p].h, Torn)] /\ Goto(p, "fill")
  /\ UNCHANGED <<brake, approval, square, lock, job>>

\* The text goes to the file that was opened, even if its name is gone or has
\* been given to another file since.
PrepareFill(p) ==
  LET h == job[p].h IN
  /\ pc[p] = "fill"
  /\ IF Exists(h, "ready") /\ dir["ready"][h] = Torn
     THEN dir' = [dir EXCEPT !["ready"] = Put(@, h, job[p].c)] ELSE UNCHANGED dir
  /\ Goto(p, "verify") /\ UNCHANGED <<brake, approval, square, lock, job>>

\* The text cannot be written: the file is deleted, if it can be.
PrepareFillFails(p) ==
  /\ pc[p] = "fill" /\ "write" \in Faults
  /\ \/ dir' = [dir EXCEPT !["ready"] = Drop(@, job[p].h)]
     \/ "unlink" \in Faults /\ UNCHANGED dir
  /\ Goto(p, "withdraw-square") /\ UNCHANGED <<brake, approval, square, lock, job>>

PrepareVerify(p) ==
  /\ pc[p] = "verify"
  /\ Goto(p, IF Exists(job[p].h, "ready") THEN "return" ELSE "withdraw")
  /\ UNCHANGED <<files, lock, job>>

WithdrawHandoff(p) ==
  /\ pc[p] = "withdraw"
  /\ dir' = [dir EXCEPT !["ready"] = Drop(@, job[p].h)]
  /\ Goto(p, "withdraw-square") /\ UNCHANGED <<brake, approval, square, lock, job>>

WithdrawSquare(p) ==
  /\ pc[p] = "withdraw-square"
  /\ square' = square \ {job[p].h}
  /\ Goto(p, "return") /\ UNCHANGED <<brake, dir, approval, lock, job>>

------------------------------------------------------------------------------
(* approve-handoff and clean-square take no lock                            *)

ApproveFind(p) ==
  LET h == job[p].h IN
  /\ pc[p] = "find"
  /\ IF Found(h, "ready") THEN /\ Goto(p, "approve")
                               /\ job' = [job EXCEPT ![p].c = dir["ready"][h]]
                          ELSE Finish(p)
  /\ UNCHANGED <<files, lock>>

ApproveWrite(p) ==
  /\ pc[p] = "approve"
  /\ approval' = Put(approval, job[p].h, job[p].c)
  /\ Finish(p) /\ UNCHANGED <<brake, dir, square, lock>>

CleanSquareFind(p) ==
  /\ pc[p] = "view"
  /\ IF \E s \in States : Found(job[p].h, s)
     THEN Goto(p, "clean-square") /\ UNCHANGED job ELSE Finish(p)
  /\ UNCHANGED <<files, lock>>

CleanSquareWrite(p) ==
  /\ pc[p] = "clean-square"
  /\ square' = square \union {job[p].h}
  /\ Finish(p) /\ UNCHANGED <<brake, dir, approval, lock>>

------------------------------------------------------------------------------
(* claim, complete and fail: move_handoff                                   *)

\* The brake, the state and the policy, on what is ready now; the move reads
\* the record again.
ClaimPolicy_Ungated(p) ==                     \* mutant: the policy is not asked
  LET h == job[p].h IN
  /\ pc[p] = "policy"
  /\ Goto(p, IF brake = "DRIVE" /\ Found(h, "ready") THEN "lock" ELSE "return")
  /\ UNCHANGED <<files, lock, job>>
ClaimPolicy(p) ==
  LET h == job[p].h IN
  /\ pc[p] = "policy"
  /\ Goto(p, IF brake = "DRIVE" /\ Found(h, "ready") /\ MayPickUp(h, dir["ready"][h])
             THEN "lock" ELSE "return")
  /\ UNCHANGED <<files, lock, job>>

FailPeek(p) ==
  /\ pc[p] = "peek"
  /\ \/ \E s \in {"ready", "claimed"} :
          /\ Found(job[p].h, s)
          /\ Goto(p, "lock") /\ job' = [job EXCEPT ![p].from = s]
     \/ ~Found(job[p].h, "ready") /\ ~Found(job[p].h, "claimed") /\ Finish(p)
  /\ UNCHANGED <<files, lock>>

MoveLoad(p) ==
  LET h == job[p].h IN
  /\ pc[p] = "load"
  /\ IF Found(h, job[p].from)
     THEN Goto(p, "move") /\ job' = [job EXCEPT ![p].c = dir[job[p].from][h]]
     ELSE Goto(p, "release") /\ UNCHANGED job
  /\ UNCHANGED <<files, lock>>

MoveWrite_SourceFirst(p) ==                   \* mutant: the source is deleted first
  /\ pc[p] = "move"
  /\ dir' = [dir EXCEPT ![job[p].from] = Drop(@, job[p].h)]
  /\ Goto(p, "unlink") /\ UNCHANGED <<brake, approval, square, lock, job>>
MoveWrite(p) ==
  /\ pc[p] = "move"
  /\ dir' = [dir EXCEPT ![job[p].to] = Put(@, job[p].h, job[p].c)]
  /\ Goto(p, "unlink") /\ UNCHANGED <<brake, approval, square, lock, job>>

MoveUnlink_AlwaysUndone(p) ==                 \* mutant: a finally where the except is
  /\ pc[p] = "unlink" /\ Exists(job[p].h, job[p].from)
  /\ dir' = [dir EXCEPT ![job[p].from] = Drop(@, job[p].h)]
  /\ Goto(p, "undo") /\ UNCHANGED <<brake, approval, square, lock, job>>
MoveUnlink(p) ==
  /\ pc[p] = "unlink" /\ Exists(job[p].h, job[p].from)
  /\ dir' = [dir EXCEPT ![job[p].from] = Drop(@, job[p].h)]
  /\ Goto(p, "release") /\ UNCHANGED <<brake, approval, square, lock, job>>

\* Deleting the source fails, because it is gone or for any other reason.
MoveUnlinkFails(p) ==
  /\ pc[p] = "unlink" /\ ("unlink" \in Faults \/ ~Exists(job[p].h, job[p].from))
  /\ Goto(p, "undo") /\ UNCHANGED <<files, lock, job>>

MoveUndo(p) ==
  /\ pc[p] = "undo"
  /\ dir' = [dir EXCEPT ![job[p].to] = Drop(@, job[p].h)]
  /\ Goto(p, "release") /\ UNCHANGED <<brake, approval, square, lock, job>>

MoveUndoFails(p) ==
  /\ pc[p] = "undo" /\ "undo" \in Faults
  /\ Goto(p, "release") /\ UNCHANGED <<files, lock, job>>

------------------------------------------------------------------------------
(* The environment                                                          *)

Crash(p) ==
  /\ pc[p] # "idle" /\ "crash" \in Faults
  /\ lock' = [l \in Locks |-> IF lock[l] = p THEN Stale ELSE lock[l]]
  /\ Finish(p) /\ UNCHANGED files

ClearStaleLock(l) ==
  /\ lock[l] = Stale /\ "clear" \in Faults
  /\ Release(l) /\ UNCHANGED <<files, pc, job>>

------------------------------------------------------------------------------

Invoke(p) ==
  \/ BeginCreate(p) \/ BeginPrepare(p) \/ BeginApprove(p) \/ BeginClaim(p)
  \/ BeginComplete(p) \/ BeginFail(p) \/ BeginCleanSquare(p) \/ BeginBrake(p)

Step(p) ==
  \/ AcquireRuntime(p) \/ ReleaseRuntime(p) \/ AcquireHandoff(p) \/ ReleaseHandoff(p)
  \/ SetBrake(p) \/ CreateCheck(p) \/ CreatePublish(p)
  \/ PrepareAvailable(p) \/ PrepareGuard(p) \/ PrepareSquare(p) \/ PrepareAgain(p)
  \/ PrepareOpen(p) \/ PrepareFill(p) \/ PrepareFillFails(p) \/ PrepareVerify(p)
  \/ WithdrawHandoff(p) \/ WithdrawSquare(p)
  \/ ApproveFind(p) \/ ApproveWrite(p)
  \/ CleanSquareFind(p) \/ CleanSquareWrite(p) \/ ClaimPolicy(p) \/ FailPeek(p)
  \/ MoveLoad(p) \/ MoveWrite(p) \/ MoveUnlink(p) \/ MoveUnlinkFails(p)
  \/ MoveUndo(p) \/ MoveUndoFails(p)

Next ==
  \/ \E p \in Procs : Invoke(p) \/ Step(p) \/ Crash(p)
  \/ \E l \in Locks : ClearStaleLock(l)

Spec == Init /\ [][Next]_vars

------------------------------------------------------------------------------
(* Properties                                                               *)

Texts == Contents \union {Torn}
Job == [op : {"none", "create", "prepare", "approve", "claim", "complete", "fail",
              "clean-square", "brake"},
        h : Ids \union {"none"}, c : Contents \union {"none"}, from : States \union {"none"},
        to : States \union {"none"}, brake : BrakeStatuses]
PCs == {"idle", "runtime", "return", "lock", "release", "set-brake", "create", "publish",
        "available", "guard", "square", "again", "open", "fill", "verify", "withdraw",
        "withdraw-square", "view", "clean-square", "find", "approve", "policy", "peek", "load", "move", "unlink", "undo"}
Directory(d, texts) == DOMAIN d \subseteq Ids /\ \A h \in DOMAIN d : d[h] \in texts

\* Only a ready record is ever torn.
TypeOK ==
  /\ brake \in BrakeStatuses
  /\ DOMAIN dir = States /\ Directory(dir["ready"], Texts)
  /\ \A s \in States \ {"ready"} : Directory(dir[s], Contents)
  /\ Directory(approval, Contents) /\ square \subseteq Ids
  /\ lock \in [Locks -> Procs \union {Free, Stale}]
  /\ pc \in [Procs -> PCs] /\ job \in [Procs -> Job]

\* Picked-up work is work that may be picked up: whatever is moved to claimed
\* has, as it was moved, the approval its content needs (the claim's policy
\* check reads the record once, and its move reads it a second time).
ClaimedWasAllowed ==
  [][\A h \in DOMAIN dir'["claimed"] \ DOMAIN dir["claimed"] :
       MayPickUp(h, dir'["claimed"][h])]_vars

\* A record of how work ended is never changed, and it is deleted only by the
\* move that has just written it and could not delete its source.
EndedForGood ==
  [][\A s \in {"completed", "failed"} : \A h \in DOMAIN dir[s] :
       IF Exists(h, "ready") \/ Exists(h, "claimed")
       THEN h \in DOMAIN dir'[s] => dir'[s][h] = dir[s][h]
       ELSE h \in DOMAIN dir'[s] /\ dir'[s][h] = dir[s][h]]_vars

\* A handoff is where its oldest record is: the move that wrote a later one is
\* not over, or never will be.
StatusOf(h) ==
  IF Exists(h, "ready") /\ dir["ready"][h] # Torn THEN "ready"
  ELSE IF Exists(h, "claimed") THEN "claimed"
  ELSE IF Exists(h, "completed") THEN "completed"
  ELSE IF Exists(h, "failed") THEN "failed" ELSE "absent"
ContentOf(h) == IF StatusOf(h) = "absent" THEN "none" ELSE dir[StatusOf(h)][h]

Registry == INSTANCE HandoffRegistry WITH
              status <- [h \in Ids |-> StatusOf(h)], content <- [h \in Ids |-> ContentOf(h)],
              approved <- [h \in Ids |-> IF h \in DOMAIN approval THEN approval[h] ELSE "none"]

\* When no id is created twice, the commands do nothing the atomic registry
\* does not allow, also when they fail or die in any step.
ImplementsHandoffs == Registry!Spec
=============================================================================
