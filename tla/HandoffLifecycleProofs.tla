------------------------ MODULE HandoffLifecycleProofs ------------------------
(***************************************************************************)
(* What holds of the handoff commands for any number of commands, ids and  *)
(* contents.  Types always; and, where nobody types the id of a handoff to *)
(* create, that the commands implement the atomic registry.                *)
(*                                                                         *)
(* Creation takes no lock.  The argument is that a generated id is known   *)
(* to nobody else who could write a first record under it, and that a      *)
(* later record is written only by the holder of the lock of the id.       *)
(***************************************************************************)
EXTENDS HandoffLifecycle, TLAPS

------------------------------------------------------------------------------
(* Types                                                                    *)

Moves == {"lock", "load", "move", "unlink", "undo", "release"}
Prepares == {"available", "guard", "square", "again", "open", "fill", "verify", "withdraw",
             "withdraw-square"}

\* Which operation is where, and what its job is.
MoveFits(j) ==
  \/ j.op = "claim" /\ j.from = "ready" /\ j.to = "claimed"
  \/ j.op = "complete" /\ j.from = "claimed" /\ j.to = "completed"
  \/ j.op = "fail" /\ j.from \in {"ready", "claimed"} /\ j.to = "failed"
Fits(p) ==
  LET j == job[p] IN
  /\ pc[p] = "idle" => j = NoJob
  /\ pc[p] \in {"create", "publish"} => j.op = "create"
  /\ pc[p] \in Prepares => j.op = "prepare"
  /\ pc[p] \in {"runtime", "return"} => j.op \in {"prepare", "claim", "brake"}
  /\ pc[p] = "set-brake" => j.op = "brake"
  /\ pc[p] = "policy" => j.op = "claim"
  /\ pc[p] = "peek" => j.op = "fail" /\ j.to = "failed"
  /\ pc[p] \in {"find", "approve"} => j.op = "approve"
  /\ pc[p] \in {"view", "clean-square"} => j.op = "clean-square"
  /\ pc[p] \in Moves => MoveFits(j)
  /\ j.op = "claim" => MoveFits(j)
  /\ j.op \notin {"none", "brake"} => j.h \in Ids
  /\ j.op \in {"create", "prepare"} \/ pc[p] \in {"approve", "move", "unlink", "undo"} => j.c \in Contents

TInv == TypeOK /\ \A p \in Procs : Fits(p)

\* Nothing is there at first, and nobody does anything.
LEMMA TypeInit == ASSUME Init PROVE TInv
BY HandoffLifecycleAssumption
   DEF Init, TInv, TypeOK, Fits, Directory, NoFiles, States, Job, NoJob, PCs, BrakeStatuses,
       Locks, Moves, Prepares

\* A process that does not take the step keeps its place and its job.
LEMMA OthersStay ==
  ASSUME TypeOK, NEW p \in Procs, Invoke(p) \/ Step(p) \/ Crash(p), NEW q \in Procs, q # p
  PROVE  pc'[q] = pc[q] /\ job'[q] = job[q]
<1>0. pc \in [Procs -> PCs] /\ job \in [Procs -> Job]
  BY DEF TypeOK
<1>1. CASE Invoke(p)
  BY <1>0, <1>1 DEF Invoke, BeginCreate, BeginPrepare, BeginApprove, BeginClaim, BeginComplete,
                    BeginFail, BeginCleanSquare, BeginBrake, Begin, Goto
<1>2. CASE Step(p)
  <2>1. CASE AcquireRuntime(p) \/ ReleaseRuntime(p) \/ AcquireHandoff(p) \/ ReleaseHandoff(p)
    BY <1>0, <2>1 DEF AcquireRuntime, ReleaseRuntime, AcquireHandoff, ReleaseHandoff, Acquire,
                      Finish, Goto
  <2>2. CASE \/ SetBrake(p) \/ CreateCheck(p) \/ CreatePublish(p) \/ PrepareAvailable(p)
             \/ PrepareGuard(p) \/ PrepareSquare(p) \/ PrepareAgain(p) \/ PrepareOpen(p)
             \/ PrepareFill(p) \/ PrepareFillFails(p) \/ PrepareVerify(p)
             \/ WithdrawHandoff(p) \/ WithdrawSquare(p)
    BY <1>0, <2>2 DEF SetBrake, CreateCheck, CreatePublish, PrepareAvailable, PrepareGuard,
                      PrepareSquare, PrepareAgain, PrepareOpen, PrepareFill, PrepareFillFails,
                      PrepareVerify,
                      WithdrawHandoff, WithdrawSquare, Finish, Goto
  <2>3. CASE \/ ApproveFind(p) \/ ApproveWrite(p) \/ CleanSquareFind(p) \/ CleanSquareWrite(p)
             \/ ClaimPolicy(p) \/ FailPeek(p)
    BY <1>0, <2>3 DEF ApproveFind, ApproveWrite, CleanSquareFind, CleanSquareWrite, ClaimPolicy,
                      FailPeek, Finish, Goto
  <2>4. CASE \/ MoveLoad(p) \/ MoveWrite(p) \/ MoveUnlink(p) \/ MoveUnlinkFails(p) \/ MoveUndo(p)
             \/ MoveUndoFails(p)
    BY <1>0, <2>4 DEF MoveLoad, MoveWrite, MoveUnlink, MoveUnlinkFails, MoveUndo, MoveUndoFails,
                      Finish, Goto
  <2> QED
    BY <1>2, <2>1, <2>2, <2>3, <2>4 DEF Step
<1>3. CASE Crash(p)
  BY <1>0, <1>3 DEF Crash, Finish, Goto
<1> QED
  BY <1>1, <1>2, <1>3

\* The process that takes it is where its operation may be.
LEMMA OwnFits ==
  ASSUME TInv, NEW p \in Procs, Invoke(p) \/ Step(p) \/ Crash(p)
  PROVE  pc' \in [Procs -> PCs] /\ job' \in [Procs -> Job] /\ Fits(p)'
<1> DEFINE Here == pc' \in [Procs -> PCs] /\ job' \in [Procs -> Job] /\ Fits(p)'
<1> SUFFICES Here
  OBVIOUS
<1>0. pc \in [Procs -> PCs] /\ job \in [Procs -> Job] /\ Fits(p)
  BY DEF TInv, TypeOK
<1>1. GivenIds["create"] \subseteq Ids /\ GivenIds["prepare"] \subseteq Ids /\ Brakes \subseteq BrakeStatuses
  BY HandoffLifecycleAssumption
<1>2. ASSUME Finish(p) PROVE Here
  BY <1>0, <1>2 DEF Finish, Goto, NoJob, Fits, PCs, Job, Moves, Prepares, States, BrakeStatuses
<1>3. ASSUME NEW step \in PCs, Goto(p, step), UNCHANGED job
      PROVE  pc' \in [Procs -> PCs] /\ job' \in [Procs -> Job] /\ pc'[p] = step /\ job'[p] = job[p]
  BY <1>0, <1>3 DEF Goto
<1>4. CASE Invoke(p)
  <2>1. CASE BeginCreate(p)
    <3>1. PICK h \in Ids, c \in Contents :
            Begin(p, "create", [NoJob EXCEPT !.op = "create", !.h = h, !.c = c])
      BY <1>1, <2>1 DEF BeginCreate, FreshIds, TypedIds
    <3> QED
      BY <1>0, <3>1 DEF Begin, Goto, NoJob, Fits, PCs, Job, Moves, Prepares, States, BrakeStatuses
  <2>2. CASE BeginPrepare(p)
    <3>1. PICK h \in Ids, c \in Contents :
            Begin(p, "available", [NoJob EXCEPT !.op = "prepare", !.h = h, !.c = c])
      BY <1>1, <2>2 DEF BeginPrepare, FreshIds, TypedIds
    <3> QED
      BY <1>0, <3>1 DEF Begin, Goto, NoJob, Fits, PCs, Job, Moves, Prepares, States, BrakeStatuses
  <2>3. CASE BeginBrake(p)
    <3>1. PICK b \in BrakeStatuses : Begin(p, "runtime", [NoJob EXCEPT !.op = "brake", !.brake = b])
      BY <1>1, <2>3 DEF BeginBrake
    <3> QED
      BY <1>0, <3>1 DEF Begin, Goto, NoJob, Fits, PCs, Job, Moves, Prepares, States, BrakeStatuses
  <2>4. CASE BeginApprove(p)
    <3>1. PICK h \in Ids : Begin(p, "find", [NoJob EXCEPT !.op = "approve", !.h = h])
      BY <2>4 DEF BeginApprove
    <3> QED
      BY <1>0, <3>1 DEF Begin, Goto, NoJob, Fits, PCs, Job, Moves, Prepares, States, BrakeStatuses
  <2>5. CASE BeginCleanSquare(p)
    <3>1. PICK h \in Ids : Begin(p, "view", [NoJob EXCEPT !.op = "clean-square", !.h = h])
      BY <2>5 DEF BeginCleanSquare
    <3> QED
      BY <1>0, <3>1 DEF Begin, Goto, NoJob, Fits, PCs, Job, Moves, Prepares, States, BrakeStatuses
  <2>6. CASE BeginClaim(p)
    <3>1. PICK h \in Ids : Begin(p, "runtime", [NoJob EXCEPT !.op = "claim", !.h = h, !.from = "ready",
                                                                   !.to = "claimed"])
      BY <2>6 DEF BeginClaim
    <3> QED
      BY <1>0, <3>1 DEF Begin, Goto, NoJob, Fits, PCs, Job, Moves, Prepares, States, BrakeStatuses,
                        MoveFits
  <2>7. CASE BeginComplete(p)
    <3>1. PICK h \in Ids : Begin(p, "lock", [NoJob EXCEPT !.op = "complete", !.h = h, !.from = "claimed",
                                                                   !.to = "completed"])
      BY <2>7 DEF BeginComplete
    <3> QED
      BY <1>0, <3>1 DEF Begin, Goto, NoJob, Fits, PCs, Job, Moves, Prepares, States, BrakeStatuses,
                        MoveFits
  <2>8. CASE BeginFail(p)
    <3>1. PICK h \in Ids : Begin(p, "peek", [NoJob EXCEPT !.op = "fail", !.h = h, !.to = "failed"])
      BY <2>8 DEF BeginFail
    <3> QED
      BY <1>0, <3>1 DEF Begin, Goto, NoJob, Fits, PCs, Job, Moves, Prepares, States, BrakeStatuses,
                        MoveFits
  <2> QED
    BY <1>4, <2>1, <2>2, <2>3, <2>4, <2>5, <2>6, <2>7, <2>8 DEF Invoke
<1>5. CASE AcquireRuntime(p) \/ AcquireHandoff(p)
  BY <1>0, <1>2, <1>5 DEF AcquireRuntime, AcquireHandoff, Acquire, Finish, Goto, NoJob, Fits, PCs,
                     Job, Moves, Prepares, States, BrakeStatuses, MoveFits
<1>6. CASE ReleaseRuntime(p) \/ ReleaseHandoff(p)
  BY <1>0, <1>2, <1>6 DEF ReleaseRuntime, ReleaseHandoff, Finish, Goto, NoJob, Fits, PCs, Job, Moves,
                     Prepares, States, BrakeStatuses, MoveFits
<1>7. CASE SetBrake(p) \/ CreateCheck(p) \/ CreatePublish(p) \/ PrepareAvailable(p)
  BY <1>0, <1>2, <1>7 DEF SetBrake, CreateCheck, CreatePublish, PrepareAvailable, Goto, Fits, PCs,
                     Moves, Prepares
<1>8. CASE PrepareGuard(p) \/ PrepareSquare(p) \/ PrepareAgain(p) \/ PrepareOpen(p)
  BY <1>0, <1>8 DEF PrepareGuard, PrepareSquare, PrepareAgain, PrepareOpen, Goto, Fits, PCs, Moves,
                    Prepares
<1>9. CASE \/ PrepareFill(p) \/ PrepareFillFails(p) \/ PrepareVerify(p)
           \/ WithdrawHandoff(p) \/ WithdrawSquare(p)
  BY <1>0, <1>9 DEF PrepareFill, PrepareFillFails, PrepareVerify, WithdrawHandoff, WithdrawSquare,
                    Goto, Fits, PCs,
                    Moves, Prepares
<1>10. CASE ApproveWrite(p) \/ CleanSquareFind(p) \/ CleanSquareWrite(p) \/ ClaimPolicy(p)
  BY <1>0, <1>2, <1>10 DEF ApproveWrite, CleanSquareFind, CleanSquareWrite, ClaimPolicy, Goto, Fits,
                      PCs, Moves, Prepares
<1>11. \A h \in Ids, s \in States : Found(h, s) => dir[s][h] \in Contents
  BY DEF TInv, TypeOK, Directory, Found, Exists, States, Texts
<1>12. CASE ApproveFind(p)
  <2>1. CASE Found(job[p].h, "ready")
    <3>1. job[p].h \in Ids
      BY <1>0, <1>12 DEF Fits, ApproveFind
    <3> QED
      BY <1>0, <1>11, <1>12, <2>1, <3>1 DEF ApproveFind, Goto, Fits, PCs, Job, Moves, Prepares,
                                            States, MoveFits
  <2> QED
    BY <1>2, <1>12, <2>1 DEF ApproveFind
<1>13. CASE FailPeek(p)
  BY <1>0, <1>2, <1>13 DEF FailPeek, Goto, Fits, PCs, Job, Moves, Prepares, States, MoveFits
<1>14. CASE MoveLoad(p)
  <2>1. job[p].h \in Ids /\ job[p].from \in States /\ job[p].op \in {"claim", "complete", "fail"}
    BY <1>0, <1>14 DEF Fits, MoveLoad, Moves, MoveFits, States
  <2>2. CASE Found(job[p].h, job[p].from)
    BY <1>0, <1>11, <1>14, <2>1, <2>2 DEF MoveLoad, Goto, Fits, PCs, Job, Moves, Prepares,
                                          States, MoveFits
  <2>3. CASE ~Found(job[p].h, job[p].from)
    BY <1>0, <1>14, <2>3 DEF MoveLoad, Goto, Fits, PCs, Moves, Prepares
  <2> QED
    BY <2>2, <2>3
<1>15. CASE \/ MoveWrite(p) \/ MoveUnlink(p) \/ MoveUnlinkFails(p) \/ MoveUndo(p) \/ MoveUndoFails(p)
  BY <1>0, <1>15 DEF MoveWrite, MoveUnlink, MoveUnlinkFails, MoveUndo, MoveUndoFails, Goto, Fits,
                     PCs, Moves, Prepares
<1>16. CASE Crash(p)
  BY <1>2, <1>16 DEF Crash
<1> HIDE DEF Here
<1> QED
  BY <1>4, <1>5, <1>6, <1>7, <1>8, <1>9, <1>10, <1>12, <1>13, <1>14, <1>15, <1>16 DEF Step

\* The files keep their types; a torn text is only ever ready.
LEMMA FileTypes ==
  ASSUME TInv, NEW p \in Procs, Invoke(p) \/ Step(p) \/ Crash(p)
  PROVE  /\ brake' \in BrakeStatuses
         /\ DOMAIN dir' = States /\ Directory(dir'["ready"], Texts)
         /\ \A s \in States \ {"ready"} : Directory(dir'[s], Contents)
         /\ Directory(approval', Contents) /\ square' \subseteq Ids
         /\ lock' \in [Locks -> Procs \union {Free, Stale}]
<1> DEFINE FilesOK == /\ brake \in BrakeStatuses
                      /\ DOMAIN dir = States /\ Directory(dir["ready"], Texts)
                      /\ \A s \in States \ {"ready"} : Directory(dir[s], Contents)
                      /\ Directory(approval, Contents) /\ square \subseteq Ids
           LocksOK == lock \in [Locks -> Procs \union {Free, Stale}]
<1> SUFFICES FilesOK' /\ LocksOK'
  OBVIOUS
<1>0. FilesOK /\ LocksOK /\ job \in [Procs -> Job] /\ Fits(p)
  BY DEF TInv, TypeOK
<1>1. UNCHANGED files => FilesOK'
  BY <1>0 DEF files
<1>2. UNCHANGED lock => LocksOK'
  BY <1>0
<1>3. \A l \in Locks : lock' = [lock EXCEPT ![l] = Free] \/ lock' = [lock EXCEPT ![l] = p] => LocksOK'
  BY <1>0
<1>4. CASE Invoke(p)
  BY <1>1, <1>2, <1>4 DEF Invoke, BeginCreate, BeginPrepare, BeginApprove, BeginClaim, BeginComplete,
                    BeginFail, BeginCleanSquare, BeginBrake, Begin
<1>5. CASE AcquireRuntime(p) \/ ReleaseRuntime(p)
  BY <1>1, <1>2, <1>3, <1>5 DEF AcquireRuntime, ReleaseRuntime, Acquire, Release, Locks
<1>6. CASE AcquireHandoff(p) \/ ReleaseHandoff(p)
  <2>1. job[p].h \in Locks
    BY <1>0, <1>6 DEF AcquireHandoff, ReleaseHandoff, Fits, Moves, MoveFits, Locks
  <2> QED
    BY <1>1, <1>2, <1>3, <1>6, <2>1 DEF AcquireHandoff, ReleaseHandoff, Acquire, Release
<1>7. CASE \/ CreateCheck(p) \/ PrepareAvailable(p) \/ PrepareGuard(p) \/ PrepareAgain(p)
           \/ PrepareVerify(p) \/ ApproveFind(p) \/ CleanSquareFind(p) \/ ClaimPolicy(p)
           \/ FailPeek(p) \/ MoveLoad(p) \/ MoveUnlinkFails(p) \/ MoveUndoFails(p)
  BY <1>1, <1>2, <1>7 DEF CreateCheck, PrepareAvailable, PrepareGuard, PrepareAgain, PrepareVerify,
                     ApproveFind, CleanSquareFind, ClaimPolicy, FailPeek, MoveLoad, MoveUnlinkFails,
                     MoveUndoFails
<1>8. CASE SetBrake(p)
  BY <1>0, <1>2, <1>8 DEF SetBrake, Job
<1>9. CASE PrepareSquare(p) \/ WithdrawSquare(p) \/ CleanSquareWrite(p)
  <2>1. job[p].h \in Ids
    BY <1>0, <1>9 DEF PrepareSquare, WithdrawSquare, CleanSquareWrite, Fits, Prepares
  <2> QED
    BY <1>0, <1>2, <1>9, <2>1 DEF PrepareSquare, WithdrawSquare, CleanSquareWrite
<1>10. CASE ApproveWrite(p)
  BY <1>0, <1>2, <1>10 DEF ApproveWrite, Fits, Put, Directory
<1>11. ASSUME NEW h \in Ids, NEW s \in States, NEW c \in Texts, s # "ready" => c \in Contents,
              \/ dir' = [dir EXCEPT ![s] = Put(@, h, c)]
              \/ dir' = [dir EXCEPT ![s] = Drop(@, h)],
              UNCHANGED <<brake, approval, square>>
       PROVE  FilesOK'
  BY <1>0, <1>11 DEF Put, Drop, Directory, States
<1>12. CASE \/ CreatePublish(p) \/ PrepareOpen(p) \/ PrepareFill(p) \/ PrepareFillFails(p)
            \/ WithdrawHandoff(p)
  <2>1. job[p].h \in Ids /\ job[p].c \in Texts /\ Torn \in Texts /\ "ready" \in States
    BY <1>0, <1>12 DEF CreatePublish, PrepareOpen, PrepareFill, PrepareFillFails, WithdrawHandoff,
                       Fits, Prepares,
                       Texts, States
  <2> QED
    BY <1>0, <1>2, <1>11, <1>12, <2>1 DEF CreatePublish, PrepareOpen, PrepareFill,
                                          PrepareFillFails, WithdrawHandoff
<1>13. CASE MoveWrite(p) \/ MoveUnlink(p) \/ MoveUndo(p)
  <2>1. /\ job[p].h \in Ids /\ job[p].from \in States /\ job[p].to \in States /\ job[p].c \in Contents
        /\ job[p].c \in Texts
    BY <1>0, <1>13 DEF MoveWrite, MoveUnlink, MoveUndo, Fits, Moves, MoveFits, Texts, States
  <2> QED
    BY <1>2, <1>11, <1>13, <2>1 DEF MoveWrite, MoveUnlink, MoveUndo
<1>14. CASE Crash(p)
  BY <1>0, <1>1, <1>14 DEF Crash
<1> HIDE DEF FilesOK, LocksOK
<1> QED
  BY <1>4, <1>5, <1>6, <1>7, <1>8, <1>9, <1>10, <1>12, <1>13, <1>14 DEF Step

\* Types and places, for all processes and files together.
LEMMA TypeStep == ASSUME TInv, [Next]_vars PROVE TInv'
<1>1. ASSUME UNCHANGED vars PROVE TInv'
  BY <1>1 DEF vars, files, TInv, TypeOK, Fits, Directory, MoveFits
<1>2. ASSUME NEW p \in Procs, Invoke(p) \/ Step(p) \/ Crash(p) PROVE TInv'
  <2>1. TypeOK'
    <3> HIDE DEF TInv
    <3> QED
      BY <1>2, OwnFits, FileTypes DEF TypeOK
  <2>2. ASSUME NEW q \in Procs, q # p PROVE Fits(q)'
    <3>1. pc'[q] = pc[q] /\ job'[q] = job[q]
      BY <1>2, <2>2, OthersStay DEF TInv
    <3>2. Fits(q)
      BY DEF TInv
    <3> QED
      BY <3>1, <3>2 DEF Fits, MoveFits
  <2>3. Fits(p)'
    BY <1>2, OwnFits
  <2> QED
    BY <2>1, <2>2, <2>3 DEF TInv
<1>3. ASSUME NEW l \in Locks, ClearStaleLock(l) PROVE TInv'
  BY <1>3 DEF ClearStaleLock, Release, files, TInv, TypeOK, Fits, Directory, MoveFits
<1> QED
  BY <1>1, <1>2, <1>3 DEF Next

\* Whatever the commands do and wherever they die, every file has the type its
\* reader expects, and only a ready record can be torn (the once-only write of
\* prepare-handoff).
THEOREM HandoffTypes == Spec => []TypeOK
<1>1. Init => TInv
  BY TypeInit
<1>2. TInv /\ [Next]_vars => TInv'
  BY TypeStep
<1>3. TInv => TypeOK
  BY DEF TInv
<1> QED
  BY <1>1, <1>2, <1>3, PTL DEF Spec
------------------------------------------------------------------------------
(* Records, locks and what a command knows of them                          *)

\* Where the records of an id are, and that they are there with this text.
At(h, S)      == \A s \in States : Exists(h, s) <=> s \in S
Reads(h, s, c) == Exists(h, s) /\ dir[s][h] = c

UnderRuntime == {"return", "set-brake", "policy", "guard", "square", "again", "open", "fill",
                 "verify", "withdraw", "withdraw-square"}
UnderOwn     == {"load", "move", "unlink", "undo", "release"}

\* Each lock is held by the one command that acquired it and has not released it.
Holds(p) ==
  /\ pc[p] \in UnderRuntime \/ (job[p].op = "claim" /\ pc[p] \in Moves) => lock["runtime"] = p
  /\ pc[p] \in UnderOwn => lock[job[p].h] = p

\* An id that is being created is nobody else's to create or to prepare.
OneCreator ==
  \A p, q \in Procs :
    p # q /\ job[p].op = "create" /\ job[q].op \in {"create", "prepare"} => job[p].h # job[q].h

\* What has been read and is relied on in a later step still holds.
Knows(p) ==
  LET j == job[p]  h == j.h IN
  /\ pc[p] \in {"create", "publish", "square", "again", "open"} => ~Recorded(h)
  /\ pc[p] = "fill" => Reads(h, "ready", Torn)
  /\ pc[p] = "withdraw" => ~Exists(h, "ready")
  /\ pc[p] = "approve" => \E s \in States : Reads(h, s, j.c)
  /\ pc[p] = "move" => At(h, {j.from}) /\ Reads(h, j.from, j.c)
  /\ pc[p] \in {"unlink", "undo"} => At(h, {j.from, j.to}) /\ Reads(h, j.from, j.c)
  /\ j.op = "claim" /\ pc[p] \in {"lock", "load", "move", "unlink"} =>
       /\ brake = "DRIVE"
       /\ \E s \in States : Exists(h, s) /\ dir[s][h] # Torn /\ MayPickUp(h, dir[s][h])

\* All records of an id say the same, and its approval says what they say.
OneContent(h) ==
  \A s, t \in States : Exists(h, s) /\ Exists(h, t) => dir[s][h] = dir[t][h]
ApprovalFits(h) ==
  h \in DOMAIN approval => \E s \in States : Reads(h, s, approval[h])

RInv == (\A p \in Procs : Holds(p) /\ Knows(p)) /\ OneCreator
FInv == \A h \in Ids : OneContent(h) /\ ApprovalFits(h)
IInv == TInv /\ RInv /\ FInv
------------------------------------------------------------------------------
(* What a step does to the records of an id                                 *)

Same(h) == \A s \in States : /\ Exists(h, s)' <=> Exists(h, s)
                             /\ Exists(h, s) => dir'[s][h] = dir[s][h]

After(h, S) == \A s \in States : Exists(h, s)' <=> s \in S
Appears(p, h) == /\ pc[p] \in {"publish", "open"} /\ ~Recorded(h)
                 /\ After(h, {"ready"})
                 /\ dir'["ready"][h] = IF pc[p] = "open" THEN Torn ELSE job[p].c
Filled(p, h) == /\ pc[p] = "fill" /\ At(h, {"ready"}) /\ Reads(h, "ready", Torn)
                /\ After(h, {"ready"}) /\ dir'["ready"][h] = job[p].c
Discarded(p, h) == /\ pc[p] = "fill" /\ At(h, {"ready"}) /\ Reads(h, "ready", Torn)
                   /\ After(h, {})
Written(p, h) ==
  LET j == job[p] IN
  /\ pc[p] = "move" /\ At(h, {j.from}) /\ After(h, {j.from, j.to})
  /\ dir[j.from][h] = j.c /\ dir'[j.from][h] = j.c /\ dir'[j.to][h] = j.c
Unlinked(p, h) ==
  LET j == job[p] IN
  /\ pc[p] = "unlink" /\ At(h, {j.from, j.to}) /\ After(h, {j.to})
  /\ dir[j.from][h] = j.c /\ dir[j.to][h] = j.c /\ dir'[j.to][h] = j.c
Undone(p, h) ==
  LET j == job[p] IN
  /\ pc[p] = "undo" /\ At(h, {j.from, j.to}) /\ After(h, {j.from})
  /\ dir[j.from][h] = j.c /\ dir[j.to][h] = j.c /\ dir'[j.from][h] = j.c
Changed(p, h) == \/ Appears(p, h) \/ Filled(p, h) \/ Discarded(p, h) \/ Written(p, h)
                 \/ Unlinked(p, h) \/ Undone(p, h)

\* Writing one file changes that file only.
LEMMA PutFile ==
  ASSUME DOMAIN dir = States, NEW s \in States, NEW i, NEW c, NEW h,
         dir' = [dir EXCEPT ![s] = Put(@, i, c)]
  PROVE  /\ h # i => Same(h)
         /\ h = i => Exists(h, s)' /\ dir'[s][h] = c
         /\ \A t \in States \ {s} :
              (Exists(h, t)' <=> Exists(h, t)) /\ (Exists(h, t) => dir'[t][h] = dir[t][h])
  BY DEF Put, Exists, Same

\* So does deleting one.
LEMMA DropFile ==
  ASSUME DOMAIN dir = States, NEW s \in States, NEW i, NEW h,
         dir' = [dir EXCEPT ![s] = Drop(@, i)]
  PROVE  /\ h # i => Same(h)
         /\ h = i => ~Exists(h, s)'
         /\ \A t \in States \ {s} :
              (Exists(h, t)' <=> Exists(h, t)) /\ (Exists(h, t) => dir'[t][h] = dir[t][h])
  BY DEF Drop, Exists, Same

\* Each step changes the records of one id at most, and in one of six ways.
LEMMA Effects ==
  ASSUME IInv, NEW p \in Procs, Invoke(p) \/ Step(p) \/ Crash(p), NEW h \in Ids
  PROVE  Same(h) \/ (h = job[p].h /\ Changed(p, h))
<1> DEFINE Goal == Same(h) \/ (h = job[p].h /\ Changed(p, h))
<1> SUFFICES Goal
  OBVIOUS
<1>0. TInv /\ Holds(p) /\ Knows(p) /\ Fits(p) /\ OneContent(h) /\ DOMAIN dir = States
  BY DEF IInv, RInv, FInv, TInv, TypeOK
<1>1. ASSUME UNCHANGED dir PROVE Goal
  BY <1>1 DEF Same, Exists
<1>2. CASE \/ Invoke(p) \/ Crash(p) \/ AcquireRuntime(p) \/ ReleaseRuntime(p) \/ AcquireHandoff(p)
           \/ ReleaseHandoff(p) \/ SetBrake(p) \/ CreateCheck(p)
  BY <1>1, <1>2 DEF Invoke, Crash, AcquireRuntime, ReleaseRuntime, AcquireHandoff, ReleaseHandoff,
     SetBrake, CreateCheck, Acquire, files, Begin, BeginCreate, BeginPrepare, BeginApprove, BeginClaim,
     BeginComplete, BeginFail, BeginCleanSquare, BeginBrake
<1>3. CASE \/ PrepareAvailable(p) \/ PrepareGuard(p) \/ PrepareSquare(p) \/ PrepareAgain(p)
           \/ PrepareVerify(p) \/ WithdrawSquare(p) \/ ApproveFind(p) \/ ApproveWrite(p)
           \/ CleanSquareFind(p) \/ CleanSquareWrite(p) \/ ClaimPolicy(p) \/ FailPeek(p)
           \/ MoveLoad(p) \/ MoveUnlinkFails(p) \/ MoveUndoFails(p)
  BY <1>1, <1>3 DEF PrepareAvailable, PrepareGuard, PrepareSquare, PrepareAgain, PrepareVerify,
     WithdrawSquare, ApproveFind, ApproveWrite, CleanSquareFind, CleanSquareWrite, ClaimPolicy,
     FailPeek, MoveLoad, MoveUnlinkFails, MoveUndoFails, files
<1>4. ASSUME NEW s \in States, NEW c, dir' = [dir EXCEPT ![s] = Put(@, job[p].h, c)]
      PROVE  /\ h # job[p].h => Same(h)
             /\ h = job[p].h => Exists(h, s)' /\ dir'[s][h] = c
             /\ \A t \in States \ {s} :
                  (Exists(h, t)' <=> Exists(h, t)) /\ (Exists(h, t) => dir'[t][h] = dir[t][h])
  BY <1>0, <1>4, PutFile
<1>5. ASSUME NEW s \in States, dir' = [dir EXCEPT ![s] = Drop(@, job[p].h)]
      PROVE  /\ h # job[p].h => Same(h)
             /\ h = job[p].h => ~Exists(h, s)'
             /\ \A t \in States \ {s} :
                  (Exists(h, t)' <=> Exists(h, t)) /\ (Exists(h, t) => dir'[t][h] = dir[t][h])
  BY <1>0, <1>5, DropFile
<1>6. "ready" \in States
  BY DEF States
<1>7. CASE CreatePublish(p)
  <2>1. dir' = [dir EXCEPT !["ready"] = Put(@, job[p].h, job[p].c)] /\ pc[p] = "publish"
    BY <1>7 DEF CreatePublish
  <2>2. \A s \in States : ~Exists(job[p].h, s)
    BY <1>0, <2>1 DEF Knows, Recorded
  <2>3. CASE h = job[p].h
    <3>1. Exists(h, "ready")' /\ dir'["ready"][h] = job[p].c
      BY <1>4, <1>6, <2>1, <2>3
    <3>2. After(h, {"ready"})
      BY <1>4, <1>6, <2>1, <2>2, <2>3, <3>1 DEF After
    <3> QED
      BY <2>1, <2>2, <2>3, <3>1, <3>2 DEF Changed, Appears, Recorded
  <2> QED
    BY <1>4, <1>6, <2>1, <2>3
<1>8. CASE PrepareOpen(p)
  <2>1. CASE Exists(job[p].h, "ready")
    BY <1>1, <1>8, <2>1 DEF PrepareOpen
  <2>2. CASE ~Exists(job[p].h, "ready")
    BY <1>0, <1>4, <1>6, <1>8, <2>2 DEF PrepareOpen, Knows, Recorded, After, Changed, Appears
  <2> QED
    BY <2>1, <2>2
<1>9. CASE PrepareFill(p)
  <2>1. CASE h # job[p].h
    BY <1>1, <1>4, <1>6, <1>9, <2>1 DEF PrepareFill
  <2>2. CASE h = job[p].h
    <3>1. Reads(h, "ready", Torn)
      BY <1>0, <1>9, <2>2 DEF PrepareFill, Knows
    <3>2. dir' = [dir EXCEPT !["ready"] = Put(@, h, job[p].c)]
      BY <1>9, <2>2, <3>1 DEF PrepareFill, Reads
    <3>3. \A s \in States \ {"ready"} : ~Exists(h, s)
      BY <1>0, <1>6, <3>1, HandoffLifecycleAssumption
         DEF TInv, TypeOK, Directory, OneContent, Reads, Exists
    <3>4. At(h, {"ready"})
      BY <3>1, <3>3 DEF At, Reads
    <3>5. After(h, {"ready"}) /\ dir'["ready"][h] = job[p].c
      BY <1>4, <1>6, <2>2, <3>2, <3>3 DEF After
    <3>6. pc[p] = "fill"
      BY <1>9 DEF PrepareFill
    <3> QED
      BY <2>2, <3>1, <3>4, <3>5, <3>6 DEF Changed, Filled
  <2> QED
    BY <2>1, <2>2
<1>10. CASE WithdrawHandoff(p)
  BY <1>0, <1>5, <1>6, <1>10 DEF WithdrawHandoff, Knows, Same
<1>11. CASE PrepareFillFails(p)
  <2>1. CASE UNCHANGED dir \/ h # job[p].h
    BY <1>1, <1>5, <1>6, <1>11, <2>1 DEF PrepareFillFails
  <2>2. CASE dir' = [dir EXCEPT !["ready"] = Drop(@, job[p].h)] /\ h = job[p].h
    <3>1. Reads(h, "ready", Torn) /\ pc[p] = "fill"
      BY <1>0, <1>11, <2>2 DEF PrepareFillFails, Knows
    <3>2. \A s \in States \ {"ready"} : ~Exists(h, s)
      BY <1>0, <1>6, <3>1, HandoffLifecycleAssumption
         DEF TInv, TypeOK, Directory, OneContent, Reads, Exists
    <3>3. At(h, {"ready"}) /\ After(h, {})
      BY <1>5, <1>6, <2>2, <3>1, <3>2 DEF At, After, Reads
    <3> QED
      BY <2>2, <3>1, <3>3 DEF Changed, Discarded
  <2> QED
    BY <1>11, <2>1, <2>2 DEF PrepareFillFails
<1>12. CASE MoveWrite(p)
  <2>1. job[p].from \in States /\ job[p].to \in States /\ job[p].from # job[p].to
    BY <1>0, <1>12 DEF MoveWrite, Fits, MoveFits, States, Moves
  <2>2. CASE h # job[p].h
    BY <1>4, <1>12, <2>1, <2>2 DEF MoveWrite
  <2>3. CASE h = job[p].h
    <3>1. At(h, {job[p].from}) /\ Reads(h, job[p].from, job[p].c) /\ pc[p] = "move"
      BY <1>0, <1>12, <2>3 DEF MoveWrite, Knows
    <3>2. dir' = [dir EXCEPT ![job[p].to] = Put(@, job[p].h, job[p].c)]
      BY <1>12 DEF MoveWrite
    <3>3. \A t \in States : t = job[p].to => Exists(h, t)' /\ dir'[t][h] = job[p].c
      BY <1>4, <2>1, <2>3, <3>2
    <3>4. \A t \in States \ {job[p].to} :
            (Exists(h, t)' <=> Exists(h, t)) /\ (Exists(h, t) => dir'[t][h] = dir[t][h])
      BY <1>4, <2>1, <3>2
    <3>5. After(h, {job[p].from, job[p].to})
      BY <2>1, <3>1, <3>3, <3>4 DEF At, After
    <3> QED
      BY <2>1, <2>3, <3>1, <3>3, <3>4, <3>5 DEF Changed, Written, Reads
  <2> QED
    BY <2>2, <2>3
<1>13. CASE MoveUnlink(p)
  <2>1. job[p].from \in States /\ job[p].to \in States /\ job[p].from # job[p].to
    BY <1>0, <1>13 DEF MoveUnlink, Fits, MoveFits, States, Moves
  <2>2. CASE h # job[p].h
    BY <1>5, <1>13, <2>1, <2>2 DEF MoveUnlink
  <2>3. CASE h = job[p].h
    <3>1. At(h, {job[p].from, job[p].to}) /\ Reads(h, job[p].from, job[p].c) /\ pc[p] = "unlink"
      BY <1>0, <1>13, <2>3 DEF MoveUnlink, Knows
    <3>2. dir[job[p].to][h] = job[p].c
      BY <1>0, <2>1, <3>1 DEF OneContent, At, Reads
    <3>3. After(h, {job[p].to}) /\ dir'[job[p].to][h] = job[p].c
      BY <1>5, <1>13, <2>1, <2>3, <3>1, <3>2 DEF MoveUnlink, At, After
    <3> QED
      BY <2>3, <3>1, <3>2, <3>3 DEF Changed, Unlinked, Reads
  <2> QED
    BY <2>2, <2>3
<1>14. CASE MoveUndo(p)
  <2>1. job[p].from \in States /\ job[p].to \in States /\ job[p].from # job[p].to
    BY <1>0, <1>14 DEF MoveUndo, Fits, MoveFits, States, Moves
  <2>2. CASE h # job[p].h
    BY <1>5, <1>14, <2>1, <2>2 DEF MoveUndo
  <2>3. CASE h = job[p].h
    <3>1. At(h, {job[p].from, job[p].to}) /\ Reads(h, job[p].from, job[p].c) /\ pc[p] = "undo"
      BY <1>0, <1>14, <2>3 DEF MoveUndo, Knows
    <3>2. dir[job[p].to][h] = job[p].c
      BY <1>0, <2>1, <3>1 DEF OneContent, At, Reads
    <3>3. After(h, {job[p].from}) /\ dir'[job[p].from][h] = job[p].c
      BY <1>5, <1>14, <2>1, <2>3, <3>1, <3>2 DEF MoveUndo, At, After, Reads
    <3> QED
      BY <2>3, <3>1, <3>2, <3>3 DEF Changed, Undone, Reads
  <2> QED
    BY <2>2, <2>3
<1> HIDE DEF Goal
<1> QED
  BY <1>2, <1>3, <1>7, <1>8, <1>9, <1>10, <1>11, <1>12, <1>13, <1>14 DEF Step

\* Set-brake alone changes the brake, and approve-handoff the approvals.
LEMMA OtherFiles ==
  ASSUME NEW p \in Procs, Invoke(p) \/ Step(p) \/ Crash(p)
  PROVE  /\ brake' = brake \/ (pc[p] = "set-brake" /\ brake' = job[p].brake)
         /\ \/ approval' = approval
            \/ pc[p] = "approve" /\ approval' = Put(approval, job[p].h, job[p].c) /\ dir' = dir
<1>1. CASE \/ Invoke(p) \/ Crash(p) \/ AcquireRuntime(p) \/ ReleaseRuntime(p) \/ AcquireHandoff(p)
           \/ ReleaseHandoff(p) \/ SetBrake(p) \/ CreateCheck(p) \/ CreatePublish(p)
  BY <1>1 DEF Invoke, Crash, AcquireRuntime, ReleaseRuntime, AcquireHandoff, ReleaseHandoff,
     SetBrake, CreateCheck, CreatePublish, Acquire, files, Begin, BeginCreate, BeginPrepare,
     BeginApprove, BeginClaim, BeginComplete, BeginFail, BeginCleanSquare, BeginBrake
<1>2. CASE \/ PrepareAvailable(p) \/ PrepareGuard(p) \/ PrepareSquare(p) \/ PrepareAgain(p)
           \/ PrepareOpen(p) \/ PrepareFill(p) \/ PrepareFillFails(p) \/ PrepareVerify(p)
           \/ WithdrawHandoff(p)
           \/ WithdrawSquare(p)
  BY <1>2 DEF PrepareAvailable, PrepareGuard, PrepareSquare, PrepareAgain, PrepareOpen,
              PrepareFill, PrepareFillFails,
     PrepareVerify, WithdrawHandoff, WithdrawSquare, files
<1>3. CASE \/ ApproveFind(p) \/ ApproveWrite(p) \/ CleanSquareFind(p) \/ CleanSquareWrite(p)
           \/ ClaimPolicy(p) \/ FailPeek(p) \/ MoveLoad(p) \/ MoveWrite(p) \/ MoveUnlink(p)
           \/ MoveUnlinkFails(p) \/ MoveUndo(p) \/ MoveUndoFails(p)
  BY <1>3 DEF ApproveFind, ApproveWrite, CleanSquareFind, CleanSquareWrite, ClaimPolicy, FailPeek,
     MoveLoad, MoveWrite, MoveUnlink, MoveUnlinkFails, MoveUndo, MoveUndoFails, files
<1> QED
  BY <1>1, <1>2, <1>3 DEF Step

\* A lock is taken when it is free, and released by who holds it.
LEMMA LockSteps ==
  ASSUME IInv, NEW p \in Procs, Invoke(p) \/ Step(p) \/ Crash(p)
  PROVE  /\ \A l \in Locks, q \in Procs \ {p} : lock[l] = q => lock'[l] = q
         /\ Holds(p)'
<1> DEFINE Goal == (\A l \in Locks, q \in Procs \ {p} : lock[l] = q => lock'[l] = q) /\ Holds(p)'
<1> SUFFICES Goal
  OBVIOUS
<1>0. /\ lock \in [Locks -> Procs \union {Free, Stale}] /\ pc \in [Procs -> PCs]
      /\ job \in [Procs -> Job] /\ Holds(p) /\ Fits(p)
      /\ Free \notin Procs /\ Stale \notin Procs
  BY HandoffLifecycleAssumption DEF IInv, RInv, TInv, TypeOK
<1>1. ASSUME UNCHANGED lock, pc'[p] \notin UnderRuntime \union UnderOwn,
             job'[p].op # "claim" \/ pc'[p] \notin Moves
      PROVE  Goal
  BY <1>1 DEF Holds
<1>2. ASSUME UNCHANGED lock, Finish(p) PROVE Goal
  BY <1>0, <1>1, <1>2 DEF Finish, Goto, NoJob, UnderRuntime, UnderOwn, Moves
<1>3. CASE Invoke(p)
  BY <1>0, <1>3 DEF Invoke, Begin, BeginCreate, BeginPrepare, BeginApprove, BeginClaim,
     BeginComplete, BeginFail, BeginCleanSquare, BeginBrake, Goto, NoJob, Holds, UnderRuntime,
     UnderOwn, Moves
<1>4. CASE AcquireRuntime(p)
  BY <1>0, <1>2, <1>4 DEF AcquireRuntime, Acquire, Goto, Holds, UnderRuntime, UnderOwn, Moves, Locks
<1>5. CASE AcquireHandoff(p)
  <2>1. job[p].h \in Ids
    BY <1>0, <1>5 DEF AcquireHandoff, Fits, Moves, MoveFits
  <2>2. "runtime" \notin Ids
    BY HandoffLifecycleAssumption
  <2> QED
    BY <1>0, <1>2, <1>5, <2>1, <2>2
       DEF AcquireHandoff, Acquire, Goto, Holds, UnderRuntime, UnderOwn, Moves, Locks
<1>6. CASE ReleaseRuntime(p)
  BY <1>0, <1>6 DEF ReleaseRuntime, Release, Finish, Goto, NoJob, Holds, UnderRuntime, UnderOwn,
                    Moves, Locks
<1>7. CASE ReleaseHandoff(p)
  <2>1. job[p].h \in Ids
    BY <1>0, <1>7 DEF ReleaseHandoff, Fits, Moves, MoveFits
  <2>2. "runtime" \notin Ids
    BY HandoffLifecycleAssumption
  <2> QED
    BY <1>0, <1>7, <2>1, <2>2
       DEF ReleaseHandoff, Release, Finish, Goto, NoJob, Holds, UnderRuntime, UnderOwn, Moves, Locks
<1>8. CASE SetBrake(p) \/ CreateCheck(p) \/ CreatePublish(p) \/ PrepareAvailable(p)
  BY <1>0, <1>2, <1>8 DEF SetBrake, CreateCheck, CreatePublish, PrepareAvailable, files, Goto, Fits,
     Holds, UnderRuntime, UnderOwn, Moves, Prepares
<1>9. CASE PrepareGuard(p) \/ PrepareSquare(p) \/ PrepareAgain(p) \/ PrepareOpen(p)
  BY <1>0, <1>9 DEF PrepareGuard, PrepareSquare, PrepareAgain, PrepareOpen, files, Goto, Fits,
     Holds, UnderRuntime, UnderOwn, Moves, Prepares
<1>10. CASE \/ PrepareFill(p) \/ PrepareFillFails(p) \/ PrepareVerify(p)
            \/ WithdrawHandoff(p) \/ WithdrawSquare(p)
  BY <1>0, <1>10 DEF PrepareFill, PrepareFillFails, PrepareVerify, WithdrawHandoff, WithdrawSquare,
                     files, Goto, Fits,
     Holds, UnderRuntime, UnderOwn, Moves, Prepares
<1>11. CASE ApproveFind(p) \/ ApproveWrite(p) \/ CleanSquareFind(p) \/ CleanSquareWrite(p)
  BY <1>0, <1>2, <1>11 DEF ApproveFind, ApproveWrite, CleanSquareFind, CleanSquareWrite, files, Goto,
     Fits, Holds, UnderRuntime, UnderOwn, Moves
<1>12. CASE ClaimPolicy(p)
  BY <1>0, <1>12 DEF ClaimPolicy, files, Goto, Fits, Holds, UnderRuntime, UnderOwn, Moves
<1>13. CASE FailPeek(p) \/ MoveLoad(p)
  <2>1. CASE FailPeek(p) /\ Finish(p)
    BY <1>2, <2>1 DEF FailPeek
  <2>2. CASE FailPeek(p) /\ ~Finish(p)
    <3>1. pc'[p] = "lock" /\ job'[p].op = "fail" /\ UNCHANGED lock
      BY <1>0, <2>2 DEF FailPeek, Goto, Fits, Job
    <3> QED
      BY <1>0, <3>1 DEF Holds, UnderRuntime, UnderOwn
  <2>3. CASE MoveLoad(p)
    <3>1. /\ pc[p] = "load" /\ pc'[p] \in {"move", "release"} /\ UNCHANGED lock
          /\ job'[p].op = job[p].op /\ job'[p].h = job[p].h
      BY <1>0, <2>3 DEF MoveLoad, Goto, Job
    <3> QED
      BY <1>0, <3>1 DEF Holds, UnderRuntime, UnderOwn, Moves
  <2> QED
    BY <1>13, <2>1, <2>2, <2>3
<1>14. CASE \/ MoveWrite(p) \/ MoveUnlink(p) \/ MoveUnlinkFails(p) \/ MoveUndo(p) \/ MoveUndoFails(p)
  BY <1>0, <1>14 DEF MoveWrite, MoveUnlink, MoveUnlinkFails, MoveUndo, MoveUndoFails, files, Goto,
     Holds, UnderRuntime, UnderOwn, Moves
<1>15. CASE Crash(p)
  BY <1>0, <1>15 DEF Crash, Finish, Goto, NoJob, Holds, UnderRuntime, UnderOwn, Moves
<1> HIDE DEF Goal
<1> QED
  BY <1>3, <1>4, <1>5, <1>6, <1>7, <1>8, <1>9, <1>10, <1>11, <1>12, <1>13, <1>14, <1>15 DEF Step

\* So every process goes on holding the locks its next step needs.
LEMMA HoldsStep ==
  ASSUME IInv, NEW p \in Procs, Invoke(p) \/ Step(p) \/ Crash(p), NEW q \in Procs
  PROVE  Holds(q)'
<1>1. CASE q = p
  BY <1>1, LockSteps
<1>2. CASE q # p
  <2>1. pc'[q] = pc[q] /\ job'[q] = job[q]
    BY <1>2, OthersStay DEF IInv, TInv
  <2>2. Holds(q) /\ (pc[q] \in UnderOwn => job[q].h \in Locks) /\ "runtime" \in Locks
    BY DEF IInv, TInv, RInv, Fits, UnderOwn, Moves, MoveFits, Locks
  <2> QED
    BY <1>2, <2>1, <2>2, LockSteps DEF Holds
<1> QED
  BY <1>1, <1>2

\* Nobody types the id of a handoff to create, and nobody prepares one that is
\* being created.
LEMMA OneCreatorStep ==
  ASSUME GivenIds["create"] = {}, IInv, NEW p \in Procs, Invoke(p) \/ Step(p) \/ Crash(p)
  PROVE  OneCreator'
<1>0. pc \in [Procs -> PCs] /\ job \in [Procs -> Job] /\ Fits(p) /\ OneCreator
  BY DEF IInv, RInv, TInv, TypeOK
<1>1. \A q \in Procs : q # p => job'[q] = job[q]
  BY OthersStay DEF IInv, TInv
<1>2. ASSUME job'[p].op \in {"create", "prepare"} => job'[p].op = job[p].op /\ job'[p].h = job[p].h
      PROVE  OneCreator'
  BY <1>0, <1>1, <1>2 DEF OneCreator
<1>3. ASSUME NEW h, job'[p].h = h, \A q \in Procs : job[q].op = "create" => job[q].h # h,
             job'[p].op = "create" => \A q \in Procs : job[q].h # h
      PROVE  OneCreator'
  BY <1>0, <1>1, <1>3 DEF OneCreator
<1>4. CASE BeginCreate(p)
  <2>1. PICK h \in FreshIds, c \in Contents :
          Begin(p, "create", [NoJob EXCEPT !.op = "create", !.h = h, !.c = c])
    BY <1>4 DEF BeginCreate, TypedIds
  <2> QED
    BY <1>0, <1>3, <2>1 DEF Begin, NoJob, FreshIds
<1>5. CASE BeginPrepare(p)
  <2>1. PICK h \in FreshIds \union TypedIds("prepare"), c \in Contents :
          Begin(p, "available", [NoJob EXCEPT !.op = "prepare", !.h = h, !.c = c])
    BY <1>5 DEF BeginPrepare
  <2> QED
    BY <1>0, <1>3, <2>1 DEF Begin, NoJob, FreshIds, TypedIds
<1>6. CASE \/ BeginApprove(p) \/ BeginClaim(p) \/ BeginComplete(p) \/ BeginFail(p)
           \/ BeginCleanSquare(p) \/ BeginBrake(p)
  BY <1>0, <1>2, <1>6 DEF BeginApprove, BeginClaim, BeginComplete, BeginFail, BeginCleanSquare,
                          BeginBrake, Begin, NoJob
<1>7. ASSUME Finish(p) PROVE OneCreator'
  BY <1>0, <1>2, <1>7 DEF Finish, NoJob
<1>8. ASSUME UNCHANGED job PROVE OneCreator'
  BY <1>2, <1>8
<1>9. CASE Crash(p) \/ AcquireRuntime(p) \/ ReleaseRuntime(p) \/ AcquireHandoff(p) \/ ReleaseHandoff(p)
  BY <1>7, <1>8, <1>9 DEF Crash, AcquireRuntime, ReleaseRuntime, AcquireHandoff, ReleaseHandoff, Acquire
<1>10. CASE \/ SetBrake(p) \/ CreateCheck(p) \/ CreatePublish(p) \/ PrepareAvailable(p)
            \/ PrepareGuard(p) \/ PrepareSquare(p) \/ PrepareAgain(p) \/ PrepareOpen(p)
            \/ PrepareFill(p) \/ PrepareFillFails(p) \/ PrepareVerify(p)
            \/ WithdrawHandoff(p) \/ WithdrawSquare(p)
  BY <1>7, <1>8, <1>10 DEF SetBrake, CreateCheck, CreatePublish, PrepareAvailable, PrepareGuard,
     PrepareSquare, PrepareAgain, PrepareOpen, PrepareFill, PrepareFillFails, PrepareVerify,
     WithdrawHandoff,
     WithdrawSquare
<1>11. CASE ApproveWrite(p) \/ CleanSquareFind(p) \/ CleanSquareWrite(p) \/ ClaimPolicy(p)
  BY <1>7, <1>8, <1>11 DEF ApproveWrite, CleanSquareFind, CleanSquareWrite, ClaimPolicy
<1>12. CASE \/ MoveWrite(p) \/ MoveUnlink(p) \/ MoveUnlinkFails(p) \/ MoveUndo(p) \/ MoveUndoFails(p)
  BY <1>8, <1>12 DEF MoveWrite, MoveUnlink, MoveUnlinkFails, MoveUndo, MoveUndoFails
<1>13. CASE ApproveFind(p) \/ FailPeek(p) \/ MoveLoad(p)
  <2>1. Finish(p) \/ UNCHANGED job \/ (job'[p].op = job[p].op /\ job'[p].h = job[p].h)
    BY <1>0, <1>13 DEF ApproveFind, FailPeek, MoveLoad, Job
  <2> QED
    BY <1>2, <1>7, <1>8, <2>1
<1> QED
  BY <1>4, <1>5, <1>6, <1>9, <1>10, <1>11, <1>12, <1>13 DEF Invoke, Step

\* What an id has once said it says for good, everywhere.
LEMMA ContentKept ==
  ASSUME IInv, NEW p \in Procs, Invoke(p) \/ Step(p) \/ Crash(p), NEW h \in Ids,
         NEW c, c # Torn, \E s \in States : Reads(h, s, c)
  PROVE  \E s \in States : Reads(h, s, c)'
<1>1. OneContent(h) /\ Fits(p)
  BY DEF IInv, FInv, TInv
<1>2. CASE Same(h)
  BY <1>2 DEF Same, Reads
<1>3. CASE h = job[p].h /\ Changed(p, h)
  <2>1. ~Appears(p, h)
    BY DEF Appears, Recorded, Reads
  <2>2. ~Filled(p, h) /\ ~Discarded(p, h)
    BY DEF Filled, Discarded, At, Reads
  <2>3. CASE Written(p, h) \/ Unlinked(p, h) \/ Undone(p, h)
    <3>1. job[p].from \in States /\ job[p].to \in States /\ c = job[p].c
      BY <1>1, <2>3 DEF Written, Unlinked, Undone, Fits, Moves, MoveFits, States, At, Reads
    <3>2. \E t \in States : Exists(h, t)' /\ dir'[t][h] = c
      BY <2>3, <3>1 DEF Written, Unlinked, Undone, After
    <3> QED
      BY <3>2 DEF Reads
  <2> QED
    BY <1>3, <2>1, <2>2, <2>3 DEF Changed
<1> QED
  BY <1>2, <1>3, Effects

\* Later records and approvals of an id repeat what its first record says.
LEMMA ContentStep ==
  ASSUME IInv, NEW p \in Procs, Invoke(p) \/ Step(p) \/ Crash(p), NEW h \in Ids
  PROVE  OneContent(h)' /\ ApprovalFits(h)'
<1>0. /\ OneContent(h) /\ ApprovalFits(h) /\ Fits(p) /\ Knows(p) /\ Directory(approval, Contents)
      /\ Torn \notin Contents
  BY HandoffLifecycleAssumption DEF IInv, FInv, RInv, TInv, TypeOK
<1>1. OneContent(h)'
  <2>1. CASE Same(h)
    BY <1>0, <2>1 DEF Same, OneContent
  <2>2. CASE Changed(p, h)
    BY <2>2 DEF Changed, Appears, Filled, Discarded, Written, Unlinked, Undone, After, OneContent
  <2> QED
    BY <2>1, <2>2, Effects
<1>2. ApprovalFits(h)'
  <2>1. CASE approval' = approval
    <3>1. ASSUME h \in DOMAIN approval PROVE \E s \in States : Reads(h, s, approval[h])'
      <4>1. PICK c : c = approval[h]
        OBVIOUS
      <4>2. c # Torn /\ \E s \in States : Reads(h, s, c)
        BY <1>0, <3>1, <4>1 DEF ApprovalFits, Directory
      <4>3. \E s \in States : Reads(h, s, c)'
        BY <4>2, ContentKept
      <4> QED
        BY <2>1, <4>1, <4>3 DEF Reads
    <3> QED
      BY <2>1, <3>1 DEF ApprovalFits
  <2>2. CASE pc[p] = "approve" /\ approval' = Put(approval, job[p].h, job[p].c) /\ dir' = dir
    BY <1>0, <2>2 DEF Knows, Put, ApprovalFits, Reads, Exists
  <2> QED
    BY <2>1, <2>2, OtherFiles
<1> QED
  BY <1>1, <1>2

\* Nobody takes back the approval a claim found, nor what needs none.
LEMMA PolicyKept ==
  ASSUME IInv, NEW p \in Procs, Invoke(p) \/ Step(p) \/ Crash(p), NEW h \in Ids,
         NEW c, \E s \in States : Reads(h, s, c), MayPickUp(h, c)
  PROVE  MayPickUp(h, c)'
<1>1. CASE approval' = approval
  BY <1>1 DEF MayPickUp, Approved
<1>2. CASE pc[p] = "approve" /\ approval' = Put(approval, job[p].h, job[p].c)
  <2>1. OneContent(h) /\ Knows(p)
    BY DEF IInv, FInv, RInv
  <2>2. h = job[p].h => c = job[p].c
    BY <1>2, <2>1 DEF Knows, OneContent, Reads
  <2> QED
    BY <1>2, <2>2 DEF MayPickUp, Approved, Put
<1> QED
  BY <1>1, <1>2, OtherFiles

\* What a command has read is left alone by all others: by the lock of the id
\* or of the runtime, or because the id is not known to anybody else.
LEMMA OthersKnow ==
  ASSUME IInv, NEW p \in Procs, Invoke(p) \/ Step(p) \/ Crash(p), NEW q \in Procs, q # p
  PROVE  Knows(q)'
<1>0. /\ pc'[q] = pc[q] /\ job'[q] = job[q] /\ Knows(q) /\ Knows(p) /\ Holds(p) /\ Holds(q)
      /\ Fits(p) /\ Fits(q)
  BY OthersStay DEF IInv, RInv, TInv
<1>1. PICK h : h = job[q].h
  OBVIOUS
<1>2. ASSUME h \in Ids, pc[q] \in {"create", "publish", "square", "again", "open"}
      PROVE  ~Recorded(h)'
  <2>1. ~Recorded(h) /\ job[q].op \in {"create", "prepare"}
    BY <1>0, <1>1, <1>2 DEF Knows, Fits, Prepares
  <2>2. CASE Same(h)
    BY <2>1, <2>2 DEF Same, Recorded
  <2>3. CASE h = job[p].h /\ Appears(p, h)
    <3>1. job[p].op \in {"create", "prepare"}
      BY <1>0, <2>3 DEF Appears, Fits, Prepares
    <3>2. job[p].op = "prepare" /\ job[q].op = "prepare"
      BY <1>0, <1>1, <2>1, <2>3, <3>1 DEF IInv, RInv, OneCreator
    <3> QED
      BY <1>0, <1>2, <2>3, <3>2 DEF Appears, Fits, Holds, UnderRuntime
  <2>4. CASE h = job[p].h /\ Changed(p, h) /\ ~Appears(p, h)
    <3>1. job[p].from \in States \/ pc[p] = "fill"
      BY <1>0, <2>4 DEF Changed, Filled, Discarded, Written, Unlinked, Undone, Fits, Moves, MoveFits, States
    <3> QED
      BY <2>1, <2>4, <3>1 DEF Changed, Filled, Discarded, Written, Unlinked, Undone, At, Reads, Recorded,
                                States
  <2> QED
    BY <1>2, <2>2, <2>3, <2>4, Effects
<1>3. ASSUME h \in Ids, pc[q] = "fill" PROVE Reads(h, "ready", Torn)'
  <2>1. Reads(h, "ready", Torn) /\ job[q].op = "prepare" /\ lock["runtime"] = q
    BY <1>0, <1>1, <1>3 DEF Knows, Fits, Prepares, Holds, UnderRuntime
  <2>2. CASE Same(h)
    BY <2>1, <2>2 DEF Same, Reads, States
  <2>3. CASE h = job[p].h /\ Changed(p, h)
    <3>1. ~Appears(p, h)
      BY <2>1 DEF Appears, Recorded, Reads, States
    <3>2. ~Filled(p, h) /\ ~Discarded(p, h)
      BY <1>0, <2>1 DEF Filled, Discarded, Holds, UnderRuntime
    <3>3. ~Written(p, h) /\ ~Unlinked(p, h) /\ ~Undone(p, h)
      <4>1. OneContent(h) /\ Torn \notin Contents
        BY <1>3, HandoffLifecycleAssumption DEF IInv, FInv
      <4> QED
        BY <1>0, <2>1, <4>1 DEF Written, Unlinked, Undone, Fits, Moves, MoveFits, At, Reads,
                                OneContent, States
    <3> QED
      BY <2>3, <3>1, <3>2, <3>3 DEF Changed
  <2> QED
    BY <1>3, <2>2, <2>3, Effects
<1>4. ASSUME h \in Ids, pc[q] = "withdraw" PROVE ~Exists(h, "ready")'
  <2>1. ~Exists(h, "ready") /\ job[q].op = "prepare" /\ lock["runtime"] = q
    BY <1>0, <1>1, <1>4 DEF Knows, Fits, Prepares, Holds, UnderRuntime
  <2>2. CASE Same(h)
    BY <2>1, <2>2 DEF Same, States
  <2>3. CASE h = job[p].h /\ Changed(p, h)
    <3>1. ~Appears(p, h)
      <4>1. ASSUME Appears(p, h) PROVE job[p].op \in {"create", "prepare"}
        BY <1>0, <4>1 DEF Appears, Fits, Prepares
      <4>2. ASSUME Appears(p, h) PROVE job[p].op = "prepare"
        BY <1>0, <1>1, <2>1, <2>3, <4>1, <4>2 DEF IInv, RInv, OneCreator
      <4> QED
        BY <1>0, <2>1, <4>2 DEF Appears, Fits, Holds, UnderRuntime
    <3>2. ~Filled(p, h) /\ ~Discarded(p, h)
      BY <2>1 DEF Filled, Discarded, Reads
    <3>3. ASSUME Written(p, h) \/ Unlinked(p, h) \/ Undone(p, h) PROVE ~Exists(h, "ready")'
      BY <1>0, <2>1, <3>3 DEF Written, Unlinked, Undone, Fits, Moves, MoveFits, At, After, States
    <3> QED
      BY <2>3, <3>1, <3>2, <3>3 DEF Changed
  <2> QED
    BY <1>4, <2>2, <2>3, Effects
<1>5. ASSUME h \in Ids, pc[q] = "approve", NEW c, c = job[q].c PROVE \E s \in States : Reads(h, s, c)'
  <2>1. c # Torn /\ \E s \in States : Reads(h, s, c)
    BY <1>0, <1>1, <1>5, HandoffLifecycleAssumption DEF Knows, Fits
  <2> QED
    BY <1>5, <2>1, ContentKept
<1>6. ASSUME h \in Ids, pc[q] \in {"move", "unlink", "undo"} PROVE Same(h)
  <2>1. /\ lock[h] = q /\ job[q].from \in States /\ Reads(h, job[q].from, job[q].c)
        /\ job[q].c # Torn
    BY <1>0, <1>1, <1>6, HandoffLifecycleAssumption
       DEF Knows, Fits, Moves, MoveFits, Holds, UnderOwn, States
  <2>2. h = job[p].h => ~Written(p, h) /\ ~Unlinked(p, h) /\ ~Undone(p, h)
    BY <1>0, <2>1 DEF Written, Unlinked, Undone, Holds, UnderOwn
  <2>3. ~Appears(p, h)
    BY <2>1 DEF Appears, Recorded, Reads
  <2>4. ~Filled(p, h) /\ ~Discarded(p, h)
    BY <2>1 DEF Filled, Discarded, At, Reads
  <2> QED
    BY <1>6, <2>2, <2>3, <2>4, Effects DEF Changed
<1>7. ASSUME h \in Ids, job[q].op = "claim", pc[q] \in {"lock", "load", "move", "unlink"}
      PROVE  brake' = "DRIVE" /\ \E c : c # Torn /\ MayPickUp(h, c)' /\ \E s \in States : Reads(h, s, c)'
  <2>1. brake = "DRIVE" /\ lock["runtime"] = q
    BY <1>0, <1>7 DEF Knows, Holds, Moves
  <2>2. pc[p] # "set-brake"
    BY <1>0, <2>1 DEF Holds, UnderRuntime
  <2>3. PICK c : c # Torn /\ MayPickUp(h, c) /\ \E s \in States : Reads(h, s, c)
    BY <1>0, <1>1, <1>7 DEF Knows, Reads
  <2>4. MayPickUp(h, c)' /\ \E s \in States : Reads(h, s, c)'
    BY <1>7, <2>3, ContentKept, PolicyKept
  <2> QED
    BY <2>1, <2>2, <2>3, <2>4, OtherFiles
<1>8. pc[q] \in PCs /\ (pc[q] \in {"create", "publish", "square", "again", "open", "fill", "withdraw",
                                "approve", "move", "unlink", "undo"} \/ job[q].op = "claim" => h \in Ids)
  BY <1>0, <1>1 DEF IInv, TInv, TypeOK, Fits, Prepares, Moves, MoveFits
<1>9. /\ pc'[q] \in {"create", "publish", "square", "again", "open"} => ~Recorded(job[q].h)'
      /\ pc'[q] = "fill" => Reads(job[q].h, "ready", Torn)'
      /\ pc'[q] = "withdraw" => ~Exists(job[q].h, "ready")'
  BY <1>0, <1>1, <1>2, <1>3, <1>4, <1>8 DEF Recorded, Reads, Exists
<1>10. pc'[q] = "approve" => \E s \in States : Reads(job[q].h, s, job[q].c)'
  BY <1>0, <1>1, <1>5, <1>8 DEF Reads, Exists
<1>11. /\ pc'[q] = "move" => At(job[q].h, {job[q].from})' /\ Reads(job[q].h, job[q].from, job[q].c)'
       /\ pc'[q] \in {"unlink", "undo"} =>
            At(job[q].h, {job[q].from, job[q].to})' /\ Reads(job[q].h, job[q].from, job[q].c)'
  <2>1. ASSUME pc[q] \in {"move", "unlink", "undo"}
        PROVE  Same(h) /\ job[q].from \in States
    BY <1>0, <1>6, <1>8, <2>1 DEF Fits, Moves, MoveFits, States
  <2> QED
    BY <1>0, <1>1, <2>1 DEF Knows, Same, At, Reads, Exists
<1>12. job'[q].op = "claim" /\ pc'[q] \in {"lock", "load", "move", "unlink"} =>
         /\ brake' = "DRIVE"
         /\ \E s \in States : /\ Exists(job[q].h, s)' /\ dir'[s][job'[q].h] # Torn
                              /\ MayPickUp(job[q].h, dir[s][job[q].h])'
  BY <1>0, <1>1, <1>7, <1>8 DEF Reads, Exists, MayPickUp, Approved
<1> QED
  BY <1>9, <1>10, <1>11, <1>12 DEF Knows

\* What a command relies on after its own step, it has read or written itself.
LEMMA OwnKnows ==
  ASSUME GivenIds["create"] = {}, IInv, NEW p \in Procs, Invoke(p) \/ Step(p) \/ Crash(p)
  PROVE  Knows(p)'
<1> DEFINE Goal == Knows(p)'
           Relies == {"create", "publish", "square", "again", "open", "fill", "withdraw", "approve",
                      "move", "unlink", "undo"}
<1> SUFFICES Goal
  OBVIOUS
<1>0. Knows(p) /\ Fits(p) /\ Holds(p) /\ pc \in [Procs -> PCs] /\ job \in [Procs -> Job]
  BY DEF IInv, RInv, TInv, TypeOK
<1>1. ASSUME pc'[p] \notin Relies, job'[p].op # "claim" \/ pc'[p] \notin {"lock", "load"} PROVE Goal
  BY <1>1 DEF Knows
<1>2. ASSUME Finish(p) PROVE Goal
  BY <1>0, <1>1, <1>2 DEF Finish, Goto, NoJob
<1>3. CASE BeginCreate(p)
  <2>1. PICK h \in FreshIds, c \in Contents :
          Begin(p, "create", [NoJob EXCEPT !.op = "create", !.h = h, !.c = c])
    BY <1>3 DEF BeginCreate, TypedIds
  <2>2. pc'[p] = "create" /\ job'[p].op = "create" /\ job'[p].h = h /\ UNCHANGED dir
    BY <1>0, <2>1 DEF Begin, Goto, NoJob, files
  <2> QED
    BY <2>2 DEF FreshIds, Knows, Recorded, Exists
<1>4. CASE \/ BeginPrepare(p) \/ BeginApprove(p) \/ BeginClaim(p) \/ BeginComplete(p) \/ BeginFail(p)
           \/ BeginCleanSquare(p) \/ BeginBrake(p)
  <2>1. pc'[p] \in {"available", "find", "runtime", "peek", "view"} \/
        (pc'[p] = "lock" /\ job'[p].op = "complete")
    BY <1>0, <1>4 DEF BeginPrepare, BeginApprove, BeginClaim, BeginComplete, BeginFail,
       BeginCleanSquare, BeginBrake, Begin, Goto, NoJob
  <2> QED
    BY <1>1, <2>1
<1>5. CASE AcquireRuntime(p) \/ ReleaseRuntime(p) \/ ReleaseHandoff(p) \/ SetBrake(p)
  BY <1>0, <1>1, <1>2, <1>5 DEF AcquireRuntime, ReleaseRuntime, ReleaseHandoff, SetBrake, Acquire, Goto
<1>6. ASSUME UNCHANGED <<dir, brake, approval, job>>, pc[p] \in {"lock", "load"}, pc'[p] \in {"lock", "load"}
      PROVE  Goal
  BY <1>0, <1>6 DEF Knows, MayPickUp, Approved, Exists
<1>7. CASE AcquireHandoff(p)
  <2>1. Finish(p) \/ pc'[p] = "return" \/ (pc'[p] = "load" /\ UNCHANGED <<dir, brake, approval, job>>)
    BY <1>0, <1>7 DEF AcquireHandoff, Acquire, Goto, files
  <2> QED
    BY <1>1, <1>2, <1>6, <1>7, <2>1 DEF AcquireHandoff
<1>8. ASSUME UNCHANGED <<dir, job>>, job[p].op # "claim", ~Recorded(job[p].h),
             pc'[p] \in {"publish", "square", "again", "open"}
      PROVE  Goal
  BY <1>8 DEF Knows, Recorded, Exists
<1>9. CASE CreateCheck(p)
  BY <1>0, <1>2, <1>8, <1>9 DEF CreateCheck, Goto, Knows, Fits, files
<1>10. CASE PrepareGuard(p) \/ PrepareSquare(p) \/ PrepareAgain(p)
  <2>1. pc'[p] \in {"return", "withdraw-square"} \/
        /\ UNCHANGED <<dir, job>> /\ job[p].op # "claim" /\ ~Recorded(job[p].h)
        /\ pc'[p] \in {"square", "again", "open"}
    BY <1>0, <1>10 DEF PrepareGuard, PrepareSquare, PrepareAgain, Goto, Knows, Fits, Prepares, files
  <2> QED
    BY <1>1, <1>8, <2>1
<1>11. CASE \/ PrepareAvailable(p) \/ PrepareFill(p) \/ PrepareFillFails(p)
            \/ WithdrawHandoff(p) \/ WithdrawSquare(p)
  BY <1>0, <1>1, <1>2, <1>11 DEF PrepareAvailable, PrepareFill, PrepareFillFails, WithdrawHandoff,
                                 WithdrawSquare, Goto
<1>12. CASE PrepareOpen(p)
  <2>1. CASE Exists(job[p].h, "ready")
    BY <1>0, <1>1, <1>12, <2>1 DEF PrepareOpen, Goto
  <2>2. CASE ~Exists(job[p].h, "ready")
    <3>1. PICK h : h = job[p].h
      OBVIOUS
    <3>2. dir' = [dir EXCEPT !["ready"] = Put(@, h, Torn)] /\ DOMAIN dir = States /\ "ready" \in States
      BY <1>12, <2>2, <3>1 DEF PrepareOpen, IInv, TInv, TypeOK, States
    <3>3. Exists(h, "ready")' /\ dir'["ready"][h] = Torn
      BY <3>2 DEF Put, Exists
    <3>4. pc'[p] = "fill" /\ job' = job /\ job[p].op = "prepare"
      BY <1>0, <1>12, <2>2 DEF PrepareOpen, Goto, Fits, Prepares
    <3> QED
      BY <3>1, <3>3, <3>4 DEF Knows, Reads, Exists
  <2> QED
    BY <2>1, <2>2
<1>13. CASE PrepareVerify(p)
  <2>1. pc'[p] \in {"return", "withdraw"} /\ UNCHANGED <<dir, job>>
        /\ (pc'[p] = "withdraw" => ~Exists(job[p].h, "ready")) /\ job[p].op = "prepare"
    BY <1>0, <1>13 DEF PrepareVerify, Goto, Fits, Prepares, files
  <2> QED
    BY <2>1 DEF Knows, Exists
<1>14. CASE ApproveFind(p)
  <2>1. CASE Found(job[p].h, "ready")
    <3>1. /\ pc'[p] = "approve" /\ job'[p].h = job[p].h /\ job'[p].c = dir["ready"][job[p].h]
          /\ job'[p].op = "approve" /\ UNCHANGED dir
      BY <1>0, <1>14, <2>1 DEF ApproveFind, Goto, Fits, Job, files
    <3>2. "ready" \in States /\ Exists(job[p].h, "ready")
      BY <2>1 DEF Found, States
    <3> QED
      BY <3>1, <3>2 DEF Knows, Reads, Exists
  <2> QED
    BY <1>2, <1>14, <2>1 DEF ApproveFind
<1>15. CASE ApproveWrite(p) \/ CleanSquareFind(p) \/ CleanSquareWrite(p)
  BY <1>0, <1>1, <1>2, <1>15 DEF ApproveWrite, CleanSquareFind, CleanSquareWrite, Goto
<1>16. CASE ClaimPolicy(p)
  <2>1. CASE brake = "DRIVE" /\ Found(job[p].h, "ready") /\ MayPickUp(job[p].h, dir["ready"][job[p].h])
    <3>1. pc'[p] = "lock" /\ UNCHANGED <<brake, dir, approval, job>>
      BY <1>0, <1>16, <2>1 DEF ClaimPolicy, Goto, files
    <3>2. "ready" \in States /\ Exists(job[p].h, "ready") /\ dir["ready"][job[p].h] # Torn
      BY <2>1 DEF Found, States
    <3> QED
      BY <2>1, <3>1, <3>2 DEF Knows, Exists, MayPickUp, Approved
  <2>2. CASE ~(brake = "DRIVE" /\ Found(job[p].h, "ready") /\ MayPickUp(job[p].h, dir["ready"][job[p].h]))
    BY <1>0, <1>1, <1>16, <2>2 DEF ClaimPolicy, Goto
  <2> QED
    BY <2>1, <2>2
<1>17. CASE FailPeek(p)
  <2>1. Finish(p) \/ (pc'[p] = "lock" /\ job'[p].op = "fail")
    BY <1>0, <1>17 DEF FailPeek, Goto, Fits, Job
  <2> QED
    BY <1>1, <1>2, <2>1
<1>18. CASE MoveLoad(p)
  <2>1. CASE Found(job[p].h, job[p].from)
    <3>1. /\ pc[p] = "load" /\ pc'[p] = "move" /\ UNCHANGED <<brake, dir, approval>>
          /\ job'[p].h = job[p].h /\ job'[p].op = job[p].op /\ job'[p].from = job[p].from
          /\ job'[p].c = dir[job[p].from][job[p].h]
      BY <1>0, <1>18, <2>1 DEF MoveLoad, Goto, Job, files
    <3>2. At(job[p].h, {job[p].from}) /\ Exists(job[p].h, job[p].from)
      BY <2>1 DEF Found, At
    <3> QED
      BY <1>0, <3>1, <3>2 DEF Knows, At, Reads, Exists, MayPickUp, Approved
  <2>2. CASE ~Found(job[p].h, job[p].from)
    BY <1>0, <1>1, <1>18, <2>2 DEF MoveLoad, Goto
  <2> QED
    BY <2>1, <2>2
<1>19. CASE MoveWrite(p)
  <2>1. PICK h \in Ids : h = job[p].h
    BY <1>0, <1>19 DEF MoveWrite, Fits, Moves, MoveFits
  <2>2. /\ pc[p] = "move" /\ pc'[p] = "unlink" /\ job' = job /\ brake' = brake /\ approval' = approval
    BY <1>0, <1>19 DEF MoveWrite, Goto
  <2>3. Written(p, h)
    <3>1. ~Same(h)
      <4>1. PICK t \in States : t = job[p].to /\ t # job[p].from
        BY <1>0, <2>2 DEF Fits, Moves, MoveFits, States
      <4>2. DOMAIN dir = States /\ dir' = [dir EXCEPT ![t] = Put(@, h, job[p].c)]
        BY <1>19, <2>1, <4>1 DEF MoveWrite, IInv, TInv, TypeOK
      <4>3. Exists(h, t)'
        BY <4>2 DEF Put, Exists
      <4>4. ~Exists(h, t)
        BY <1>0, <2>1, <2>2, <4>1 DEF Knows, At
      <4> QED
        BY <4>3, <4>4 DEF Same
    <3> QED
      BY <2>2, <3>1, Effects DEF Changed, Appears, Filled, Discarded, Unlinked, Undone
  <2>4. After(h, {job[p].from, job[p].to}) /\ dir'[job[p].from][h] = job[p].c /\ job[p].from \in States
    BY <1>0, <2>2, <2>3 DEF Written, Fits, Moves, MoveFits, States
  <2>5. ASSUME job[p].op = "claim"
        PROVE  brake' = "DRIVE" /\ \E c : c # Torn /\ MayPickUp(h, c)' /\ \E s \in States : Reads(h, s, c)'
    <3>1. PICK c : c # Torn /\ MayPickUp(h, c) /\ \E s \in States : Reads(h, s, c)
      BY <1>0, <2>1, <2>2, <2>5 DEF Knows, Reads
    <3>2. MayPickUp(h, c)' /\ \E s \in States : Reads(h, s, c)'
      BY <3>1, ContentKept, PolicyKept
    <3> QED
      BY <1>0, <2>2, <2>5, <3>1, <3>2 DEF Knows
  <2> QED
    BY <2>1, <2>2, <2>4, <2>5 DEF Knows, At, After, Reads, Exists, MayPickUp, Approved
<1>20. CASE MoveUnlinkFails(p)
  <2>1. pc[p] = "unlink" /\ pc'[p] = "undo" /\ UNCHANGED <<dir, job>>
    BY <1>0, <1>20 DEF MoveUnlinkFails, Goto, files
  <2> QED
    BY <1>0, <2>1 DEF Knows, At, Reads, Exists
<1>21. CASE CreatePublish(p) \/ MoveUnlink(p) \/ MoveUndo(p) \/ MoveUndoFails(p) \/ Crash(p)
  BY <1>0, <1>1, <1>2, <1>21 DEF CreatePublish, MoveUnlink, MoveUndo, MoveUndoFails, Crash, Goto
<1> HIDE DEF Goal
<1> QED
  BY <1>3, <1>4, <1>5, <1>7, <1>9, <1>10, <1>11, <1>12, <1>13, <1>14, <1>15, <1>16, <1>17, <1>18,
     <1>19, <1>20, <1>21 DEF Invoke, Step

\* The invariant holds at first,
LEMMA InvInit == ASSUME Init PROVE IInv
<1>1. TInv
  BY TypeInit
<1>2. RInv
  BY DEF Init, RInv, Holds, Knows, OneCreator, NoJob, UnderRuntime, UnderOwn, Moves
<1>3. FInv
  BY DEF Init, FInv, OneContent, ApprovalFits, Exists, NoFiles
<1> QED
  BY <1>1, <1>2, <1>3 DEF IInv

\* and after every step, when no id is typed to create.
LEMMA InvStep ==
  ASSUME GivenIds["create"] = {}, IInv, [Next]_vars
  PROVE  IInv'
<1>0. TInv'
  BY TypeStep DEF IInv
<1>1. ASSUME NEW p \in Procs, Invoke(p) \/ Step(p) \/ Crash(p) PROVE RInv' /\ FInv'
  <2>1. \A q \in Procs : Holds(q)'
    BY <1>1, HoldsStep
  <2>2. \A q \in Procs : Knows(q)'
    BY <1>1, OthersKnow, OwnKnows
  <2>3. OneCreator'
    BY <1>1, OneCreatorStep
  <2>4. \A h \in Ids : OneContent(h)' /\ ApprovalFits(h)'
    BY <1>1, ContentStep
  <2> QED
    BY <2>1, <2>2, <2>3, <2>4 DEF RInv, FInv
<1>2. ASSUME NEW l \in Locks, ClearStaleLock(l) PROVE RInv' /\ FInv'
  <2>1. /\ lock \in [Locks -> Procs \union {Free, Stale}] /\ lock[l] = Stale
        /\ lock' = [lock EXCEPT ![l] = Free] /\ Stale \notin Procs
        /\ UNCHANGED <<brake, dir, approval, square, pc, job>>
    BY <1>2, HandoffLifecycleAssumption DEF ClearStaleLock, Release, files, IInv, TInv, TypeOK
  <2>2. \A k \in Locks, q \in Procs : lock[k] = q => lock'[k] = q
    BY <2>1
  <2>3. ASSUME NEW q \in Procs PROVE Holds(q)'
    <3>1. Holds(q) /\ (pc[q] \in UnderOwn => job[q].h \in Locks) /\ "runtime" \in Locks
      BY DEF IInv, TInv, RInv, Fits, UnderOwn, Moves, MoveFits, Locks
    <3> QED
      BY <2>1, <2>2, <3>1 DEF Holds
  <2>4. (\A q \in Procs : Knows(q)') /\ OneCreator' /\ FInv'
    BY <2>1 DEF IInv, RInv, FInv, Knows, OneCreator, OneContent, ApprovalFits, At, Reads, Exists,
                Recorded, MayPickUp, Approved
  <2> QED
    BY <2>3, <2>4 DEF RInv
<1>3. ASSUME UNCHANGED vars PROVE RInv' /\ FInv'
  BY <1>3 DEF vars, files, IInv, RInv, FInv, Holds, Knows, OneCreator, OneContent, ApprovalFits, At,
              Reads, Exists, Recorded, MayPickUp, Approved
<1> QED
  BY <1>0, <1>1, <1>2, <1>3 DEF Next, IInv

------------------------------------------------------------------------------
(* The commands implement the registry                                      *)

\* Where a record lies decides the status of its id.
LEMMA SameStatus ==
  ASSUME NEW h, Same(h)
  PROVE  StatusOf(h)' = StatusOf(h) /\ ContentOf(h)' = ContentOf(h)
  BY DEF Same, StatusOf, ContentOf, States

\* A first text makes an absent id ready; an empty file leaves it absent.
LEMMA Publishes ==
  ASSUME NEW p, NEW h, Appears(p, h) \/ Filled(p, h), job[p].c # Torn
  PROVE  /\ StatusOf(h) = "absent" /\ ContentOf(h) = "none"
         /\ pc[p] = "open" => StatusOf(h)' = "absent" /\ ContentOf(h)' = "none"
         /\ pc[p] # "open" => StatusOf(h)' = "ready" /\ ContentOf(h)' = job[p].c
<1>1. CASE Appears(p, h)
  BY <1>1 DEF Appears, Recorded, After, StatusOf, ContentOf, States
<1>2. CASE Filled(p, h)
  BY <1>2 DEF Filled, Reads, At, After, StatusOf, ContentOf, States
<1> QED
  BY <1>1, <1>2

\* Deleting an empty file again leaves the id absent.
LEMMA Discards ==
  ASSUME NEW p, NEW h, Discarded(p, h)
  PROVE  StatusOf(h)' = StatusOf(h) /\ ContentOf(h)' = ContentOf(h)
  BY DEF Discarded, Reads, At, After, StatusOf, ContentOf, States

\* A move takes effect when its source is deleted, not before and not otherwise.
LEMMA MovesStatus ==
  ASSUME NEW p, NEW h, MoveFits(job[p]), Written(p, h) \/ Unlinked(p, h) \/ Undone(p, h),
         job[p].c # Torn
  PROVE  /\ StatusOf(h) = job[p].from /\ ContentOf(h) = job[p].c /\ ContentOf(h)' = job[p].c
         /\ pc[p] # "unlink" => StatusOf(h)' = job[p].from
         /\ pc[p] = "unlink" => StatusOf(h)' = job[p].to
<1>1. CASE Written(p, h)
  BY <1>1 DEF Written, At, After, MoveFits, StatusOf, ContentOf, States
<1>2. CASE Unlinked(p, h)
  BY <1>2 DEF Unlinked, At, After, MoveFits, StatusOf, ContentOf, States
<1>3. CASE Undone(p, h)
  BY <1>3 DEF Undone, At, After, MoveFits, StatusOf, ContentOf, States
<1> QED
  BY <1>1, <1>2, <1>3

\* A step that leaves every id where it is maps to a new brake, an approval of
\* what the id says, or nothing.
LEMMA FilesRefine ==
  ASSUME IInv, TypeOK', NEW p \in Procs, Invoke(p) \/ Step(p) \/ Crash(p),
         \A h \in Ids : StatusOf(h)' = StatusOf(h) /\ ContentOf(h)' = ContentOf(h)
  PROVE  [Registry!Next]_Registry!hvars
<1> DEFINE Status == [h \in Ids |-> StatusOf(h)]
           Content == [h \in Ids |-> ContentOf(h)]
           ApprovedAs == [h \in Ids |-> IF h \in DOMAIN approval THEN approval[h] ELSE "none"]
<1>1. Status' = Status /\ Content' = Content
  OBVIOUS
<1>2. CASE approval' = approval /\ brake' = brake
  BY <1>1, <1>2 DEF Registry!hvars
<1>3. CASE approval' = approval /\ brake' # brake
  <2>1. brake' \in {"DRIVE", "NEUTRAL", "PARK"}
    BY DEF TypeOK, BrakeStatuses
  <2>2. Registry!SetBrake(brake')
    BY <1>1, <1>3 DEF Registry!SetBrake
  <2> QED
    BY <2>1, <2>2 DEF Registry!Next
<1>4. CASE approval' # approval
  <2>1. /\ pc[p] = "approve" /\ approval' = Put(approval, job[p].h, job[p].c) /\ brake' = brake
        /\ Fits(p) /\ Knows(p)
    BY <1>4, OtherFiles DEF IInv, RInv, TInv
  <2>2. PICK h \in Ids : h = job[p].h
    BY <2>1 DEF Fits
  <2>3. StatusOf(h) # "absent" /\ ContentOf(h) = job[p].c
    <3>1. OneContent(h) /\ job[p].c # Torn
      BY <2>1, HandoffLifecycleAssumption DEF IInv, FInv, Fits
    <3> QED
      BY <2>1, <2>2, <3>1 DEF Knows, OneContent, Reads, StatusOf, ContentOf, States
  <2>4. ApprovedAs' = [ApprovedAs EXCEPT ![h] = Content[h]]
    BY <2>1, <2>2, <2>3 DEF Put
  <2>5. Registry!Approve(h)
    BY <1>1, <2>1, <2>3, <2>4 DEF Registry!Approve
  <2> QED
    BY <2>5 DEF Registry!Next
<1> QED
  BY <1>2, <1>3, <1>4

\* A step that changes the records of an id maps to its publication, to the end
\* of its move, or to nothing.
LEMMA MoveRefines ==
  ASSUME IInv, NEW p \in Procs, Invoke(p) \/ Step(p) \/ Crash(p), NEW h \in Ids,
         h = job[p].h, Changed(p, h)
  PROVE  [Registry!Next]_Registry!hvars
<1> DEFINE Status == [i \in Ids |-> StatusOf(i)]
           Content == [i \in Ids |-> ContentOf(i)]
           ApprovedAs == [i \in Ids |-> IF i \in DOMAIN approval THEN approval[i] ELSE "none"]
<1>0. Fits(p) /\ Knows(p) /\ OneContent(h) /\ ApprovalFits(h) /\ Torn \notin Contents
  BY HandoffLifecycleAssumption DEF IInv, TInv, RInv, FInv
<1>1. pc[p] \in {"publish", "open", "fill", "move", "unlink", "undo"} /\ job[p].c # Torn
      /\ (pc[p] \in Moves => MoveFits(job[p])) /\ job[p].c \in Contents
  BY <1>0 DEF Changed, Appears, Filled, Discarded, Written, Unlinked, Undone, Fits, Prepares
<1>2. brake' = brake /\ approval' = approval
  BY <1>1, OtherFiles
<1>3. ASSUME NEW i \in Ids, i # h PROVE Status'[i] = Status[i] /\ Content'[i] = Content[i]
  <2>1. Same(i)
    BY <1>3, Effects
  <2> QED
    BY <2>1, SameStatus
<1>4. CASE Appears(p, h) \/ Filled(p, h)
  <2>1. CASE pc[p] = "open"
    <3>1. Status' = Status /\ Content' = Content
      BY <1>1, <1>3, <1>4, <2>1, Publishes
    <3> QED
      BY <1>2, <3>1 DEF Registry!hvars
  <2>2. CASE pc[p] # "open"
    <3>1. PICK c \in Contents : c = job[p].c
      BY <1>1
    <3>2. /\ Status[h] = "absent" /\ Status' = [Status EXCEPT ![h] = "ready"]
          /\ Content' = [Content EXCEPT ![h] = c]
      BY <1>1, <1>3, <1>4, <2>2, <3>1, Publishes
    <3>3. Registry!Publish(h, c)
      BY <1>2, <3>2 DEF Registry!Publish
    <3> QED
      BY <3>3 DEF Registry!Next
  <2> QED
    BY <2>1, <2>2
<1>5. CASE Written(p, h) \/ Unlinked(p, h) \/ Undone(p, h)
  <2>1. MoveFits(job[p]) /\ (pc[p] = "unlink" <=> Unlinked(p, h))
    BY <1>1, <1>5 DEF Written, Unlinked, Undone, Moves
  <2>2. Content' = Content
    BY <1>1, <1>3, <1>5, <2>1, MovesStatus
  <2>3. CASE pc[p] # "unlink"
    <3>1. Status' = Status
      BY <1>1, <1>3, <1>5, <2>1, <2>3, MovesStatus
    <3> QED
      BY <1>2, <2>2, <3>1 DEF Registry!hvars
  <2>4. CASE pc[p] = "unlink"
    <3>1. /\ Status[h] = job[p].from /\ Content[h] = job[p].c
          /\ Status' = [Status EXCEPT ![h] = job[p].to]
      BY <1>1, <1>3, <1>5, <2>1, <2>4, MovesStatus
    <3>2. CASE job[p].op = "claim"
      <4>1. job[p].from = "ready" /\ job[p].to = "claimed"
        BY <2>1, <3>2 DEF MoveFits
      <4>2. brake = "DRIVE" /\ MayPickUp(h, job[p].c)
        <5>1. Reads(h, job[p].from, job[p].c) /\ job[p].from \in States
          BY <1>0, <2>4, <4>1 DEF Knows, States
        <5>2. brake = "DRIVE" /\ \E s \in States : Exists(h, s) /\ MayPickUp(h, dir[s][h])
          BY <1>0, <2>4, <3>2 DEF Knows
        <5>3. \A s \in States : Exists(h, s) => dir[s][h] = job[p].c
          BY <1>0, <5>1 DEF OneContent, Reads
        <5> QED
          BY <5>2, <5>3
      <4>3. job[p].c \notin Barred /\ (job[p].c \in Gated => ApprovedAs[h] = job[p].c)
        BY <4>2 DEF MayPickUp, Approved
      <4>4. Registry!Claim(h)
        BY <1>2, <2>2, <3>1, <4>1, <4>2, <4>3 DEF Registry!Claim, Registry!Move
      <4> QED
        BY <4>4 DEF Registry!Next
    <3>3. CASE job[p].op = "complete"
      <4>1. job[p].from = "claimed" /\ job[p].to = "completed"
        BY <2>1, <3>3 DEF MoveFits
      <4>2. Registry!Complete(h)
        BY <1>2, <2>2, <3>1, <4>1 DEF Registry!Complete, Registry!Move
      <4> QED
        BY <4>2 DEF Registry!Next
    <3>4. CASE job[p].op = "fail"
      <4>1. job[p].from \in {"ready", "claimed"} /\ job[p].to = "failed"
        BY <2>1, <3>4 DEF MoveFits
      <4>2. Registry!Fail(h)
        BY <1>2, <2>2, <3>1, <4>1 DEF Registry!Fail, Registry!Move
      <4> QED
        BY <4>2 DEF Registry!Next
    <3> QED
      BY <2>1, <3>2, <3>3, <3>4 DEF MoveFits
  <2> QED
    BY <2>3, <2>4
<1>6. CASE Discarded(p, h)
  <2>1. Status' = Status /\ Content' = Content
    BY <1>3, <1>6, Discards
  <2> QED
    BY <1>2, <2>1 DEF Registry!hvars
<1> QED
  BY <1>4, <1>5, <1>6 DEF Changed

\* Every step of the commands is one of the registry, or changes nothing there.
LEMMA StepRefines ==
  ASSUME GivenIds["create"] = {}, IInv, [Next]_vars
  PROVE  [Registry!Next]_Registry!hvars
<1>1. ASSUME NEW p \in Procs, Invoke(p) \/ Step(p) \/ Crash(p)
      PROVE  [Registry!Next]_Registry!hvars
  <2>1. CASE \A h \in Ids : Same(h)
    <3>1. TypeOK'
      BY TypeStep DEF IInv, TInv
    <3>2. \A h \in Ids : StatusOf(h)' = StatusOf(h) /\ ContentOf(h)' = ContentOf(h)
      BY <2>1, SameStatus
    <3> QED
      BY <1>1, <3>1, <3>2, FilesRefine
  <2>2. CASE \E h \in Ids : ~Same(h)
    <3>1. PICK h \in Ids : h = job[p].h /\ Changed(p, h)
      BY <1>1, <2>2, Effects
    <3> QED
      BY <1>1, <3>1, MoveRefines
  <2> QED
    BY <2>1, <2>2
<1>2. ASSUME UNCHANGED files PROVE [Registry!Next]_Registry!hvars
  BY <1>2 DEF files, Registry!hvars, StatusOf, ContentOf, Exists
<1>3. (\E l \in Locks : ClearStaleLock(l)) \/ UNCHANGED vars => UNCHANGED files
  BY DEF ClearStaleLock, vars, files
<1> QED
  BY <1>1, <1>2, <1>3 DEF Next

\* An empty runtime is an empty registry.
LEMMA InitRefines == ASSUME Init PROVE Registry!Init
<1>1. \A h \in Ids, s \in States : ~Exists(h, s)
  BY DEF Init, NoFiles, Exists
<1>2. \A h \in Ids : StatusOf(h) = "absent" /\ ContentOf(h) = "none" /\ h \notin DOMAIN approval
  BY <1>1 DEF Init, NoFiles, StatusOf, ContentOf, States
<1> QED
  BY <1>2 DEF Init, Registry!Init, Registry!None

\* Where no handoff is created under an id that its caller typed, the commands do
\* to the files only what the atomic registry allows, whatever number of them is
\* in flight and in whatever step one fails or dies: an id is published once and
\* keeps its content, it is claimed once, under DRIVE and with the approval its
\* content needs, and it ends once.
THEOREM HandoffsImplementRegistry ==
  ASSUME GivenIds["create"] = {}
  PROVE  Spec => ImplementsHandoffs
<1>1. Init => IInv /\ Registry!Init
  BY InvInit, InitRefines
<1>2. IInv /\ [Next]_vars => IInv' /\ [Registry!Next]_Registry!hvars
  BY InvStep, StepRefines
<1> QED
  BY <1>1, <1>2, PTL DEF Spec, ImplementsHandoffs, Registry!Spec

------------------------------------------------------------------------------
(* Action properties                                                        *)

\* What a step adds to claimed, the claim that adds it has found allowed.
LEMMA ClaimStep ==
  ASSUME IInv, NEW p \in Procs, Invoke(p) \/ Step(p) \/ Crash(p),
         NEW h \in Ids, h \in DOMAIN dir'["claimed"], h \notin DOMAIN dir["claimed"]
  PROVE  MayPickUp(h, dir'["claimed"][h])
<1>0. Fits(p) /\ Knows(p) /\ OneContent(h)
  BY DEF IInv, TInv, RInv, FInv
<1>1. Exists(h, "claimed")' /\ ~Exists(h, "claimed") /\ "claimed" \in States
  BY DEF Exists, States
<1>2. h = job[p].h /\ Changed(p, h)
  BY <1>1, Effects DEF Same
<1>3. ~Appears(p, h) /\ ~Filled(p, h) /\ ~Discarded(p, h)
  BY <1>1 DEF Appears, Filled, Discarded, After
<1>4. Written(p, h) /\ MoveFits(job[p])
  BY <1>0, <1>1, <1>2, <1>3 DEF Changed, Written, Unlinked, Undone, At, After, Fits, Moves
<1>5. job[p].op = "claim" /\ job[p].from = "ready" /\ dir'["claimed"][h] = job[p].c
  BY <1>1, <1>4 DEF Written, After, MoveFits, At
<1>6. Reads(h, "ready", job[p].c) /\ \E s \in States : Exists(h, s) /\ MayPickUp(h, dir[s][h])
  BY <1>0, <1>2, <1>4, <1>5 DEF Knows, Written
<1>7. \A s \in States : Exists(h, s) => dir[s][h] = job[p].c
  BY <1>0, <1>6 DEF OneContent, Reads, States
<1> QED
  BY <1>5, <1>6, <1>7

\* What a step does to the record of an end.
LEMMA EndStep ==
  ASSUME IInv, NEW p \in Procs, Invoke(p) \/ Step(p) \/ Crash(p),
         NEW s \in {"completed", "failed"}, NEW h \in Ids, Exists(h, s)
  PROVE  IF Exists(h, "ready") \/ Exists(h, "claimed")
         THEN h \in DOMAIN dir'[s] => dir'[s][h] = dir[s][h]
         ELSE h \in DOMAIN dir'[s] /\ dir'[s][h] = dir[s][h]
<1>0. Fits(p) /\ s \in States /\ s \notin {"ready", "claimed"}
  BY DEF IInv, TInv, States
<1>1. CASE Same(h)
  BY <1>0, <1>1 DEF Same, Exists
<1>2. CASE h = job[p].h /\ Changed(p, h)
  <2>1. ~Appears(p, h) /\ ~Filled(p, h) /\ ~Discarded(p, h)
    BY <1>0 DEF Appears, Filled, Discarded, Recorded, At
  <2>2. CASE Written(p, h) \/ Unlinked(p, h) \/ Undone(p, h)
    <3>1. job[p].from \in {"ready", "claimed"} /\ job[p].from \in States
      BY <1>0, <2>2 DEF Written, Unlinked, Undone, Fits, Moves, MoveFits, States
    <3>2. ~Written(p, h)
      BY <1>0, <3>1 DEF Written, At
    <3>3. s = job[p].to /\ Exists(h, job[p].from)
      BY <1>0, <2>2, <3>1, <3>2 DEF Unlinked, Undone, At
    <3>4. CASE Unlinked(p, h)
      BY <1>0, <3>1, <3>3, <3>4 DEF Unlinked, After, Exists
    <3>5. CASE Undone(p, h)
      <4>1. ~Exists(h, s)'
        BY <1>0, <3>1, <3>5 DEF Undone, After
      <4> QED
        BY <3>1, <3>3, <4>1 DEF Exists
    <3> QED
      BY <2>2, <3>2, <3>4, <3>5
  <2> QED
    BY <1>2, <2>1, <2>2 DEF Changed
<1> QED
  BY <1>1, <1>2, Effects

\* Without ids typed to create: what a claim moves to claimed is what its policy
\* check read, with the approval it found, although the move reads it again.
THEOREM ClaimsAreAllowed ==
  ASSUME GivenIds["create"] = {}
  PROVE  Spec => ClaimedWasAllowed
<1> DEFINE A == \A h \in DOMAIN dir'["claimed"] \ DOMAIN dir["claimed"] :
                  MayPickUp(h, dir'["claimed"][h])
<1>1. Init => IInv
  BY InvInit
<1>2. IInv /\ [Next]_vars => IInv'
  BY InvStep
<1>3. IInv /\ [Next]_vars => [A]_vars
  <2>1. ASSUME IInv, NEW p \in Procs, Invoke(p) \/ Step(p) \/ Crash(p) PROVE A
    <3>1. DOMAIN dir'["claimed"] \subseteq Ids
      <4>1. TypeOK'
        BY <2>1, TypeStep DEF IInv, TInv, Next
      <4> QED
        BY <4>1 DEF TypeOK, Directory, States
    <3> QED
      BY <2>1, <3>1, ClaimStep
  <2>2. ASSUME dir' = dir PROVE A
    BY <2>2
  <2> QED
    BY <2>1, <2>2 DEF Next, ClearStaleLock, files, vars
<1> QED
  BY <1>1, <1>2, <1>3, PTL DEF Spec, ClaimedWasAllowed

\* Without ids typed to create: the record of how work ended stays as written; only
\* the move that wrote it may take it back, while the record it comes from is there.
THEOREM EndsAreFinal ==
  ASSUME GivenIds["create"] = {}
  PROVE  Spec => EndedForGood
<1> DEFINE A == \A s \in {"completed", "failed"} : \A h \in DOMAIN dir[s] :
                  IF Exists(h, "ready") \/ Exists(h, "claimed")
                  THEN h \in DOMAIN dir'[s] => dir'[s][h] = dir[s][h]
                  ELSE h \in DOMAIN dir'[s] /\ dir'[s][h] = dir[s][h]
<1>1. Init => IInv
  BY InvInit
<1>2. IInv /\ [Next]_vars => IInv'
  BY InvStep
<1>3. IInv /\ [Next]_vars => [A]_vars
  <2>1. ASSUME IInv, NEW p \in Procs, Invoke(p) \/ Step(p) \/ Crash(p) PROVE A
    <3>1. \A s \in {"completed", "failed"} : DOMAIN dir[s] \subseteq Ids
      BY <2>1 DEF IInv, TInv, TypeOK, Directory, States
    <3> QED
      BY <2>1, <3>1, EndStep DEF Exists
  <2>2. ASSUME dir' = dir PROVE A
    BY <2>2
  <2> QED
    BY <2>1, <2>2 DEF Next, ClearStaleLock, files, vars
<1> QED
  BY <1>1, <1>2, <1>3, PTL DEF Spec, EndedForGood
===============================================================================
