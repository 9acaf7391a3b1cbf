----------------------- MODULE ExecutorInvocationProofs -----------------------
(***************************************************************************)
(* What holds of real-executor invocations whatever the number of          *)
(* commands, executors, packets and troubles: one record per approval is   *)
(* bound, its result is its own, and a lost binding is told of.            *)
(*                                                                         *)
(* Nobody holds a lock while an executor runs, so the argument goes by the *)
(* audit log: it only grows, and a record that is bound, or may still be,  *)
(* has its own entry at the place the operator signed.                     *)
(***************************************************************************)
EXTENDS ExecutorInvocation, SequenceTheorems, TLAPS

------------------------------------------------------------------------------
(* The inductive invariant                                                  *)

DocFields == {"valid", "started", "end", "status", "mode", "plan", "before", "after", "result"}
BoundStatus == {"task_completed", "completed", "failed"}
DocOK(d) == DOMAIN d = DocFields /\ d.status \in {"pending", "blocked"} \union BoundStatus

\* A process that invokes, until its record's audit; and one that closes out.
Acting(p) == pc[p] \in {"armed", "running", "acted"}
Invoking(p) == Acting(p) \/ pc[p] = "audit"
Closing(p) == pc[p] \in {"close", "update", "audit-update"}
\* A closeout that will bind, or has bound, what it read.
Binding(p) == pc[p] \in {"update", "audit-update"} \/ (pc[p] = "close" /\ job[p].codes = {})

PCs == {"idle", "armed", "running", "acted", "audit", "audit-blocked", "close", "update",
        "audit-update", "audit-closeout"}
JobOK(p) ==
  /\ Acting(p) => "inv" \in DOMAIN job[p]
  /\ Closing(p) => /\ {"inv", "doc", "codes"} \subseteq DOMAIN job[p]
                   /\ DocOK(job[p].doc) /\ job[p].inv \in DOMAIN records
  /\ pc[p] = "update" => job[p].codes # {} /\ job[p].codes \subseteq BoundStatus

LogOK == "log" \in DOMAIN world /\ world.log \in Seq({world.log[n] : n \in DOMAIN world.log})

TInv ==
  /\ InvocationTypeOK /\ LogOK /\ credits \in Seq(Invocations)
  /\ DOMAIN job = Procs /\ \A p \in Procs : JobOK(p)
  /\ \A i \in DOMAIN records : DocOK(records[i])

\* An invocation has one process, no record before that process writes it, and
\* no audit record before that process appends it.
Invoked(i) == \E n \in DOMAIN world.log : world.log[n].event = "invoked" /\ world.log[n].inv = i
FInv ==
  /\ \A p \in Procs : Acting(p) => job[p].inv \notin DOMAIN records
  /\ \A p \in Procs : pc[p] = "audit" => job[p].inv \in DOMAIN records
  /\ \A p \in Procs : Invoking(p) => ~Invoked(job[p].inv)
  /\ \A p, q \in Procs : Invoking(p) /\ Invoking(q) /\ job[p].inv = job[q].inv => p = q
  /\ \A i : Invoked(i) => i \in DOMAIN records

\* The entry right after the head of the log that was signed is this one's.
Anchored(i, doc) ==
  LET n == doc.plan.target.chain + 1 IN
  n \in DOMAIN world.log /\ world.log[n].event = "invoked" /\ world.log[n].inv = i
AInv ==
  /\ \A i \in Bound : Anchored(i, records[i])
  /\ \A p \in Procs : Binding(p) => Anchored(job[p].inv, job[p].doc)

\* The file at the result path, as far as an invocation is concerned.
Own(i, res) == res # None => res.by = i \/ <<i, res.by>> \in overlap
SInv ==
  /\ \A i, j \in Live : i = j \/ <<i, j>> \in overlap
  /\ \A p \in Procs : Acting(p) => Own(job[p].inv, result)
  /\ \A i \in DOMAIN records : Own(i, records[i].result)
  /\ \A i \in Bound : records[i].result # None
  /\ \A p \in Procs : Closing(p) => Own(job[p].inv, job[p].doc.result)
  /\ \A p \in Procs : Binding(p) => job[p].doc.result # None

IInv == TInv /\ FInv /\ AInv /\ SInv /\ LostBindingsAreTold

------------------------------------------------------------------------------
(* What a step does to the log, to the processes and to the records         *)

\* An append leaves every entry in its place.
LEMMA LogAppend ==
  ASSUME NEW s, s \in Seq({s[n] : n \in DOMAIN s}), NEW e
  PROVE  LET t == Append(s, e) IN
         /\ t \in Seq({t[n] : n \in DOMAIN t})
         /\ \A n \in DOMAIN s : n \in DOMAIN t /\ t[n] = s[n]
         /\ \A n \in DOMAIN t : n \in DOMAIN s \/ t[n] = e
<1> DEFINE S == {s[n] : n \in DOMAIN s} \union {e}
           t == Append(s, e)
<1>1. s \in Seq(S)
  <2>1. \A n \in 1..Len(s) : s[n] \in S
    OBVIOUS
  <2> QED
    BY <2>1, ElementOfSeq, SeqDef
<1>2. /\ t \in Seq(S) /\ Len(t) = Len(s) + 1 /\ t[Len(s) + 1] = e
      /\ \A n \in 1..Len(s) : t[n] = s[n]
  BY <1>1, AppendProperties
<1>3. DOMAIN s = 1..Len(s) /\ DOMAIN t = 1..Len(s) + 1 /\ Len(s) \in Nat
  BY <1>1, <1>2, LenProperties
<1>4. t \in Seq({t[n] : n \in DOMAIN t})
  <2>1. t \in [1..Len(t) -> {t[n] : n \in DOMAIN t}]
    BY <1>2, <1>3, LenProperties
  <2> QED
    BY <2>1, <1>2, <1>3, SeqDef
<1> QED
  BY <1>2, <1>3, <1>4

\* The log only grows, and only a process that has just written its record
\* appends the audit record of an invocation.
LEMMA LogStep ==
  ASSUME TInv, [Next]_ivars
  PROVE  /\ LogOK'
         /\ \A n \in DOMAIN world.log : n \in DOMAIN world'.log /\ world'.log[n] = world.log[n]
         /\ \A i : Invoked(i)' => \/ Invoked(i)
                                  \/ \E p \in Procs : AuditInvocation(p) /\ i = job[p].inv
<1> DEFINE Same == "log" \in DOMAIN world' /\ world'.log = world.log
           Adds(e) == "log" \in DOMAIN world' /\ world'.log = Append(world.log, e)
<1>0. "log" \in DOMAIN world /\ world.log \in Seq({world.log[n] : n \in DOMAIN world.log})
  BY DEF TInv, LogOK
<1>1. ASSUME Same PROVE LogOK' /\ world'.log = world.log
  BY <1>0, <1>1 DEF LogOK
<1>2. ASSUME NEW e, Adds(e)
      PROVE  /\ LogOK'
             /\ \A n \in DOMAIN world.log : n \in DOMAIN world'.log /\ world'.log[n] = world.log[n]
             /\ \A n \in DOMAIN world'.log : n \in DOMAIN world.log \/ world'.log[n] = e
  BY <1>0, <1>2, LogAppend DEF LogOK
<1> DEFINE How == \/ Same
                  \/ \E e : Adds(e) /\ e.event # "invoked"
                  \/ \E p \in Procs : \E e : Adds(e) /\ AuditInvocation(p) /\ e.inv = job[p].inv
<1>3. How
  <2>1. CASE UNCHANGED ivars
    BY <1>0, <2>1 DEF ivars
  <2>2. CASE MakeReadiness \/ Approve \/ MakePlan \/ OrphanRuns
    BY <1>0, <2>2 DEF MakeReadiness, Approve, MakePlan, OrphanRuns, Act
  <2>3. CASE Drift
    <3>1. PICK kind \in Troubles : world' = Changed(kind)
      BY <2>3 DEF Drift
    <3>2. CASE kind = "audit"
      BY <1>0, <3>1, <3>2 DEF Changed
    <3>3. CASE kind # "audit"
      BY <1>0, <3>1, <3>3 DEF Changed
    <3> QED
      BY <3>2, <3>3
  <2>4. ASSUME NEW p \in Procs, Invoke(p) PROVE How
    <3>1. CASE \/ \E mode \in {"evidence_only", "materialized_changes"} : Recheck(p, mode)
               \/ Starts(p) \/ CannotStart(p) \/ WriteRecord(p) \/ AuditInvocationFails(p)
      BY <1>0, <3>1 DEF Recheck, Starts, CannotStart, WriteRecord, AuditInvocationFails
    <3>2. CASE Runs(p)
      BY <1>0, <3>2 DEF Runs, Act
    <3>3. CASE AuditInvocation(p)
      <4>1. PICK e : e = [event |-> "invoked", inv |-> job[p].inv, doc |-> records[job[p].inv]]
        OBVIOUS
      <4>2. Adds(e)
        BY <1>0, <3>3, <4>1 DEF AuditInvocation, Logged
      <4>3. e.inv = job[p].inv
        BY <4>1
      <4> QED
        BY <3>3, <4>2, <4>3
    <3>4. CASE AuditBlocked(p)
      BY <1>0, <3>4 DEF AuditBlocked, Logged
    <3> QED
      BY <2>4, <3>1, <3>2, <3>3, <3>4 DEF Invoke
  <2>5. ASSUME NEW p \in Procs, Closeout(p) PROVE How
    <3>1. CASE BeginCloseout(p) \/ AlreadyClosed(p) \/ CloseoutBlocked(p) \/ BindRecord(p)
               \/ AuditUpdateFails(p)
      BY <1>0, <3>1 DEF BeginCloseout, AlreadyClosed, CloseoutBlocked, BindRecord,
                        AuditUpdateFails
    <3>2. CASE CloseTask(p)
      BY <1>0, <3>2 DEF CloseTask
    <3>3. CASE AuditUpdate(p) \/ AuditCloseout(p)
      BY <1>0, <3>3 DEF AuditUpdate, AuditCloseout, Logged
    <3> QED
      BY <2>5, <3>1, <3>2, <3>3 DEF Closeout
  <2>6. ASSUME NEW p \in Procs, Crash(p) PROVE How
    BY <1>0, <2>6 DEF Crash
  <2> QED
    BY <2>1, <2>2, <2>3, <2>4, <2>5, <2>6 DEF Next
<1>4. CASE Same
  BY <1>1, <1>4 DEF Invoked
<1>5. CASE \E e : Adds(e) /\ e.event # "invoked"
  BY <1>2, <1>5 DEF Invoked
<1>6. CASE \E p \in Procs : \E e : Adds(e) /\ AuditInvocation(p) /\ e.inv = job[p].inv
  BY <1>2, <1>6 DEF Invoked
<1> HIDE DEF Same, Adds
<1> QED
  BY <1>3, <1>4, <1>5, <1>6
\* Where a step leaves a process.
Goes(q) ==
  \/ pc'[q] = pc[q] /\ job'[q] = job[q]
  \/ pc'[q] \in {"audit-blocked", "audit-closeout"} /\ job'[q] = job[q] /\ pc[q] # "idle"
  \/ pc'[q] = "idle" /\ job'[q] = NoJob
  \/ /\ Acting(q) /\ pc'[q] \in {"running", "acted"}
     /\ "inv" \in DOMAIN job'[q] /\ job'[q].inv = job[q].inv
  \/ pc[q] = "update" /\ pc'[q] = "audit-update" /\ job'[q] = job[q]
  \/ \E mode \in {"evidence_only", "materialized_changes"} : Recheck(q, mode)
  \/ WriteRecord(q) \/ BeginCloseout(q) \/ CloseTask(q)

\* No step leaves a process anywhere else.
LEMMA ProcessStep ==
  ASSUME TInv, [Next]_ivars, NEW q \in Procs
  PROVE  Goes(q) /\ DOMAIN job' = Procs /\ pc' \in [Procs -> PCs]
<1>0. /\ DOMAIN job = Procs /\ pc \in [Procs -> PCs]
      /\ Acting(q) => "inv" \in DOMAIN job[q]
  BY DEF TInv, InvocationTypeOK, JobOK, PCs
<1>1. CASE UNCHANGED ivars
  BY <1>0, <1>1 DEF ivars, Goes
<1>2. CASE MakeReadiness \/ Approve \/ MakePlan \/ OrphanRuns \/ Drift
  BY <1>0, <1>2 DEF MakeReadiness, Approve, MakePlan, OrphanRuns, Drift, Goes
<1>3. ASSUME NEW p \in Procs, Invoke(p) PROVE Goes(q) /\ DOMAIN job' = Procs /\ pc' \in [Procs -> PCs]
  <2>1. CASE \E mode \in {"evidence_only", "materialized_changes"} : Recheck(p, mode)
    <3>1. /\ DOMAIN job' = Procs /\ pc' \in [Procs -> PCs]
          /\ (p # q => pc'[q] = pc[q] /\ job'[q] = job[q])
      BY <1>0, <2>1 DEF Recheck, Goto, PCs
    <3> QED
      BY <2>1, <3>1 DEF Goes
  <2>2. CASE Starts(p) \/ CannotStart(p) \/ Runs(p)
    BY <1>0, <2>2 DEF Starts, CannotStart, Runs, Goto, PCs, Goes, Acting
  <2>3. CASE WriteRecord(p)
    <3>1. /\ DOMAIN job' = Procs /\ pc' \in [Procs -> PCs]
          /\ (p # q => pc'[q] = pc[q] /\ job'[q] = job[q])
      BY <1>0, <2>3 DEF WriteRecord, Goto, PCs
    <3> QED
      BY <2>3, <3>1 DEF Goes
  <2>4. CASE AuditInvocation(p) \/ AuditInvocationFails(p) \/ AuditBlocked(p)
    BY <1>0, <2>4 DEF AuditInvocation, AuditInvocationFails, AuditBlocked, Exit, Goto, PCs, Goes
  <2> QED
    BY <1>3, <2>1, <2>2, <2>3, <2>4 DEF Invoke
<1>4. ASSUME NEW p \in Procs, Closeout(p) PROVE Goes(q) /\ DOMAIN job' = Procs /\ pc' \in [Procs -> PCs]
  <2>1. CASE BeginCloseout(p) \/ CloseTask(p)
    <3>1. /\ DOMAIN job' = Procs /\ pc' \in [Procs -> PCs]
          /\ (p # q => pc'[q] = pc[q] /\ job'[q] = job[q])
      BY <1>0, <2>1 DEF BeginCloseout, CloseTask, Goto, PCs
    <3> QED
      BY <2>1, <3>1 DEF Goes
  <2>2. CASE AlreadyClosed(p) \/ CloseoutBlocked(p) \/ AuditCloseout(p)
    BY <1>0, <2>2 DEF AlreadyClosed, CloseoutBlocked, AuditCloseout, Exit, Goto, PCs, Goes
  <2>3. CASE BindRecord(p) \/ AuditUpdate(p) \/ AuditUpdateFails(p)
    BY <1>0, <2>3 DEF BindRecord, AuditUpdate, AuditUpdateFails, Exit, Goto, PCs, Goes
  <2> QED
    BY <1>4, <2>1, <2>2, <2>3 DEF Closeout
<1>5. ASSUME NEW p \in Procs, Crash(p) PROVE Goes(q) /\ DOMAIN job' = Procs /\ pc' \in [Procs -> PCs]
  BY <1>0, <1>5 DEF Crash, Exit, Goto, PCs, Goes
<1> QED
  BY <1>1, <1>2, <1>3, <1>4, <1>5 DEF Next

\* What a step makes of a record.
Writes(i) ==
  \/ i \in DOMAIN records /\ records'[i] = records[i]
  \/ \E p \in Procs : i = job[p].inv /\ WriteRecord(p)
  \/ \E p \in Procs : /\ i = job[p].inv /\ i \in DOMAIN records /\ AuditInvocationFails(p)
                      /\ records'[i] = [records[i] EXCEPT !.valid = FALSE, !.status = "blocked"]
  \/ \E p \in Procs, status \in BoundStatus :
       /\ i = job[p].inv /\ i \in DOMAIN records /\ BindRecord(p)
       /\ records'[i] = [job[p].doc EXCEPT !.status = status]
  \/ \E p \in Procs : /\ i = job[p].inv /\ i \in DOMAIN records /\ AuditUpdateFails(p)
                      /\ records'[i] = job[p].doc

\* Records are written in no other way, and never deleted.
LEMMA RecordStep ==
  ASSUME TInv, [Next]_ivars
  PROVE  /\ \A i \in DOMAIN records' : Writes(i)
         /\ DOMAIN records \subseteq DOMAIN records'
<1> DEFINE Here == /\ \A i \in DOMAIN records' : Writes(i)
                   /\ DOMAIN records \subseteq DOMAIN records'
<1>1. ASSUME UNCHANGED records PROVE Here
  BY <1>1 DEF Writes
<1>2. /\ UNCHANGED ivars => Here
      /\ MakeReadiness \/ Approve \/ MakePlan \/ OrphanRuns \/ Drift => Here
  BY <1>1 DEF ivars, MakeReadiness, Approve, MakePlan, OrphanRuns, Drift
<1>3. ASSUME NEW p \in Procs, Invoke(p) PROVE Here
  <2>1. CASE \/ \E mode \in {"evidence_only", "materialized_changes"} : Recheck(p, mode)
             \/ Starts(p) \/ CannotStart(p) \/ Runs(p) \/ AuditInvocation(p) \/ AuditBlocked(p)
    BY <1>1, <2>1 DEF Recheck, Starts, CannotStart, Runs, AuditInvocation, AuditBlocked
  <2>2. CASE WriteRecord(p)
    <3>1. /\ DOMAIN records' = DOMAIN records \union {job[p].inv}
          /\ \A i \in DOMAIN records' : i # job[p].inv => records'[i] = records[i]
      BY <2>2 DEF WriteRecord
    <3> QED
      BY <2>2, <3>1 DEF Writes
  <2>3. CASE AuditInvocationFails(p) /\ records' # records
    <3>1. records' = [records EXCEPT ![job[p].inv].valid = FALSE,
                                     ![job[p].inv].status = "blocked"]
      BY <2>3 DEF AuditInvocationFails
    <3>2. /\ DOMAIN records' = DOMAIN records
          /\ \A i \in DOMAIN records : i # job[p].inv => records'[i] = records[i]
          /\ job[p].inv \in DOMAIN records =>
               records'[job[p].inv] = [records[job[p].inv] EXCEPT !.valid = FALSE,
                                                                  !.status = "blocked"]
      BY <3>1
    <3> QED
      BY <2>3, <3>2 DEF Writes
  <2> QED
    BY <1>1, <1>3, <2>1, <2>2, <2>3 DEF Invoke
<1>4. ASSUME NEW p \in Procs, Closeout(p) PROVE Here
  <2>1. CASE \/ BeginCloseout(p) \/ AlreadyClosed(p) \/ CloseoutBlocked(p) \/ CloseTask(p)
             \/ AuditUpdate(p) \/ AuditCloseout(p)
    BY <1>1, <2>1 DEF BeginCloseout, AlreadyClosed, CloseoutBlocked, CloseTask, AuditUpdate,
                      AuditCloseout
  <2>2. CASE BindRecord(p)
    <3>1. PICK status \in BoundStatus : records' = Rebound(job[p].inv, job[p].doc, status)
      BY <2>2 DEF BindRecord, TInv, JobOK
    <3>2. /\ DOMAIN records' = DOMAIN records
          /\ \A i \in DOMAIN records : i # job[p].inv => records'[i] = records[i]
          /\ job[p].inv \in DOMAIN records =>
               records'[job[p].inv] = [job[p].doc EXCEPT !.status = status]
      BY <3>1 DEF Rebound
    <3> QED
      BY <2>2, <3>2 DEF Writes
  <2>3. CASE AuditUpdateFails(p) /\ records' # records
    <3>1. records' = [records EXCEPT ![job[p].inv] = job[p].doc]
      BY <2>3 DEF AuditUpdateFails
    <3>2. /\ DOMAIN records' = DOMAIN records
          /\ \A i \in DOMAIN records : i # job[p].inv => records'[i] = records[i]
          /\ job[p].inv \in DOMAIN records => records'[job[p].inv] = job[p].doc
      BY <3>1
    <3> QED
      BY <2>3, <3>2 DEF Writes
  <2> QED
    BY <1>1, <1>4, <2>1, <2>2, <2>3 DEF Closeout
<1>5. ASSUME NEW p \in Procs, Crash(p) PROVE Here
  BY <1>1, <1>5 DEF Crash
<1> HIDE DEF Here
<1>6. Here
  BY <1>2, <1>3, <1>4, <1>5 DEF Next
<1> QED
  BY <1>6 DEF Here
------------------------------------------------------------------------------
(* Types                                                                    *)

\* Nothing is recorded, held or logged at first.
LEMMA TypeInit == ASSUME Init PROVE TInv
<1>1. LogOK
  <2>1. "log" \in DOMAIN world /\ world.log = <<>>
    BY DEF Init, FirstWorld
  <2> QED
    BY <2>1, EmptySeq DEF LogOK
<1>2. InvocationTypeOK
  BY DEF Init, InvocationTypeOK
<1>3. credits \in Seq(Invocations)
  BY EmptySeq DEF Init
<1>4. DOMAIN job = Procs /\ \A p \in Procs : JobOK(p)
  BY DEF Init, JobOK, Acting, Closing
<1>5. \A i \in DOMAIN records : DocOK(records[i])
  BY DEF Init
<1> QED
  BY <1>1, <1>2, <1>3, <1>4, <1>5 DEF TInv

\* What a process remembers.
LEMMA JobStep ==
  ASSUME TInv, [Next]_ivars, NEW q \in Procs
  PROVE  /\ JobOK(q)'
         /\ IF pc'[q] = "idle" THEN job'[q] = NoJob ELSE job'[q].inv \in Invocations
<1>0. /\ DOMAIN job = Procs /\ DOMAIN pc = Procs /\ JobOK(q) /\ DOMAIN records \subseteq Invocations
      /\ \A i \in DOMAIN records : DocOK(records[i])
      /\ IF pc[q] = "idle" THEN job[q] = NoJob ELSE job[q].inv \in Invocations
  BY DEF TInv, InvocationTypeOK
<1>1. Goes(q) /\ DOMAIN records \subseteq DOMAIN records'
  BY ProcessStep, RecordStep
<1>2. CASE pc'[q] = pc[q] /\ job'[q] = job[q]
  BY <1>0, <1>1, <1>2 DEF JobOK, Acting, Closing
<1>3. CASE \/ pc'[q] \in {"audit-blocked", "audit-closeout"} /\ job'[q] = job[q] /\ pc[q] # "idle"
           \/ pc'[q] = "idle" /\ job'[q] = NoJob
  BY <1>0, <1>3 DEF JobOK, Acting, Closing
<1>4. CASE /\ Acting(q) /\ pc'[q] \in {"running", "acted"}
           /\ "inv" \in DOMAIN job'[q] /\ job'[q].inv = job[q].inv
  BY <1>0, <1>4 DEF JobOK, Acting, Closing
<1>5. CASE pc[q] = "update" /\ pc'[q] = "audit-update" /\ job'[q] = job[q]
  BY <1>0, <1>1, <1>5 DEF JobOK, Acting, Closing
<1>6. CASE \E mode \in {"evidence_only", "materialized_changes"} : Recheck(q, mode)
  BY <1>0, <1>6 DEF Recheck, Goto, JobOK, Acting, Closing
<1>7. CASE WriteRecord(q)
  BY <1>0, <1>7 DEF WriteRecord, Goto, JobOK, Acting, Closing
<1>8. CASE BeginCloseout(q)
  <2>1. PICK i \in DOMAIN records :
          Goto(q, "close", [inv |-> i, doc |-> records[i], res |-> result,
                            valid |-> ResultValid(world, result),
                            codes |-> CloseoutBlockers(world, records[i], i, result)])
    BY <1>8 DEF BeginCloseout
  <2> QED
    BY <1>0, <1>1, <2>1 DEF Goto, JobOK, Acting, Closing
<1>9. CASE CloseTask(q)
  <2>1. PICK status \in BoundStatus : Goto(q, "update", [job[q] EXCEPT !.codes = {status}])
    BY <1>9 DEF CloseTask, BoundStatus
  <2>2. Closing(q)
    BY <1>9 DEF CloseTask, Closing
  <2> QED
    BY <1>0, <1>1, <2>1, <2>2 DEF Goto, JobOK, Acting, Closing
<1> QED
  BY <1>1, <1>2, <1>3, <1>4, <1>5, <1>6, <1>7, <1>8, <1>9 DEF Goes

\* And what the records say.
LEMMA DocStep ==
  ASSUME TInv, [Next]_ivars, NEW i \in DOMAIN records'
  PROVE  i \in Invocations /\ DocOK(records'[i])
<1>0. /\ DOMAIN records \subseteq Invocations /\ \A p \in Procs : JobOK(p)
      /\ \A k \in DOMAIN records : DocOK(records[k])
      /\ \A p \in Procs : IF pc[p] = "idle" THEN job[p] = NoJob ELSE job[p].inv \in Invocations
  BY DEF TInv, InvocationTypeOK
<1>1. Writes(i)
  BY RecordStep
<1>2. ASSUME NEW p \in Procs, i = job[p].inv, WriteRecord(p)
      PROVE  i \in Invocations /\ DocOK(records'[i])
  <2>1. /\ DOMAIN records'[i] = DocFields /\ records'[i].status = "pending" /\ pc[p] = "acted"
    BY <1>2 DEF WriteRecord, DocFields
  <2> QED
    BY <1>0, <1>2, <2>1 DEF DocOK
<1>3. ASSUME i \in DOMAIN records,
             records'[i] = [records[i] EXCEPT !.valid = FALSE, !.status = "blocked"]
      PROVE  i \in Invocations /\ DocOK(records'[i])
  BY <1>0, <1>3 DEF DocOK, DocFields
<1>4. ASSUME NEW p \in Procs, NEW status \in BoundStatus, i \in DOMAIN records, BindRecord(p),
             records'[i] = [job[p].doc EXCEPT !.status = status]
      PROVE  i \in Invocations /\ DocOK(records'[i])
  <2>1. DocOK(job[p].doc)
    BY <1>0, <1>4 DEF JobOK, Closing, BindRecord
  <2> QED
    BY <1>0, <1>4, <2>1 DEF DocOK, DocFields
<1>5. ASSUME NEW p \in Procs, i \in DOMAIN records, AuditUpdateFails(p), records'[i] = job[p].doc
      PROVE  i \in Invocations /\ DocOK(records'[i])
  BY <1>0, <1>5 DEF JobOK, Closing, AuditUpdateFails
<1> QED
  BY <1>0, <1>1, <1>2, <1>3, <1>4, <1>5 DEF Writes

\* The epoch's end, and the sets of invocations that are kept count of.
Kept == /\ ended \in {"none", "completed", "failed"} /\ told \subseteq Invocations
        /\ orphans \subseteq Invocations /\ overlap \subseteq Invocations \X Invocations
        /\ credits \in Seq(Invocations)

\* What is kept of invocations, results and bounds keeps its type.
LEMMA KeptStep == ASSUME TInv, [Next]_ivars PROVE Kept'
<1>0. /\ Kept /\ Live \subseteq Invocations
      /\ \A p \in Procs : pc[p] # "idle" => job[p].inv \in Invocations
  BY DEF TInv, InvocationTypeOK, Kept, Live
<1>1. UNCHANGED ivars => Kept'
  BY <1>0 DEF ivars, ghosts, Kept
<1>2. MakeReadiness \/ Approve \/ MakePlan => Kept'
  BY <1>0 DEF MakeReadiness, Approve, MakePlan, ghosts, Kept
<1>3. OrphanRuns \/ Drift => Kept'
  BY <1>0 DEF OrphanRuns, Drift, ghosts, Kept
<1>4. ASSUME NEW p \in Procs, Invoke(p) PROVE Kept'
  <2>1. CASE \E mode \in {"evidence_only", "materialized_changes"} : Recheck(p, mode)
    BY <1>0, <2>1 DEF Recheck, Kept
  <2>2. CASE \/ Starts(p) \/ CannotStart(p) \/ Runs(p) \/ WriteRecord(p) \/ AuditInvocation(p)
             \/ AuditInvocationFails(p) \/ AuditBlocked(p)
    BY <1>0, <2>2 DEF Starts, CannotStart, Runs, WriteRecord, AuditInvocation,
                      AuditInvocationFails, AuditBlocked, ghosts, Kept
  <2> QED
    BY <1>4, <2>1, <2>2 DEF Invoke
<1>5. ASSUME NEW p \in Procs, Closeout(p) PROVE Kept'
  <2>1. CASE \/ BeginCloseout(p) \/ AlreadyClosed(p) \/ CloseoutBlocked(p) \/ BindRecord(p)
             \/ AuditUpdate(p) \/ AuditCloseout(p)
    BY <1>0, <2>1 DEF BeginCloseout, AlreadyClosed, CloseoutBlocked, BindRecord, AuditUpdate,
                      AuditCloseout, ghosts, Kept
  <2>2. CASE AuditUpdateFails(p)
    BY <1>0, <2>2 DEF AuditUpdateFails, Kept
  <2>3. CASE CloseTask(p)
    <3>1. credits' = Append(credits, job[p].inv) /\ pc[p] = "close"
      BY <2>3 DEF CloseTask
    <3>2. credits' \in Seq(Invocations)
      BY <1>0, <3>1, AppendProperties DEF Kept
    <3>3. ended' \in {"none", "completed", "failed"} /\ UNCHANGED <<told, orphans, overlap>>
      BY <1>0, <2>3 DEF CloseTask, Kept
    <3> QED
      BY <1>0, <3>2, <3>3 DEF Kept
  <2> QED
    BY <1>5, <2>1, <2>2, <2>3 DEF Closeout
<1>6. ASSUME NEW p \in Procs, Crash(p) PROVE Kept'
  BY <1>0, <1>6 DEF Crash, Kept
<1> QED
  BY <1>1, <1>2, <1>3, <1>4, <1>5, <1>6 DEF Next

\* And so does everything together.
LEMMA TypeStep == ASSUME TInv, [Next]_ivars PROVE TInv'
<1>1. LogOK'
  BY LogStep
<1>2. DOMAIN job' = Procs /\ pc' \in [Procs -> PCs]
  <2>1. CASE Procs = {}
    <3>1. UNCHANGED <<pc, job>>
      BY <2>1 DEF Next, MakeReadiness, Approve, MakePlan, OrphanRuns, Drift, ivars
    <3> QED
      BY <3>1 DEF TInv, InvocationTypeOK, PCs
  <2>2. ASSUME NEW q \in Procs PROVE DOMAIN job' = Procs /\ pc' \in [Procs -> PCs]
    BY ProcessStep
  <2> QED
    BY <2>1, <2>2
<1>3. \A p \in Procs : /\ JobOK(p)'
                       /\ IF pc'[p] = "idle" THEN job'[p] = NoJob ELSE job'[p].inv \in Invocations
  BY JobStep
<1>4. \A i \in DOMAIN records' : i \in Invocations /\ DocOK(records'[i])
  BY DocStep
<1>5. Kept'
  BY KeptStep
<1>6. InvocationTypeOK'
  BY <1>2, <1>3, <1>4, <1>5 DEF InvocationTypeOK, PCs, Kept, DocOK, BoundStatus
<1> QED
  BY <1>1, <1>2, <1>3, <1>4, <1>5, <1>6 DEF TInv, Kept
------------------------------------------------------------------------------
(* One process, one record and one audit record to an invocation            *)

Rechecks(p) == \E mode \in {"evidence_only", "materialized_changes"} : Recheck(p, mode)

\* A process that is invoking has been all along, or has just passed the recheck.
LEMMA InvokingStep ==
  ASSUME TInv, [Next]_ivars, NEW q \in Procs, Invoking(q)'
  PROVE  \/ Invoking(q) /\ job'[q].inv = job[q].inv /\ (Acting(q)' => Acting(q))
         \/ Rechecks(q)
<1>1. Goes(q) /\ DOMAIN pc = Procs /\ DOMAIN job = Procs
  BY ProcessStep DEF TInv, InvocationTypeOK
<1>2. ~BeginCloseout(q) /\ ~CloseTask(q)
  BY <1>1 DEF BeginCloseout, CloseTask, Goto, Invoking, Acting
<1>3. WriteRecord(q) => pc[q] = "acted" /\ pc'[q] = "audit" /\ job'[q] = job[q]
  BY <1>1 DEF WriteRecord, Goto
<1> QED
  BY <1>1, <1>2, <1>3 DEF Goes, Invoking, Acting, Rechecks

\* The recheck takes an id that no record and no executor has.
LEMMA RecheckStep ==
  ASSUME TInv, NEW q \in Procs, Rechecks(q)
  PROVE  /\ pc[q] = "idle" /\ pc'[q] = "armed" /\ \A p \in Procs \ {q} : pc'[p] = pc[p]
         /\ job'[q].inv \notin DOMAIN records \union Live
         /\ UNCHANGED <<world, records>>
BY DEF Rechecks, Recheck, Goto, TInv, InvocationTypeOK

\* Nobody is invoking at first.
LEMMA FreshInit == ASSUME Init PROVE FInv
<1>1. world.log = <<>>
  BY DEF Init, FirstWorld
<1> QED
  BY <1>1 DEF Init, FInv, Acting, Invoking, Invoked

\* Each step keeps an invocation to one process, record and entry.
LEMMA FreshStep == ASSUME TInv, FInv, [Next]_ivars PROVE FInv'
<1>0. /\ \A i : Invoked(i)' => Invoked(i) \/ \E p \in Procs : AuditInvocation(p) /\ i = job[p].inv
      /\ \A i \in DOMAIN records' : Writes(i)
      /\ DOMAIN records \subseteq DOMAIN records'
  BY LogStep, RecordStep
<1>1. ASSUME NEW q \in Procs, Acting(q)' PROVE job'[q].inv \notin DOMAIN records'
  <2>1. CASE Rechecks(q)
    BY <2>1, RecheckStep
  <2>2. CASE Acting(q) /\ job'[q].inv = job[q].inv
    <3>1. SUFFICES ASSUME job[q].inv \in DOMAIN records' PROVE FALSE
      BY <2>2
    <3>2. PICK p \in Procs : job[p].inv = job[q].inv /\ WriteRecord(p)
      BY <1>0, <2>2, <3>1 DEF FInv, Writes
    <3>3. pc[p] = "acted" /\ pc'[p] = "audit"
      BY <3>2 DEF WriteRecord, Goto, TInv, InvocationTypeOK
    <3>4. p = q
      BY <2>2, <3>2, <3>3 DEF FInv, Acting, Invoking
    <3> QED
      BY <1>1, <3>3, <3>4 DEF Acting
  <2> QED
    BY <1>1, <2>1, <2>2, InvokingStep DEF Invoking
<1>2. ASSUME NEW q \in Procs, pc'[q] = "audit" PROVE job'[q].inv \in DOMAIN records'
  <2>1. ~Rechecks(q)
    BY <1>2, RecheckStep
  <2>2. CASE pc[q] = "audit" /\ job'[q].inv = job[q].inv
    BY <1>0, <2>2 DEF FInv
  <2>3. CASE WriteRecord(q)
    <3>1. DOMAIN records' = DOMAIN records \union {job[q].inv} /\ job'[q] = job[q]
      BY <2>3 DEF WriteRecord, Goto, TInv
    <3> QED
      BY <3>1
  <2> QED
    BY <1>2, <2>1, <2>2, <2>3, ProcessStep DEF Goes, Rechecks, BeginCloseout, CloseTask, Goto,
                                            TInv, InvocationTypeOK
<1>3. ASSUME NEW q \in Procs, Invoking(q)' PROVE ~Invoked(job[q].inv)'
  <2>1. SUFFICES ASSUME NEW i, i = job'[q].inv, Invoked(i)' PROVE FALSE
    BY DEF Invoked
  <2>2. Invoked(i) \/ \E p \in Procs : AuditInvocation(p) /\ i = job[p].inv
    BY <1>0, <2>1
  <2>3. CASE Rechecks(q)
    BY <2>1, <2>2, <2>3, RecheckStep DEF FInv, AuditInvocation
  <2>4. CASE Invoking(q) /\ i = job[q].inv
    <3>1. PICK p \in Procs : AuditInvocation(p) /\ i = job[p].inv
      BY <2>2, <2>4 DEF FInv
    <3>2. pc[p] = "audit" /\ pc'[p] = "idle"
      BY <3>1 DEF AuditInvocation, Exit, Goto, TInv, InvocationTypeOK
    <3>3. p = q
      BY <2>4, <3>1, <3>2 DEF FInv, Invoking
    <3> QED
      BY <1>3, <3>2, <3>3 DEF Invoking, Acting
  <2> QED
    BY <1>3, <2>1, <2>3, <2>4, InvokingStep
<1>4. ASSUME NEW p \in Procs, NEW q \in Procs, Invoking(p)', Invoking(q)',
             job'[p].inv = job'[q].inv
      PROVE  p = q
  <2>1. ASSUME NEW r \in Procs, NEW s \in Procs, Rechecks(r), Invoking(s),
               job'[s].inv = job[s].inv, job'[r].inv = job'[s].inv
        PROVE  FALSE
    BY <2>1, RecheckStep DEF FInv, Invoking, Acting, Live
  <2>2. ASSUME Rechecks(p), Rechecks(q) PROVE p = q
    BY <2>2, RecheckStep
  <2>3. ASSUME Invoking(p), Invoking(q), job[p].inv = job[q].inv PROVE p = q
    BY <2>3 DEF FInv
  <2> QED
    BY <1>4, <2>1, <2>2, <2>3, InvokingStep
<1>5. \A i : Invoked(i)' => i \in DOMAIN records'
  BY <1>0 DEF FInv, AuditInvocation
<1> QED
  BY <1>1, <1>2, <1>3, <1>4, <1>5 DEF FInv
------------------------------------------------------------------------------
(* The place the operator signed                                            *)

\* A closeout without blockers has found the result and the signed place.
LEMMA CloseoutClean ==
  ASSUME NEW w, NEW r, NEW i, NEW res, CloseoutBlockers(w, r, i, res) = {}
  PROVE  /\ r.result # None
         /\ LET n == r.plan.target.chain + 1 IN
            n \in DOMAIN w.log /\ w.log[n].event = "invoked" /\ w.log[n].inv = i
<1>1. ResultBlockers(w, r, res) = {} /\ AuditBlockers(w, r, i) = {}
  BY DEF CloseoutBlockers
<1>2. r.result # None
  BY <1>1 DEF ResultBlockers, When
<1>3. Anchor(w, r, i)
  BY <1>1 DEF AuditBlockers, When
<1> QED
  BY <1>2, <1>3 DEF Anchor

\* What a closeout holds, and whether it may bind it.
LEMMA ClosingStep ==
  ASSUME TInv, [Next]_ivars, NEW q \in Procs, Closing(q)'
  PROVE  \/ /\ Closing(q) /\ job'[q].inv = job[q].inv /\ job'[q].doc = job[q].doc
            /\ Binding(q)' => Binding(q)
         \/ /\ job'[q].inv \in DOMAIN records /\ job'[q].doc = records[job'[q].inv]
            /\ UNCHANGED world
            /\ Binding(q)' => job'[q].doc.result # None /\ Anchored(job'[q].inv, job'[q].doc)
<1>1. /\ Goes(q) /\ DOMAIN pc = Procs /\ DOMAIN job = Procs
      /\ Closing(q) => {"inv", "doc", "codes"} \subseteq DOMAIN job[q]
  BY ProcessStep DEF TInv, InvocationTypeOK, JobOK
<1>2. ~Rechecks(q) /\ ~WriteRecord(q)
  BY <1>1 DEF Rechecks, Recheck, WriteRecord, Goto, Closing
<1>3. CASE BeginCloseout(q)
  <2>1. PICK i \in DOMAIN records :
          Goto(q, "close", [inv |-> i, doc |-> records[i], res |-> result,
                            valid |-> ResultValid(world, result),
                            codes |-> CloseoutBlockers(world, records[i], i, result)])
    BY <1>3 DEF BeginCloseout
  <2>2. /\ pc'[q] = "close" /\ job'[q].inv = i /\ job'[q].doc = records[i]
        /\ job'[q].codes = CloseoutBlockers(world, records[i], i, result)
    BY <1>1, <2>1 DEF Goto
  <2>3. CloseoutBlockers(world, records[i], i, result) = {}
          => records[i].result # None /\ Anchored(i, records[i])
    BY CloseoutClean DEF Anchored
  <2> QED
    BY <1>3, <2>2, <2>3 DEF Binding, BeginCloseout
<1>4. CASE CloseTask(q)
  <2>1. PICK status : Goto(q, "update", [job[q] EXCEPT !.codes = {status}])
    BY <1>4 DEF CloseTask
  <2>2. pc[q] = "close" /\ job[q].codes = {}
    BY <1>4 DEF CloseTask, Closeable
  <2> QED
    BY <1>1, <2>1, <2>2 DEF Goto, Closing, Binding
<1>5. CASE \/ pc'[q] = pc[q] /\ job'[q] = job[q]
           \/ pc[q] = "update" /\ pc'[q] = "audit-update" /\ job'[q] = job[q]
  BY <1>5 DEF Closing, Binding
<1> QED
  BY <1>1, <1>2, <1>3, <1>4, <1>5 DEF Goes, Closing, Rechecks

\* Nothing is bound at first,
LEMMA AnchorInit == ASSUME Init PROVE AInv
BY DEF Init, AInv, Bound, Binding

\* and what is bound later has been found at the place that was signed.
LEMMA AnchorStep == ASSUME TInv, AInv, [Next]_ivars PROVE AInv'
<1>0. /\ \A n \in DOMAIN world.log : n \in DOMAIN world'.log /\ world'.log[n] = world.log[n]
      /\ \A i \in DOMAIN records : DocOK(records[i])
      /\ \A p \in Procs : Closing(p) => DocOK(job[p].doc)
  BY LogStep DEF TInv, JobOK
<1>1. ASSUME NEW i \in Bound' PROVE Anchored(i, records[i])'
  <2>1. i \in DOMAIN records' /\ records'[i].status \in BoundStatus /\ Writes(i)
    BY <1>1, RecordStep DEF Bound, BoundStatus
  <2>2. CASE i \in DOMAIN records /\ records'[i] = records[i]
    <3>1. Anchored(i, records[i])
      BY <2>1, <2>2 DEF AInv, Bound, BoundStatus
    <3> QED
      BY <1>0, <2>2, <3>1 DEF Anchored
  <2>3. ASSUME NEW p \in Procs, i = job[p].inv, WriteRecord(p) PROVE FALSE
    <3>1. records'[i].status = "pending"
      BY <2>3 DEF WriteRecord
    <3> QED
      BY <2>1, <3>1 DEF BoundStatus
  <2>4. ASSUME i \in DOMAIN records,
               records'[i] = [records[i] EXCEPT !.valid = FALSE, !.status = "blocked"]
        PROVE  FALSE
    BY <1>0, <2>1, <2>4 DEF DocOK, DocFields, BoundStatus
  <2>5. ASSUME NEW p \in Procs, i = job[p].inv, BindRecord(p) \/ AuditUpdateFails(p),
               records'[i].plan = job[p].doc.plan
        PROVE  Anchored(i, records[i])'
    <3>1. Anchored(i, job[p].doc)
      BY <2>5 DEF AInv, Binding, BindRecord, AuditUpdateFails
    <3> QED
      BY <1>0, <2>5, <3>1 DEF Anchored
  <2>6. ASSUME NEW p \in Procs, NEW status, BindRecord(p),
               records'[i] = [job[p].doc EXCEPT !.status = status]
        PROVE  records'[i].plan = job[p].doc.plan
    BY <1>0, <2>6 DEF DocOK, DocFields, BindRecord, Closing
  <2> QED
    BY <2>1, <2>2, <2>3, <2>4, <2>5, <2>6 DEF Writes
<1>2. ASSUME NEW q \in Procs, Binding(q)' PROVE Anchored(job[q].inv, job[q].doc)'
  <2>1. Closing(q)'
    BY <1>2 DEF Binding, Closing
  <2>2. CASE Binding(q) /\ job'[q].inv = job[q].inv /\ job'[q].doc = job[q].doc
    <3>1. Anchored(job[q].inv, job[q].doc)
      BY <2>2 DEF AInv
    <3> QED
      BY <1>0, <2>2, <3>1 DEF Anchored
  <2>3. CASE UNCHANGED world /\ Anchored(job'[q].inv, job'[q].doc)
    BY <2>3 DEF Anchored
  <2> QED
    BY <1>2, <2>1, <2>2, <2>3, ClosingStep
<1> QED
  BY <1>1, <1>2 DEF AInv
------------------------------------------------------------------------------
(* The result an executor may have left                                     *)

\* The file at the result path is kept, taken away, or written by an executor
\* that is under way; and those that are under way beside another are noted.
LEMMA ResultStep ==
  ASSUME TInv, [Next]_ivars
  PROVE  /\ UNCHANGED result \/ result' = None \/ result'.by \in Live
         /\ overlap \subseteq overlap'
         /\ \A i \in Live' : i \in Live \/ \E q \in Procs : Rechecks(q) /\ i = job'[q].inv
<1> DEFINE Here == /\ UNCHANGED result \/ result' = None \/ result'.by \in Live
                   /\ overlap \subseteq overlap'
                   /\ orphans' \subseteq Live
<1>0. orphans \subseteq Live
  BY DEF Live
<1>1. UNCHANGED ivars => Here
  BY <1>0 DEF ivars, ghosts
<1>2. MakeReadiness \/ Approve \/ MakePlan \/ Drift => Here
  BY <1>0 DEF MakeReadiness, Approve, MakePlan, Drift, ghosts
<1>3. OrphanRuns => Here
  BY <1>0 DEF OrphanRuns, Act, ghosts
<1>4. ASSUME NEW p \in Procs, Invoke(p) PROVE Here
  <2>1. CASE Rechecks(p)
    BY <1>0, <2>1 DEF Rechecks, Recheck
  <2>2. CASE Runs(p)
    <3>1. job[p].inv \in Live
      BY <2>2 DEF Runs, Live
    <3> QED
      BY <1>0, <2>2, <3>1 DEF Runs, Act, ghosts
  <2>3. CASE \/ Starts(p) \/ CannotStart(p) \/ WriteRecord(p) \/ AuditInvocation(p)
             \/ AuditInvocationFails(p) \/ AuditBlocked(p)
    BY <1>0, <2>3 DEF Starts, CannotStart, WriteRecord, AuditInvocation, AuditInvocationFails,
                      AuditBlocked, ghosts
  <2> QED
    BY <1>4, <2>1, <2>2, <2>3 DEF Invoke, Rechecks
<1>5. ASSUME NEW p \in Procs, Closeout(p) PROVE Here
  BY <1>0, <1>5 DEF Closeout, BeginCloseout, AlreadyClosed, CloseoutBlocked, CloseTask, BindRecord,
                    AuditUpdate, AuditUpdateFails, AuditCloseout, ghosts
<1>6. ASSUME NEW p \in Procs, Crash(p) PROVE Here
  BY <1>0, <1>6 DEF Crash, Live
<1>7. Here
  <2> HIDE DEF Here
  <2> QED
    BY <1>1, <1>2, <1>3, <1>4, <1>5, <1>6 DEF Next
<1>8. ASSUME NEW q \in Procs, Acting(q)' PROVE job'[q].inv \in Live \/ Rechecks(q)
  BY <1>8, InvokingStep DEF Invoking, Acting, Live
<1> QED
  BY <1>7, <1>8 DEF Live, Acting

\* There is no result at first.
LEMMA StaleInit == ASSUME Init PROVE SInv
BY DEF Init, SInv, Live, Bound, Acting, Closing, Binding

\* Of two executors that are under way the later one has noted the other.
LEMMA LivePairs ==
  ASSUME TInv, SInv, [Next]_ivars
  PROVE  \A i, j \in Live' : i = j \/ <<i, j>> \in overlap'
<1>1. ASSUME NEW q \in Procs, Rechecks(q), NEW i \in Live
      PROVE  {<<job'[q].inv, i>>, <<i, job'[q].inv>>} \subseteq overlap'
  BY <1>1 DEF Rechecks, Recheck, Goto, TInv
<1>2. ASSUME NEW p \in Procs, NEW q \in Procs, Rechecks(p), Rechecks(q) PROVE p = q
  BY <1>2, RecheckStep
<1> QED
  BY <1>1, <1>2, ResultStep DEF SInv

\* No copy of a result goes to an invocation it could not be told from.
LEMMA StaleStep == ASSUME TInv, SInv, AInv, [Next]_ivars PROVE SInv'
<1>0. /\ UNCHANGED result \/ result' = None \/ result'.by \in Live
      /\ overlap \subseteq overlap'
      /\ \A i \in DOMAIN records : DocOK(records[i])
      /\ \A p \in Procs : Closing(p) => DocOK(job[p].doc)
  BY ResultStep DEF TInv, JobOK
<1>1. \A i, res : Own(i, res) => (res # None => res.by = i \/ <<i, res.by>> \in overlap')
  BY <1>0 DEF Own
<1>2. ASSUME NEW q \in Procs, Acting(q)' PROVE Own(job[q].inv, result)'
  <2>1. CASE Rechecks(q)
    <3>1. result' = None
      BY <2>1 DEF Rechecks, Recheck, ResultAbsent
    <3> QED
      BY <3>1 DEF Own
  <2>2. CASE Acting(q) /\ job'[q].inv = job[q].inv
    <3>1. Own(job[q].inv, result) /\ job[q].inv \in Live
      BY <2>2 DEF SInv, Acting, Live
    <3>2. CASE result' = result
      BY <1>1, <2>2, <3>1, <3>2 DEF Own
    <3>3. CASE result'.by \in Live
      BY <1>0, <2>2, <3>1, <3>3 DEF Own, SInv
    <3> QED
      BY <1>0, <3>2, <3>3 DEF Own
  <2> QED
    BY <1>2, <2>1, <2>2, InvokingStep DEF Invoking
<1>4. ASSUME NEW i \in DOMAIN records'
      PROVE  /\ Own(i, records'[i].result)
             /\ records'[i].status \in BoundStatus => records'[i].result # None
  <2> DEFINE Fine == /\ Own(i, records'[i].result)
                     /\ records'[i].status \in BoundStatus => records'[i].result # None
  <2>1. Writes(i)
    BY RecordStep
  <2>2. CASE i \in DOMAIN records /\ records'[i] = records[i]
    BY <2>2 DEF SInv, Bound, BoundStatus
  <2>3. ASSUME NEW p \in Procs, i = job[p].inv, WriteRecord(p)
        PROVE  Fine
    <3>1. records'[i].status = "pending" /\ records'[i].result = result /\ Acting(p)
      BY <2>3 DEF WriteRecord, Acting
    <3> QED
      BY <2>3, <3>1 DEF SInv, BoundStatus
  <2>4. ASSUME i \in DOMAIN records,
               records'[i] = [records[i] EXCEPT !.valid = FALSE, !.status = "blocked"]
        PROVE  Fine
    BY <1>0, <2>4 DEF DocOK, DocFields, BoundStatus, SInv
  <2>5. ASSUME NEW p \in Procs, i = job[p].inv, BindRecord(p) \/ AuditUpdateFails(p),
               records'[i].result = job[p].doc.result
        PROVE  Fine
    BY <2>5 DEF SInv, Binding, Closing, BindRecord, AuditUpdateFails
  <2>6. ASSUME NEW p \in Procs, NEW status, BindRecord(p),
               records'[i] = [job[p].doc EXCEPT !.status = status]
        PROVE  records'[i].result = job[p].doc.result
    BY <1>0, <2>6 DEF DocOK, DocFields, BindRecord, Closing
  <2> QED
    BY <2>1, <2>2, <2>3, <2>4, <2>5, <2>6 DEF Writes
<1>5. ASSUME NEW q \in Procs, Closing(q)'
      PROVE  /\ Own(job'[q].inv, job'[q].doc.result)
             /\ Binding(q)' => job'[q].doc.result # None
  BY <1>5, ClosingStep DEF SInv
<1>6. \A i \in DOMAIN records' : Own(i, records[i].result)'
  BY <1>1, <1>4 DEF Own
<1>7. \A i \in Bound' : records'[i].result # None
  BY <1>4 DEF Bound, BoundStatus
<1>8. \A q \in Procs : /\ Closing(q)' => Own(job[q].inv, job[q].doc.result)'
                       /\ Binding(q)' => job'[q].doc.result # None
  BY <1>1, <1>5 DEF Own, Binding, Closing
<1> QED
  BY <1>2, <1>6, <1>7, <1>8, LivePairs DEF SInv
------------------------------------------------------------------------------
(* A binding that is lost is told of                                        *)

\* Only a closeout credits, and nothing takes back what was told.
LEMMA CreditStep ==
  ASSUME TInv, [Next]_ivars
  PROVE  /\ \A n \in DOMAIN credits' :
              \/ n \in DOMAIN credits /\ credits'[n] = credits[n]
              \/ \E p \in Procs : CloseTask(p) /\ credits'[n] = job[p].inv
         /\ told \subseteq told' /\ (crashed => crashed')
<1> DEFINE Here == credits' = credits /\ told \subseteq told' /\ (crashed => crashed')
<1>1. UNCHANGED ivars => Here
  BY DEF ivars, ghosts
<1>2. MakeReadiness \/ Approve \/ MakePlan \/ OrphanRuns \/ Drift => Here
  <2>1. MakeReadiness \/ Approve \/ MakePlan => Here
    BY DEF MakeReadiness, Approve, MakePlan, ghosts
  <2>2. OrphanRuns => Here
    BY DEF OrphanRuns, ghosts
  <2>3. Drift => Here
    BY DEF Drift, ghosts
  <2> QED
    BY <2>1, <2>2, <2>3
<1>3. ASSUME NEW p \in Procs, Invoke(p) PROVE Here
  BY <1>3 DEF Invoke, Recheck, Starts, CannotStart, Runs, WriteRecord, AuditInvocation,
              AuditInvocationFails, AuditBlocked, ghosts
<1>4. ASSUME NEW p \in Procs, Closeout(p), ~CloseTask(p) PROVE Here
  BY <1>4 DEF Closeout, BeginCloseout, AlreadyClosed, CloseoutBlocked, BindRecord, AuditUpdate,
              AuditUpdateFails, AuditCloseout, ghosts
<1>5. ASSUME NEW p \in Procs, Crash(p) PROVE Here
  BY <1>5 DEF Crash
<1>6. ASSUME NEW p \in Procs, CloseTask(p)
      PROVE  /\ \A n \in DOMAIN credits' : \/ n \in DOMAIN credits /\ credits'[n] = credits[n]
                                           \/ credits'[n] = job[p].inv
             /\ UNCHANGED <<told, crashed>>
  <2>1. /\ credits' = Append(credits, job[p].inv) /\ UNCHANGED <<told, crashed>>
        /\ credits \in Seq(Invocations) /\ job[p].inv \in Invocations
    BY <1>6 DEF CloseTask, TInv, InvocationTypeOK
  <2> QED
    BY <2>1, AppendProperties, LenProperties
<1> HIDE DEF Here
<1>7. Here \/ \E p \in Procs : CloseTask(p)
  BY <1>1, <1>2, <1>3, <1>4, <1>5 DEF Next
<1> QED
  BY <1>6, <1>7 DEF Here

\* From the credit to the record there is only the write, or a death.
LEMMA UpdateStep ==
  ASSUME TInv, [Next]_ivars, NEW q \in Procs, pc[q] = "update"
  PROVE  \/ pc'[q] = "update" /\ job'[q] = job[q]
         \/ BindRecord(q) \/ crashed'
<1> DEFINE Here == pc'[q] = "update" /\ job'[q] = job[q]
<1>0. DOMAIN pc = Procs /\ DOMAIN job = Procs
  BY DEF TInv, InvocationTypeOK
<1>1. UNCHANGED ivars => Here
  BY DEF ivars
<1>2. MakeReadiness \/ Approve \/ MakePlan \/ OrphanRuns \/ Drift => Here
  BY DEF MakeReadiness, Approve, MakePlan, OrphanRuns, Drift
<1>3. ASSUME NEW p \in Procs, Invoke(p) PROVE Here
  BY <1>0, <1>3 DEF Invoke, Recheck, Starts, CannotStart, Runs, WriteRecord, AuditInvocation,
                    AuditInvocationFails, AuditBlocked, Exit, Goto
<1>4. ASSUME NEW p \in Procs, Closeout(p) PROVE Here \/ BindRecord(q)
  <2>1. CASE BindRecord(p)
    BY <1>0, <2>1 DEF BindRecord, Goto
  <2>2. CASE ~BindRecord(p)
    BY <1>0, <1>4, <2>2 DEF Closeout, BeginCloseout, AlreadyClosed, CloseoutBlocked, CloseTask,
                            AuditUpdate, AuditUpdateFails, AuditCloseout, Exit, Goto
  <2> QED
    BY <2>1, <2>2
<1>5. ASSUME NEW p \in Procs, Crash(p) PROVE crashed'
  BY <1>5 DEF Crash
<1> HIDE DEF Here
<1>6. Here \/ BindRecord(q) \/ crashed'
  BY <1>1, <1>2, <1>3, <1>4, <1>5 DEF Next
<1> QED
  BY <1>6 DEF Here

\* A credit is still on its way to its record, bound, told of, or cut off.
LEMMA CreditedStep ==
  ASSUME TInv, FInv, AInv, LostBindingsAreTold, [Next]_ivars
  PROVE  LostBindingsAreTold'
<1> DEFINE Kind(i) == \/ i \in Bound' \/ i \in told' \/ crashed'
                      \/ \E p \in Procs : pc'[p] = "update" /\ job'[p].inv = i
<1>0. /\ told \subseteq told' /\ (crashed => crashed') /\ DOMAIN records \subseteq DOMAIN records'
      /\ \A p \in Procs : JobOK(p)
      /\ \A i \in DOMAIN records : DocOK(records[i])
  BY CreditStep, RecordStep DEF TInv
<1>1. ASSUME NEW p \in Procs, BindRecord(p) PROVE job[p].inv \in Bound'
  <2>1. PICK status \in BoundStatus : records' = Rebound(job[p].inv, job[p].doc, status)
    BY <1>0, <1>1 DEF BindRecord, JobOK
  <2>2. job[p].inv \in DOMAIN records /\ DOMAIN job[p].doc = DocFields
    BY <1>0, <1>1 DEF JobOK, Closing, DocOK, BindRecord
  <2>3. job[p].inv \in DOMAIN records' /\ records'[job[p].inv].status = status
    BY <2>1, <2>2 DEF Rebound, DocFields
  <2> QED
    BY <2>3 DEF Bound, BoundStatus
<1>2. ASSUME NEW i \in Bound PROVE i \in Bound' \/ i \in told'
  <2>1. /\ i \in DOMAIN records' /\ Writes(i) /\ i \in DOMAIN records /\ Invoked(i)
        /\ records[i].status \in BoundStatus
    BY <1>0, <1>2, RecordStep DEF Bound, BoundStatus, AInv, Anchored, Invoked
  <2>2. CASE records'[i] = records[i]
    BY <2>1, <2>2 DEF Bound, BoundStatus
  <2>3. ASSUME NEW p \in Procs, i = job[p].inv, WriteRecord(p) \/ AuditInvocationFails(p)
        PROVE  FALSE
    BY <2>1, <2>3 DEF WriteRecord, AuditInvocationFails, FInv, Invoking, Acting
  <2>4. ASSUME NEW p \in Procs, i = job[p].inv, BindRecord(p) PROVE i \in Bound'
    BY <1>1, <2>4
  <2>5. ASSUME NEW p \in Procs, i = job[p].inv, AuditUpdateFails(p) PROVE i \in told'
    BY <2>5 DEF AuditUpdateFails
  <2> QED
    BY <2>1, <2>2, <2>3, <2>4, <2>5 DEF Writes
<1>3. ASSUME NEW p \in Procs, pc[p] = "update" PROVE Kind(job[p].inv)
  BY <1>1, <1>3, UpdateStep
<1>4. ASSUME NEW p \in Procs, CloseTask(p) PROVE Kind(job[p].inv)
  <2>1. pc'[p] = "update" /\ job'[p].inv = job[p].inv
    BY <1>0, <1>4 DEF CloseTask, Goto, TInv, InvocationTypeOK, JobOK, Closing
  <2> QED
    BY <2>1
<1>5. ASSUME NEW n \in DOMAIN credits' PROVE Kind(credits'[n])
  <2>1. CASE n \in DOMAIN credits /\ credits'[n] = credits[n]
    <3>1. \/ credits[n] \in Bound \/ credits[n] \in told \/ crashed
          \/ \E p \in Procs : pc[p] = "update" /\ job[p].inv = credits[n]
      BY <2>1 DEF LostBindingsAreTold
    <3> QED
      BY <1>0, <1>2, <1>3, <2>1, <3>1
  <2>2. CASE \E p \in Procs : CloseTask(p) /\ credits'[n] = job[p].inv
    BY <1>4, <2>2
  <2> QED
    BY <1>5, <2>1, <2>2, CreditStep
<1>6. \A n \in DOMAIN credits' :
        \/ credits'[n] \in Bound' \/ credits'[n] \in told' \/ crashed'
        \/ \E p \in Procs : pc'[p] = "update" /\ job'[p].inv = credits'[n]
  BY <1>5
<1> QED
  BY <1>6 DEF LostBindingsAreTold

------------------------------------------------------------------------------
(* The theorems                                                             *)

\* The invariant holds throughout.
LEMMA Invariance == Spec => []IInv
<1>1. Init => IInv
  <2>1. Init => LostBindingsAreTold
    BY DEF Init, LostBindingsAreTold
  <2> QED
    BY <2>1, TypeInit, FreshInit, AnchorInit, StaleInit DEF IInv
<1>2. IInv /\ [Next]_ivars => IInv'
  BY TypeStep, FreshStep, AnchorStep, StaleStep, CreditedStep DEF IInv
<1> QED
  BY <1>1, <1>2, PTL DEF Spec

\* The records, the processes and what is kept of them always have their types
\* (executor_invocation.py, cli.py).
THEOREM InvocationTypes == Spec => []InvocationTypeOK
<1>1. IInv => InvocationTypeOK
  BY DEF IInv, TInv
<1> QED
  BY <1>1, Invariance, PTL

\* Of all records made from one approval at most one is ever bound to the
\* epoch, however many commands run at once and whatever fails or dies
\* (_closeout_real_invocation_audit_blockers).
THEOREM ApprovalBindsOnce == Spec => []OneBoundPerApproval
<1>1. IInv => OneBoundPerApproval
  BY DEF IInv, AInv, Anchored, OneBoundPerApproval
<1> QED
  BY <1>1, Invariance, PTL

\* A bound record holds the result of its own executor, or of one that was
\* under way beside it (executor_result_stale in invoke_real_executor).
THEOREM ResultIsItsOwn == Spec => []NoStaleResult
<1>1. IInv => NoStaleResult
  BY DEF IInv, SInv, Own, Bound, NoStaleResult
<1> QED
  BY <1>1, Invariance, PTL

\* An invocation whose result ended or advanced the epoch has a record that
\* says so, or will, unless a command said otherwise or one has died
\* (closeout_executor_result_command).
THEOREM CreditIsBoundOrTold == Spec => []LostBindingsAreTold
<1>1. IInv => LostBindingsAreTold
  BY DEF IInv
<1> QED
  BY <1>1, Invariance, PTL
===============================================================================
