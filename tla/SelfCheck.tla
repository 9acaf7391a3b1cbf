------------------------------ MODULE SelfCheck ------------------------------
(***************************************************************************)
(* The pure decisions of epoch governance (codex_cadence/epochs.py and the *)
(* self-check command of cli.py): which candidate tasks the next epoch     *)
(* elects, and whether the loop may continue into it.                      *)
(*                                                                         *)
(* A candidate is a record of the fields these functions read:             *)
(*   id, score                                                             *)
(*   kind        "execution" or "discovery" (task_type)                    *)
(*   unc         its uncertainty, or "unset"                               *)
(*   fanOutHigh  dependency_fan_out = "high"                               *)
(*   xl          bucket = "XL"                                             *)
(*   selfEvo     "self_evolution" is one of its drivers                    *)
(*   excludes    ids of relationships.mutually_exclusive_with              *)
(*   proposal    source = "agent_proposal"                                 *)
(*   needsAllow  requires_user_allowance is true                           *)
(*   allowed     allowance = "elect"                                       *)
(*   executable  "yes", "no" or "unset"                                    *)
(*                                                                         *)
(* A policy is the record an epoch stores (model.DEFAULT_EPOCH_POLICY):    *)
(*   maxTasks, maxDiscovery, maxEpochs, recursiveDiscovery, selfEvolution, *)
(*   nextRequires.  Its max_minutes_per_epoch is abstracted to the fact    *)
(*   `late`: the epoch has run longer than that.                           *)
(***************************************************************************)
EXTENDS Integers, Sequences, FiniteSets

BrakeStatuses == {"DRIVE", "NEUTRAL", "PARK"}
Decisions == {"STOP", "CONTINUE", "HANDOFF", "ASK_APPROVAL"}

\* The ordered value tuples: a value's rank is its index, larger is worse.
ConfidenceRank  == [high |-> 0, medium |-> 1, low |-> 2]
UncertaintyRank == [low |-> 0, medium |-> 1, high |-> 2]
HealthRank      == [good |-> 0, watch |-> 1, degraded |-> 2]

\* mutant: the mildest value wins
Worst_Mildest(vals, rank, default) ==
  LET present == vals \ {"unset"}
  IN  IF present = {} THEN default
      ELSE CHOOSE v \in present : \A w \in present : rank[v] <= rank[w]

\* max_severity / conservative_signal: the worst value present, "unset" being
\* the value a caller left out.
Worst(vals, rank, default) ==
  LET present == vals \ {"unset"}
  IN  IF present = {} THEN default
      ELSE CHOOSE v \in present : \A w \in present : rank[w] <= rank[v]

------------------------------------------------------------------------------
(* Election                                                                 *)

ExpansionPenalty(c) ==
  (IF c.kind = "discovery" THEN 25 ELSE 0)
  + (CASE c.unc = "medium" -> 15 [] c.unc = "high" -> 35 [] OTHER -> 0)
  + (IF c.fanOutHigh THEN 25 ELSE 0)

Electable(c) ==
  /\ c.executable # "no"
  /\ c.proposal => c.needsAllow /\ c.allowed /\ c.executable = "yes"
  /\ c.needsAllow => c.allowed /\ c.executable = "yes"

Exclusive(c, d) == d.id \in c.excludes \/ c.id \in d.excludes

ConflictsWithElected_OneWay(c, elected) ==    \* mutant: only the newcomer's list is read
  \E i \in DOMAIN elected : elected[i].id \in c.excludes
ConflictsWithElected(c, elected) ==
  \E i \in DOMAIN elected : Exclusive(c, elected[i])

\* sorted(..., reverse=True) on (score - penalty, score): larger keys first,
\* equal keys in their original order.
RanksBefore(cs, i, j) ==
  LET key(k) == cs[k].score - ExpansionPenalty(cs[k])
  IN  \/ key(i) > key(j)
      \/ key(i) = key(j) /\ cs[i].score > cs[j].score
      \/ key(i) = key(j) /\ cs[i].score = cs[j].score /\ i < j

ElectablePositions(cs) == {i \in DOMAIN cs : Electable(cs[i])}

\* The positions of the electable candidates of cs, best first.
Ranked(cs) ==
  LET ahead(i) == {j \in ElectablePositions(cs) : RanksBefore(cs, j, i)}
  IN  [r \in 1..Cardinality(ElectablePositions(cs)) |->
         CHOOSE i \in ElectablePositions(cs) : Cardinality(ahead(i)) = r - 1]

DiscoveryCount(cs) == Cardinality({i \in DOMAIN cs : cs[i].kind = "discovery"})

\* One round of the election loop.
Consider_OneTooMany(elected, c, maxTasks, maxDiscovery) ==  \* mutant: off by one
  IF \/ Len(elected) > maxTasks
     \/ ConflictsWithElected(c, elected)
     \/ c.kind = "discovery" /\ DiscoveryCount(elected) >= maxDiscovery
  THEN elected
  ELSE Append(elected, c)
Consider(elected, c, maxTasks, maxDiscovery) ==
  IF \/ Len(elected) >= maxTasks
     \/ ConflictsWithElected(c, elected)
     \/ c.kind = "discovery" /\ DiscoveryCount(elected) >= maxDiscovery
  THEN elected
  ELSE Append(elected, c)

\* What is elected when the first n of the ranked candidates were considered.
ElectedAfter(cs, maxTasks, maxDiscovery) ==
  LET elected[n \in 0..Len(Ranked(cs))] ==
        IF n = 0 THEN <<>>
        ELSE Consider(elected[n - 1], cs[Ranked(cs)[n]], maxTasks, maxDiscovery)
  IN  elected

ElectCandidates(cs, maxTasks, maxDiscovery) ==
  ElectedAfter(cs, maxTasks, maxDiscovery)[Len(Ranked(cs))]

------------------------------------------------------------------------------
(* Decision                                                                 *)

ContinuationTaskLimit(maxTasks, unc, health) ==
  IF maxTasks > 0 /\ (unc = "medium" \/ health = "watch") THEN 1 ELSE maxTasks

EffectiveUncertainty(unc, elected) ==
  Worst({unc} \union {elected[i].unc : i \in DOMAIN elected}, UncertaintyRank, unc)

\* The tests of self_check_decision in the order it makes them, each with the
\* decision it returns.  in: brake, conf, unc, health, elected, policy,
\* grounded, snapGrounded, ci, late, count.
Tests(in) ==
  LET some(P(_)) == \E i \in DOMAIN in.elected : P(in.elected[i])
      unc        == EffectiveUncertainty(in.unc, in.elected)
      policy     == in.policy
  IN <<
    [holds |-> Len(in.elected) > policy.maxTasks,
     reason |-> "task_count", decision |-> "ASK_APPROVAL"],
    [holds |-> DiscoveryCount(in.elected) > policy.maxDiscovery,
     reason |-> "discovery_count", decision |-> "ASK_APPROVAL"],
    [holds |-> in.brake # "DRIVE", reason |-> "brake", decision |-> "STOP"],
    [holds |-> in.elected # <<>> /\ ~in.grounded,
     reason |-> "ungrounded", decision |-> "ASK_APPROVAL"],
    [holds |-> in.elected # <<>> /\ ~in.snapGrounded,
     reason |-> "no_snapshot", decision |-> "ASK_APPROVAL"],
    [holds |-> in.conf = "low", reason |-> "low_confidence", decision |-> "ASK_APPROVAL"],
    [holds |-> unc = "high", reason |-> "high_uncertainty", decision |-> "HANDOFF"],
    [holds |-> in.health = "degraded", reason |-> "degraded", decision |-> "HANDOFF"],
    [holds |-> in.elected = <<>>, reason |-> "nothing_elected", decision |-> "STOP"],
    [holds |-> in.late, reason |-> "too_long", decision |-> "HANDOFF"],
    [holds |-> Len(in.elected) > ContinuationTaskLimit(policy.maxTasks, unc, in.health),
     reason |-> "task_limit", decision |-> "ASK_APPROVAL"],
    [holds |-> policy.nextRequires = "green_ci_or_explicit_handoff" /\ in.ci # "green",
     reason |-> "ci_not_green", decision |-> "HANDOFF"],
    [holds |-> in.count >= policy.maxEpochs,
     reason |-> "epoch_budget", decision |-> "ASK_APPROVAL"],
    [holds |-> some(LAMBDA c : c.kind = "discovery") /\ ~policy.recursiveDiscovery,
     reason |-> "recursive_discovery", decision |-> "ASK_APPROVAL"],
    [holds |-> some(LAMBDA c : c.kind = "execution" /\ c.selfEvo),
     reason |-> "self_evolution", decision |-> "ASK_APPROVAL"],
    [holds |-> policy.selfEvolution = "disabled" /\ some(LAMBDA c : c.selfEvo),
     reason |-> "self_evolution_disabled", decision |-> "ASK_APPROVAL"],
    [holds |-> some(LAMBDA c : c.xl), reason |-> "xl_task", decision |-> "ASK_APPROVAL"],
    [holds |-> TRUE, reason |-> "passed", decision |-> "CONTINUE"] >>

Verdict(in) ==
  LET tests == Tests(in)
  IN  tests[CHOOSE i \in DOMAIN tests :
              tests[i].holds /\ \A j \in 1..(i - 1) : ~tests[j].holds]

SelfCheckDecision(in) == Verdict(in).decision

------------------------------------------------------------------------------
(* The pure part of the self-check command on an active epoch: what it      *)
(* elects and decides.  req, the request: cands, argUnc, runUnc, growth,    *)
(* runConf, health, argMaxTasks; snap, the current snapshot or NoSnap;      *)
(* baseConf, the confidence of the epoch's snapshot_before.                 *)

NoSnap == [conf |-> "unset", ci |-> "unset"]

SelfCheckPayload(brake, req, snap, baseConf, policy, late, count) ==
  LET unc     == Worst({req.argUnc, req.runUnc, req.growth}
                       \union {req.cands[i].unc : i \in DOMAIN req.cands},
                       UncertaintyRank, "low")
      current == IF snap.conf # "unset" THEN snap.conf ELSE baseConf
      asked   == IF req.argMaxTasks < policy.maxTasks THEN req.argMaxTasks
                                                      ELSE policy.maxTasks
      limit   == ContinuationTaskLimit(asked, unc, req.health)
      in == [brake        |-> brake,
             conf         |-> Worst({current, req.runConf}, ConfidenceRank, "high"),
             unc          |-> unc,
             health       |-> req.health,
             elected      |-> ElectCandidates(req.cands, limit, policy.maxDiscovery),
             policy       |-> policy,
             grounded     |-> TRUE,
             snapGrounded |-> snap # NoSnap,
             ci           |-> snap.ci,
             late         |-> late,
             count        |-> count]
  IN  [in |-> in, reason |-> Verdict(in).reason, decision |-> SelfCheckDecision(in)]
==============================================================================
