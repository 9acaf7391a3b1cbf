-------------------------- MODULE SelfCheckRequests --------------------------
(***************************************************************************)
(* What docs/protocol.md promises of the decisions of SelfCheck: `case` is *)
(* the request put to the self-check command with everything the command   *)
(* reads beside it, and one step puts it.                                  *)
(***************************************************************************)
EXTENDS SelfCheck

CONSTANT Cases  \* the requests that may be put

Uncertainties == DOMAIN UncertaintyRank

\* validate_candidate lets a candidate pass only with these values.  A float
\* score is an integer here; only the order of scores is read.
IsCandidate(c) ==
  /\ c.score \in Int
  /\ c.kind \in {"execution", "discovery"}
  /\ c.unc \in Uncertainties \union {"unset"}
  /\ c.xl \in BOOLEAN /\ c.selfEvo \in BOOLEAN

\* policy_limit and the checks at the head of self_check_decision.
IsPolicy(p) ==
  /\ p.maxTasks \in Nat /\ p.maxDiscovery \in Nat /\ p.maxEpochs \in Nat
  /\ p.recursiveDiscovery \in BOOLEAN
  /\ p.selfEvolution \in {"propose_only", "disabled"}
  /\ p.nextRequires \in {"green_ci_or_explicit_handoff", "none"}

\* parse_candidates_file, the choices of the argument parser and the signals of
\* discover-candidates, which lists no candidate twice.
IsRequest(req) ==
  /\ Len(req.cands) \in Nat /\ DOMAIN req.cands = 1..Len(req.cands)
  /\ \A i \in DOMAIN req.cands : IsCandidate(req.cands[i])
  /\ \A i, j \in DOMAIN req.cands : i # j => req.cands[i] # req.cands[j]
  /\ req.argUnc \in Uncertainties /\ req.growth \in Uncertainties
  /\ req.runUnc \in Uncertainties \union {"unset"}
  /\ req.runConf \in DOMAIN ConfidenceRank \union {"unset"}
  /\ req.health \in DOMAIN HealthRank
  /\ req.argMaxTasks \in Nat

\* A snapshot that was given is valid, so it has a confidence.
IsCase(c) ==
  /\ IsRequest(c.req)
  /\ IsPolicy(c.policy)
  /\ c.snap = NoSnap \/ c.snap.conf \in DOMAIN ConfidenceRank
  /\ c.base \in DOMAIN ConfidenceRank
  /\ c.late \in BOOLEAN
  /\ c.count \in Nat

NoCase == [req |-> <<>>]

ASSUME CasesAssumption == \A c \in Cases : IsCase(c)

VARIABLE case

Init == case = NoCase
Put(c) == case = NoCase /\ case' = c
Next == \E c \in Cases : Put(c)
Spec == Init /\ [][Next]_case

Payload(c) == SelfCheckPayload(c.brake, c.req, c.snap, c.base, c.policy, c.late, c.count)

------------------------------------------------------------------------------
(* The properties                                                           *)

\* CONTINUE is decided exactly when every condition docs/protocol.md lists
\* holds, stated over the raw signals: any one bad signal, of the operator, of
\* discovery or of any candidate (elected or not), is enough to withhold it.
ContinueExactlyWhenGoverned ==
  case # NoCase =>
    LET p == Payload(case)
        elected == {p.in.elected[i] : i \in DOMAIN p.in.elected}
        uncertainties == {case.req.argUnc, case.req.runUnc, case.req.growth}
                         \union {case.req.cands[i].unc : i \in DOMAIN case.req.cands}
    IN  (p.decision = "CONTINUE") <=>
          /\ case.brake = "DRIVE"
          /\ case.snap # NoSnap /\ "low" \notin {case.snap.conf, case.req.runConf}
          /\ "high" \notin uncertainties
          /\ case.req.health # "degraded"
          /\ ~case.late
          /\ case.count < case.policy.maxEpochs
          /\ case.policy.nextRequires = "none" \/ case.snap.ci = "green"
          /\ elected # {}
          /\ \A c \in elected :
               /\ ~c.xl
               /\ c.kind = "discovery" => case.policy.recursiveDiscovery
               /\ c.selfEvo => c.kind # "execution" /\ case.policy.selfEvolution # "disabled"

\* The election is the greedy one: what it elects is electable, compatible and
\* within the caps, and whatever electable candidate it passes over is refused
\* by candidates that rank before it - never by ones that rank after.
ElectionJustified ==
  case # NoCase =>
    LET in      == Payload(case).in
        cs      == case.req.cands
        chosen  == {i \in DOMAIN cs : \E k \in DOMAIN in.elected : in.elected[k] = cs[i]}
        asked   == IF case.req.argMaxTasks < case.policy.maxTasks
                   THEN case.req.argMaxTasks ELSE case.policy.maxTasks
        limit   == ContinuationTaskLimit(asked, in.unc, in.health)
        before(i) == {j \in chosen : RanksBefore(cs, j, i)}
    IN  /\ Cardinality(chosen) = Len(in.elected) /\ Len(in.elected) <= limit
        /\ \A i \in chosen : Electable(cs[i])
        /\ \A i, j \in chosen : i # j => ~Exclusive(cs[i], cs[j])
        /\ \A i \in DOMAIN cs \ chosen :
             \/ ~Electable(cs[i])
             \/ Cardinality(before(i)) >= limit
             \/ \E j \in before(i) : Exclusive(cs[i], cs[j])
             \/ /\ cs[i].kind = "discovery"
                /\ Cardinality({j \in before(i) : cs[j].kind = "discovery"})
                     >= case.policy.maxDiscovery

\* An election of the command never asks for approval merely because of its own
\* size: the caps it elects under are at least as tight as the ones it is then
\* judged by, although the two are computed from different uncertainties.
ElectionFitsItsOwnCheck ==
  case # NoCase =>
    Payload(case).reason \notin {"task_count", "discovery_count", "task_limit"}
==============================================================================
