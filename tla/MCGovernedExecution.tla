------------------------ MODULE MCGovernedExecution ------------------------
(***************************************************************************)
(* A small instance of GovernedExecution: a governed start or an ownership *)
(* command beside each other and beside an epoch command.                  *)
(***************************************************************************)
EXTENDS GovernedExecution, TLC

CONSTANTS p1, p2, e1, e2, t1, r1, o1, o2

MCProcs == {p1, p2}
MCEpochs == {e1, e2}
MCTasks == {t1}
MCRuns == {r1}
MCOwners == {o1, o2}
MCOneOwner == {o1}
MCOneEpoch == {e1}
MCRunTask == [r \in MCRuns |-> t1]
MCRunResult == [r \in MCRuns |-> "succeeded"]

Candidate == [id |-> "next", score |-> 50, kind |-> "execution", unc |-> "low",
              fanOutHigh |-> FALSE, xl |-> FALSE, selfEvo |-> FALSE, excludes |-> {},
              proposal |-> FALSE, needsAllow |-> FALSE, allowed |-> FALSE,
              executable |-> "unset"]
Req == [cands |-> <<Candidate>>, argUnc |-> "low", runUnc |-> "unset", growth |-> "low",
        runConf |-> "unset", health |-> "good", argMaxTasks |-> 3]
MCAsks == {[req |-> Req, snap |-> [conf |-> "high", ci |-> "green"]]}
MCPolicy == [maxTasks |-> 2, maxDiscovery |-> 1, maxEpochs |-> 1, recursiveDiscovery |-> FALSE,
             selfEvolution |-> "propose_only",
             nextRequires |-> "green_ci_or_explicit_handoff"]
MCNoTasks == {{}}
MCBrakes == {"DRIVE", "PARK"}
Symmetry == Permutations(MCProcs) \union Permutations(MCEpochs)
SymmetryOfOne == Permutations(MCProcs) \union Permutations(MCOwners)
=============================================================================
