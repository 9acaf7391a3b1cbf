-------------------------- MODULE MCEpochLifecycle --------------------------
(***************************************************************************)
(* A small instance of EpochLifecycle: two commands in flight, two epochs. *)
(***************************************************************************)
EXTENDS EpochLifecycle, TLC

CONSTANTS p1, p2, e1, e2, t1, t2, r1, r2

MCProcs == {p1, p2}
MCEpochs == {e1, e2}
MCOneEpoch == {e1}
MCTasks == {t1, t2}
\* Two results for two tasks; and, for the unlocked races, one of each kind.
MCRuns == {r1, r2}
MCRunTask == r1 :> t1 @@ r2 :> t2
BothSucceed == [r \in MCRuns |-> "succeeded"]
MCOneRun == {r1}
MCItsTask == r1 :> t1
ItSucceeds == r1 :> "succeeded"
\* Two results for one task, of which one reports a violation.
MCTheTask == {t1}
MCTaskOfBoth == r1 :> t1 @@ r2 :> t1
OneStopped  == r1 :> "succeeded" @@ r2 :> "stopped"
OneViolates == r1 :> "succeeded" @@ r2 :> "violation"

\* One candidate worth electing; a self-check with and without a green snapshot.
Candidate == [id |-> "next", score |-> 50, kind |-> "execution", unc |-> "low",
              fanOutHigh |-> FALSE, xl |-> FALSE, selfEvo |-> FALSE, excludes |-> {},
              proposal |-> FALSE, needsAllow |-> FALSE, allowed |-> FALSE,
              executable |-> "unset"]
Req == [cands |-> <<Candidate>>, argUnc |-> "low", runUnc |-> "unset", growth |-> "low",
        runConf |-> "unset", health |-> "good", argMaxTasks |-> 3]
MCAsks == {[req |-> Req, snap |-> [conf |-> "high", ci |-> "green"]]}
MCPolicy == [maxTasks |-> 2, maxDiscovery |-> 1, maxEpochs |-> 1, recursiveDiscovery |-> FALSE,
             selfEvolution |-> "propose_only",
             nextRequires |-> "green_ci_or_explicit_handoff"]
MCBothTasks == {MCTasks}
MCOneTask == {{t1}}
MCBrakes == {"DRIVE", "PARK"}
Symmetry == Permutations(MCProcs) \union Permutations(MCEpochs)
=============================================================================
