----------------------------- MODULE MCSelfCheck -----------------------------
(***************************************************************************)
(* The bounded family of requests on which TLC checks SelfCheckRequests.   *)
(***************************************************************************)
EXTENDS SelfCheckRequests

Plain == [id |-> "a", score |-> 50, kind |-> "execution", unc |-> "low",
          fanOutHigh |-> FALSE, xl |-> FALSE, selfEvo |-> FALSE, excludes |-> {},
          proposal |-> FALSE, needsAllow |-> FALSE, allowed |-> FALSE,
          executable |-> "unset"]

\* Candidates chosen so that penalties reorder scores, exclusions are one-sided,
\* ties occur (a and t), and every gate of Electable and Tests is met.
Pool == {
  Plain,
  [Plain EXCEPT !.id = "t", !.excludes = {"b"}],
  [Plain EXCEPT !.id = "b", !.score = 60, !.unc = "medium", !.excludes = {"a"}],
  [Plain EXCEPT !.id = "d", !.score = 80, !.kind = "discovery"],
  [Plain EXCEPT !.id = "e", !.score = 75, !.kind = "discovery", !.unc = "unset",
                !.selfEvo = TRUE],
  [Plain EXCEPT !.id = "x", !.score = 70, !.xl = TRUE, !.fanOutHigh = TRUE],
  [Plain EXCEPT !.id = "s", !.score = 65, !.selfEvo = TRUE],
  [Plain EXCEPT !.id = "p", !.score = 99, !.proposal = TRUE, !.needsAllow = TRUE],
  [Plain EXCEPT !.id = "q", !.score = 40, !.proposal = TRUE, !.needsAllow = TRUE,
                !.allowed = TRUE, !.executable = "yes"],
  [Plain EXCEPT !.id = "h", !.score = 30, !.unc = "high"] }

ListsUpTo(n) ==
  UNION {{s \in [1..k -> Pool] : \A i, j \in 1..k : i # j => s[i].id # s[j].id} : k \in 0..n}

Policies == {
  [maxTasks |-> 3, maxDiscovery |-> 1, maxEpochs |-> 1, recursiveDiscovery |-> FALSE,
   selfEvolution |-> "propose_only", nextRequires |-> "green_ci_or_explicit_handoff"],
  [maxTasks |-> 2, maxDiscovery |-> 2, maxEpochs |-> 2, recursiveDiscovery |-> TRUE,
   selfEvolution |-> "disabled", nextRequires |-> "none"] }

Snaps == {NoSnap} \union [conf : {"high", "medium", "low"}, ci : {"green", "red"}]

Request(cands, unc, run, growth, conf, health, max) ==
  [cands |-> cands, argUnc |-> unc, runUnc |-> run, growth |-> growth,
   runConf |-> conf, health |-> health, argMaxTasks |-> max]

\* Every list of up to three candidates under benign signals ...
ElectionCases ==
  {[req |-> Request(cs, unc, "unset", "low", "unset", "good", max), brake |-> "DRIVE",
    snap |-> [conf |-> "high", ci |-> "green"], base |-> "high",
    policy |-> pol, late |-> FALSE, count |-> 0] :
   cs \in ListsUpTo(3), unc \in {"low", "medium"}, max \in {1, 3}, pol \in Policies}

\* ... and every combination of signals over short lists, one of the three
\* uncertainty sources at a time.
SignalCases ==
  {[req |-> Request(cs, u[1], u[2], u[3], conf, health, 3), brake |-> brake, snap |-> snap,
    base |-> "high", policy |-> pol, late |-> late, count |-> pol.maxEpochs - spare] :
   cs \in ListsUpTo(1),
   u \in {<<"low", "unset", "low">>, <<"high", "unset", "low">>, <<"low", "high", "low">>,
         <<"low", "unset", "high">>},
   conf \in {"unset", "low"}, health \in DOMAIN HealthRank, brake \in {"DRIVE", "PARK"},
   snap \in Snaps, pol \in Policies, late \in BOOLEAN, spare \in {0, 1}}

MCCases == ElectionCases \union SignalCases
==============================================================================
