------------------------ MODULE ControlledLoopProofs ------------------------
(***************************************************************************)
(* What the controlled loop accepts, for every number of extras: the       *)
(* runner's first stage rests on one version of everything, and so does a  *)
(* completed runner for each of its stages, however many of its packets    *)
(* were printed again, retried, or named from another file; what is run,   *)
(* for the first time or again, is run on one version of everything and    *)
(* approved when it is run, a retry is run once by its boundary, and who   *)
(* completes started the epoch.  As in ControlledRunProofs the shelf only  *)
(* grows, and every packet keeps the links that its command looked at:     *)
(* here each packet is set against those it names (Of), so that what it    *)
(* was found to be stays true by itself.                                   *)
(***************************************************************************)
EXTENDS MCControlledLoop, ControlledRunProofs

------------------------------------------------------------------------------
(* The shelf of the loop                                                    *)

AllKinds == Kinds \union RunnerKinds \union StageKinds \union RetryKinds

Stocked == DOMAIN shelf = AllKinds /\ \A k \in AllKinds : IsList(shelf[k])

\* Nothing on the shelf is written over.
Keeps == \A k \in AllKinds : \A v \in DOMAIN shelf[k] :
           v \in DOMAIN shelf'[k] /\ shelf'[k][v] = shelf[k][v]

LEMMA Shelved ==
  ASSUME Stocked, NEW k \in AllKinds, NEW p, shelf' = Place(k, p)
  PROVE  /\ Stocked' /\ Keeps
         /\ Len(shelf[k]) \in Nat /\ DOMAIN shelf[k] = 1 .. Len(shelf[k])
         /\ DOMAIN shelf'[k] = 1 .. Len(shelf[k]) + 1
         /\ shelf'[k][Len(shelf[k]) + 1] = p
         /\ \A j \in AllKinds \ {k} : shelf'[j] = shelf[j]
<1>1. /\ DOMAIN shelf' = AllKinds /\ shelf'[k] = Append(shelf[k], p)
      /\ \A j \in AllKinds \ {k} : shelf'[j] = shelf[j]
  BY DEF Stocked, Place
<1>2. LET s == shelf[k] t == Append(s, p) IN
      /\ IsList(t) /\ Len(s) \in Nat /\ DOMAIN s = 1 .. Len(s) /\ DOMAIN t = 1 .. Len(s) + 1
      /\ \A i \in DOMAIN s : t[i] = s[i]
      /\ t[Len(s) + 1] = p
  <2>1. IsList(shelf[k])
    BY DEF Stocked
  <2> QED
    BY <2>1, Appended
<1>3. Stocked'
  BY <1>1, <1>2 DEF Stocked
<1>4. Keeps
  BY <1>1, <1>2 DEF Keeps
<1> QED
  BY <1>1, <1>2, <1>3, <1>4

LEMMA Versioned ==
  ASSUME Stocked, NEW k \in AllKinds
  PROVE  Versions(k) \subseteq Nat \ {0}
<1>1. Len(shelf[k]) \in Nat /\ DOMAIN shelf[k] = 1 .. Len(shelf[k])
  BY DEF Stocked, IsList
<1> QED
  BY <1>1 DEF Versions

\* The packets that a packet names are there, and these they are.
Refers(p) == \A j \in DOMAIN p.has : j \in AllKinds /\ p.has[j] \in Versions(j)
Of(p) == [j \in DOMAIN p.has |-> At(j, p.has[j])]

LEMMA OfLasts ==
  ASSUME Keeps, NEW p, Refers(p)
  PROVE  Refers(p)' /\ Of(p)' = Of(p) /\ Lineage(p.has)' = Lineage(p.has)
<1>1. \A j \in DOMAIN p.has : p.has[j] \in DOMAIN shelf'[j] /\ shelf'[j][p.has[j]] = shelf[j][p.has[j]]
  BY DEF Keeps, Refers, Versions
<1> QED
  BY <1>1 DEF Refers, Of, Lineage, At, Versions

LEMMA LinesUp ==
  ASSUME NEW p, Refers(p), NEW q \in Lineage(p.has)
  PROVE  \E j \in DOMAIN p.has : q = <<j, p.has[j]>> \/ q \in Of(p)[j].line
BY DEF Lineage, Of

\* This packet and all that it rests on are among these.
Within(k, v, X) == <<k, v>> \in X /\ At(k, v).line \subseteq X

LEMMA Climbs ==
  ASSUME NEW X, NEW F, F \subseteq X, NEW p, Refers(p), p.line \subseteq Lineage(p.has) \union F,
         \A j \in DOMAIN p.has : Within(j, p.has[j], X)
  PROVE  p.line \subseteq X
BY LinesUp DEF Within, Of

\* An approval verifies: it is of that packet, and has not lapsed.
Signs1(kind, v) == [i \in {kind} |-> v]

LEMMA Verified ==
  ASSUME NEW m, NEW kind, NEW v, Verify(m, kind, v) = {}
  PROVE  m \notin lapsed /\ SignedApproval(m).target = <<kind, v>>
<1>1. SignedApproval(m).expires = 2
  BY DEF SignedApproval, SignedBy
<1>2. SignedApproval(m).target = <<kind, v>>
  BY DEF Verify, ApprovalBlockers, TargetBlockers, When
<1>3. m \notin lapsed
  BY <1>1 DEF Verify, ApprovalBlockers, PeriodBlockers, When
<1> QED
  BY <1>2, <1>3

LEMMA VerifiedOf ==
  ASSUME NEW m, NEW kind, NEW v, NEW j, DOMAIN At("sign", m).has = {j},
         At("sign", m).has = [i \in {j} |-> At("sign", m).has[i]], Verify(m, kind, v) = {}
  PROVE  j = kind /\ At("sign", m).has[kind] = v
<1>1. SignedApproval(m).target = <<j, At("sign", m).has[j]>>
  BY DEF SignedApproval, SignedBy
<1> QED
  BY <1>1, Verified

------------------------------------------------------------------------------
(* The runner: every packet against those it names                          *)

OfOne(p, of, kind) == p.ok => of["sign"].has = Signs1(kind, p.has[kind])

RunnerGives == [
  cclose |-> {}, tick |-> {"cclose"}, summary |-> {"cclose", "tick"},
  outcome |-> {"summary", "cclose", "tick"}, manifest |-> {"summary", "cclose", "tick", "outcome"},
  mapproval |-> {"manifest", "sign"}, rplan |-> {"manifest", "mapproval"}, xapproval |-> {"rplan", "sign"},
  dryrun |-> {"rplan", "xapproval"}, ready |-> {"dryrun", "rplan", "xapproval"},
  sapproval |-> {"ready", "sign"},
  started |-> {"sapproval", "ready", "dryrun", "rplan", "xapproval"},
  stage |-> {"started", "rplan", "dryrun"}]

RunnerLinks(k, h, of) ==
  /\ k = "summary" => of["tick"].has["cclose"] = h["cclose"]
  /\ k = "outcome" => \A j \in {"cclose", "tick"} : of["summary"].has[j] = h[j]
  /\ k = "manifest" =>
       /\ \A j \in {"summary", "cclose", "tick", "outcome"} : of[j].ok
       /\ \A j \in {"cclose", "tick"} : of["summary"].has[j] = h[j]
       /\ \A j \in {"cclose", "tick", "summary"} : of["outcome"].has[j] = h[j]
  /\ k = "mapproval" => of["manifest"].ok /\ of["sign"].has = Signs1("manifest", h["manifest"])
  /\ k = "rplan" =>
       of["manifest"].ok /\ of["mapproval"].ok /\ of["mapproval"].has["manifest"] = h["manifest"]
  /\ k = "xapproval" => of["rplan"].ok /\ of["sign"].has = Signs1("rplan", h["rplan"])
  /\ k = "dryrun" => of["rplan"].ok /\ of["xapproval"].ok /\ of["xapproval"].has["rplan"] = h["rplan"]
  /\ k = "ready" =>
       /\ of["dryrun"].ok
       /\ \A j \in {"rplan", "xapproval"} : of["dryrun"].has[j] = h[j]
  /\ k = "sapproval" => of["ready"].ok /\ of["sign"].has = Signs1("ready", h["ready"])
  /\ k = "started" =>
       /\ of["sapproval"].ok /\ of["ready"].ok /\ of["sapproval"].has["ready"] = h["ready"]
       /\ \A j \in {"dryrun", "rplan", "xapproval"} : of["ready"].has[j] = h[j]
  /\ k = "stage" =>
       /\ of["started"].ok /\ \A j \in {"rplan", "dryrun"} : of["started"].has[j] = h[j]

Finished == {"cclose", "tick", "summary", "outcome"}
RunnerFits(k, p, of) ==
  /\ k \in RunnerKinds
  /\ k = "sign" => \E j \in AllKinds \ {"sign"} : DOMAIN p.has = {j} /\ p.has = Signs1(j, p.has[j])
  /\ k # "sign" /\ p.ok => DOMAIN p.has = RunnerGives[k] /\ RunnerLinks(k, p.has, of)
  /\ k \in Finished => p.ok
  /\ k = "outcome" => p.epoch = 1 /\ p.next = "run_git_pr_plan"

RunnerGood(k, p) ==
  p.ok \in BOOLEAN /\ Refers(p) /\ p.line \subseteq Lineage(p.has) /\ RunnerFits(k, p, Of(p))
RunnerShelf == \A k \in AllKinds : \A v \in Versions(k) : RunnerGood(k, At(k, v))

LEMMA RunnerPrints ==
  ASSUME Stocked, RunnerShelf, NEW k \in AllKinds, NEW p, RunnerGood(k, p), shelf' = Place(k, p)
  PROVE  RunnerShelf'
<1> SUFFICES ASSUME NEW j \in AllKinds, NEW v \in DOMAIN shelf'[j], NEW q, q = shelf'[j][v]
             PROVE  RunnerGood(j, q)'
  BY DEF RunnerShelf, Versions, At
<1>1. (v \in DOMAIN shelf[j] /\ q = shelf[j][v]) \/ (j = k /\ q = p)
  BY Shelved DEF Keeps
<1>2. RunnerGood(j, q)
  BY <1>1 DEF RunnerShelf, Versions, At
<1>3. Keeps
  BY Shelved
<1>4. Refers(q) /\ Of(q)' = Of(q) /\ Lineage(q.has)' = Lineage(q.has) /\ Refers(q)'
  BY <1>2, <1>3, OfLasts DEF RunnerGood
<1> QED
  BY <1>2, <1>4 DEF RunnerGood

------------------------------------------------------------------------------
(* One runner                                                               *)

\* A packet of the runner that was accepted, and names what its kind names.
LEMMA RunnerReads ==
  ASSUME RunnerShelf, NEW k \in RunnerKinds \ {"sign"}, NEW v \in Versions(k), At(k, v).ok
  PROVE  LET p == At(k, v) IN
         /\ DOMAIN p.has = RunnerGives[k] /\ Refers(p) /\ p.line \subseteq Lineage(p.has)
         /\ RunnerLinks(k, p.has, Of(p))
BY DEF RunnerShelf, RunnerGood, RunnerFits, AllKinds

LEMMA SignReads ==
  ASSUME RunnerShelf, NEW m \in Versions("sign")
  PROVE  LET p == At("sign", m) IN
         /\ p.line \subseteq Lineage(p.has) /\ Refers(p)
         /\ \E j \in AllKinds \ {"sign"} : DOMAIN p.has = {j} /\ p.has = Signs1(j, p.has[j])
BY DEF RunnerShelf, RunnerGood, RunnerFits, AllKinds, RunnerKinds

\* What stands before it among these makes a packet stand among these.
LEMMA RunnerClimbs ==
  ASSUME RunnerShelf, NEW X, NEW k \in RunnerKinds \ {"sign"}, NEW v \in Versions(k), At(k, v).ok,
         <<k, v>> \in X, \A j \in RunnerGives[k] : Within(j, At(k, v).has[j], X)
  PROVE  Within(k, v, X)
<1>1. LET p == At(k, v) IN
      DOMAIN p.has = RunnerGives[k] /\ Refers(p) /\ p.line \subseteq Lineage(p.has)
  BY RunnerReads
<1>2. At(k, v).line \subseteq X
  BY <1>1, LinesUp DEF Within, Of
<1> QED
  BY <1>2 DEF Within

LEMMA SignClimbs ==
  ASSUME RunnerShelf, NEW X, NEW m \in Versions("sign"), <<"sign", m>> \in X,
         NEW j \in AllKinds, NEW v, At("sign", m).has = Signs1(j, v), Within(j, v, X)
  PROVE  Within("sign", m, X)
<1>1. At("sign", m).line \subseteq Lineage(At("sign", m).has) /\ Refers(At("sign", m))
  BY SignReads
<1>2. \A i \in DOMAIN At("sign", m).has : Within(i, At("sign", m).has[i], X)
  BY DEF Signs1
<1>3. At("sign", m).line \subseteq X
  BY <1>1, <1>2, LinesUp DEF Within, Of
<1> QED
  BY <1>3 DEF Within

LEMMA RunnerIsOne ==
  ASSUME Stocked, RunnerShelf
  PROVE  OneRunner
<1> SUFFICES ASSUME NEW n \in Versions("stage"), At("stage", n).ok
             PROVE  OneLine(At("stage", n))
  BY DEF OneRunner
<1>k. RunnerKinds \subseteq AllKinds /\ "sign" \in AllKinds
  BY DEF AllKinds, RunnerKinds
<1> DEFINE Ok(k, v) == v \in Versions(k) /\ At(k, v).ok
           Has(k, v) == At(k, v).has
<1>r. ASSUME NEW k \in RunnerKinds \ {"sign"}, NEW v, Ok(k, v)
      PROVE  /\ DOMAIN Has(k, v) = RunnerGives[k]
             /\ \A j \in RunnerGives[k] : Has(k, v)[j] \in Versions(j) /\ Of(At(k, v))[j] = At(j, Has(k, v)[j])
             /\ RunnerLinks(k, Has(k, v), Of(At(k, v)))
  BY <1>r, RunnerReads DEF Of, Refers
<1> HIDE DEF Ok
<1>1. PICK s : /\ Ok("started", s) /\ Has("stage", n)["started"] = s
               /\ \A j \in {"rplan", "dryrun"} : Has("started", s)[j] = Has("stage", n)[j]
  <2>1. Ok("stage", n) /\ "stage" \in RunnerKinds \ {"sign"}
    BY DEF Ok, RunnerKinds
  <2> QED
    BY <2>1, <1>r DEF RunnerLinks, RunnerGives, Ok
<1>2. PICK r, a : /\ Ok("ready", r) /\ Has("started", s)["ready"] = r
                  /\ Ok("sapproval", a) /\ Has("started", s)["sapproval"] = a
                  /\ Has("sapproval", a)["ready"] = r
                  /\ \A j \in {"dryrun", "rplan", "xapproval"} : Has("ready", r)[j] = Has("started", s)[j]
  <2>1. "started" \in RunnerKinds \ {"sign"}
    BY DEF RunnerKinds
  <2> QED
    BY <2>1, <1>1, <1>r DEF RunnerLinks, RunnerGives, Ok
<1>3. PICK d : /\ Ok("dryrun", d) /\ Has("ready", r)["dryrun"] = d
               /\ \A j \in {"rplan", "xapproval"} : Has("dryrun", d)[j] = Has("ready", r)[j]
  <2>1. "ready" \in RunnerKinds \ {"sign"}
    BY DEF RunnerKinds
  <2> QED
    BY <2>1, <1>2, <1>r DEF RunnerLinks, RunnerGives, Ok
<1>4. PICK p, x : /\ Ok("rplan", p) /\ Has("dryrun", d)["rplan"] = p
                  /\ Ok("xapproval", x) /\ Has("dryrun", d)["xapproval"] = x
                  /\ Has("xapproval", x)["rplan"] = p
  <2>1. "dryrun" \in RunnerKinds \ {"sign"}
    BY DEF RunnerKinds
  <2> QED
    BY <2>1, <1>3, <1>r DEF RunnerLinks, RunnerGives, Ok
<1>5. PICK m, b : /\ Ok("manifest", m) /\ Has("rplan", p)["manifest"] = m
                  /\ Ok("mapproval", b) /\ Has("rplan", p)["mapproval"] = b
                  /\ Has("mapproval", b)["manifest"] = m
  <2>1. "rplan" \in RunnerKinds \ {"sign"}
    BY DEF RunnerKinds
  <2> QED
    BY <2>1, <1>4, <1>r DEF RunnerLinks, RunnerGives, Ok
<1>6. PICK o, u, t, c : /\ Ok("outcome", o) /\ Has("manifest", m)["outcome"] = o
                        /\ Ok("summary", u) /\ Has("manifest", m)["summary"] = u
                        /\ Ok("tick", t) /\ Has("manifest", m)["tick"] = t
                        /\ Ok("cclose", c) /\ Has("manifest", m)["cclose"] = c
                        /\ Has("summary", u)["cclose"] = c /\ Has("summary", u)["tick"] = t
                        /\ Has("outcome", o)["cclose"] = c /\ Has("outcome", o)["tick"] = t
                        /\ Has("outcome", o)["summary"] = u
  <2>1. "manifest" \in RunnerKinds \ {"sign"}
    BY DEF RunnerKinds
  <2> QED
    BY <2>1, <1>5, <1>r DEF RunnerLinks, RunnerGives, Ok
<1>7. Has("tick", t)["cclose"] = c
  <2>1. "summary" \in RunnerKinds \ {"sign"}
    BY DEF RunnerKinds
  <2> QED
    BY <2>1, <1>6, <1>r DEF RunnerLinks, RunnerGives, Ok
<1> DEFINE of == [cclose |-> c, tick |-> t, summary |-> u, outcome |-> o, manifest |-> m, mapproval |-> b,
                  rplan |-> p, xapproval |-> x, dryrun |-> d, ready |-> r, sapproval |-> a, started |-> s]
           X == {<<k, of[k]>> : k \in DOMAIN of} \union {<<"sign", i>> : i \in Versions("sign")}
<1>8. /\ <<"cclose", c>> \in X /\ <<"tick", t>> \in X /\ <<"summary", u>> \in X /\ <<"outcome", o>> \in X
      /\ <<"manifest", m>> \in X /\ <<"mapproval", b>> \in X /\ <<"rplan", p>> \in X
      /\ <<"xapproval", x>> \in X /\ <<"dryrun", d>> \in X /\ <<"ready", r>> \in X
      /\ <<"sapproval", a>> \in X /\ <<"started", s>> \in X
      /\ \A i \in Versions("sign") : <<"sign", i>> \in X
  OBVIOUS
<1>9. \A i, j \in X : i[1] = j[1] /\ i[1] # "sign" => i = j
  OBVIOUS
<1> HIDE DEF X, of
<1>c. ASSUME NEW k \in RunnerKinds \ {"sign"}, NEW v, Ok(k, v), <<k, v>> \in X,
             \A j \in RunnerGives[k] : Within(j, Has(k, v)[j], X)
      PROVE  Within(k, v, X)
  BY <1>c, RunnerClimbs DEF Ok
<1>g. ASSUME NEW k \in {"mapproval", "xapproval", "sapproval"}, NEW v, Ok(k, v), NEW j \in AllKinds,
             "sign" \in RunnerGives[k],
             Has("sign", Has(k, v)["sign"]) = Signs1(j, Has(k, v)[j]), Within(j, Has(k, v)[j], X)
      PROVE  Within("sign", Has(k, v)["sign"], X)
  <2>1. Has(k, v)["sign"] \in Versions("sign")
    BY <1>g, <1>r DEF RunnerKinds
  <2> QED
    BY <2>1, <1>g, <1>8, SignClimbs
<1>11. Within("cclose", c, X) /\ Within("tick", t, X) /\ Within("summary", u, X)
  BY <1>6, <1>7, <1>8, <1>c DEF RunnerGives, RunnerKinds
<1>12. Within("outcome", o, X) /\ Within("manifest", m, X)
  BY <1>5, <1>6, <1>8, <1>11, <1>c DEF RunnerGives, RunnerKinds
<1>13. Has("sign", Has("mapproval", b)["sign"]) = Signs1("manifest", m)
  BY <1>5, <1>r DEF RunnerLinks, RunnerGives, RunnerKinds
<1>14. Within("mapproval", b, X)
  BY <1>5, <1>8, <1>12, <1>13, <1>c, <1>g, <1>k DEF RunnerGives, RunnerKinds
<1>15. Within("rplan", p, X)
  BY <1>4, <1>5, <1>8, <1>12, <1>14, <1>c DEF RunnerGives, RunnerKinds
<1>16. Has("sign", Has("xapproval", x)["sign"]) = Signs1("rplan", p)
  BY <1>4, <1>r DEF RunnerLinks, RunnerGives, RunnerKinds
<1>17. Within("xapproval", x, X)
  BY <1>4, <1>8, <1>15, <1>16, <1>c, <1>g, <1>k DEF RunnerGives, RunnerKinds
<1>18. Within("dryrun", d, X)
  BY <1>3, <1>4, <1>8, <1>15, <1>17, <1>c DEF RunnerGives, RunnerKinds
<1>19. Within("ready", r, X)
  BY <1>2, <1>3, <1>4, <1>8, <1>15, <1>17, <1>18, <1>c DEF RunnerGives, RunnerKinds
<1>20. Has("sign", Has("sapproval", a)["sign"]) = Signs1("ready", r)
  BY <1>2, <1>r DEF RunnerLinks, RunnerGives, RunnerKinds
<1>21. Within("sapproval", a, X)
  BY <1>2, <1>8, <1>19, <1>20, <1>c, <1>g, <1>k DEF RunnerGives, RunnerKinds
<1>22. Within("started", s, X)
  BY <1>1, <1>2, <1>3, <1>4, <1>8, <1>15, <1>17, <1>18, <1>19, <1>21, <1>c DEF RunnerGives, RunnerKinds
<1>23. At("stage", n).line \subseteq X
  <2>1. Ok("stage", n) /\ "stage" \in RunnerKinds \ {"sign"} /\ RunnerGives["stage"] = {"started", "rplan", "dryrun"}
    BY DEF Ok, RunnerKinds, RunnerGives
  <2>2. /\ DOMAIN At("stage", n).has = {"started", "rplan", "dryrun"} /\ Refers(At("stage", n))
        /\ At("stage", n).line \subseteq Lineage(At("stage", n).has)
    BY <2>1, RunnerReads DEF Ok
  <2>3. /\ Has("stage", n)["started"] = s /\ Has("stage", n)["rplan"] = p /\ Has("stage", n)["dryrun"] = d
    BY <1>1, <1>2, <1>3, <1>4
  <2> QED
    BY <2>2, <2>3, <1>15, <1>18, <1>22, LinesUp DEF Within, Of
<1> QED
  BY <1>9, <1>23 DEF OneLine

------------------------------------------------------------------------------
(* The runner's commands keep it so                                         *)

LEMMA IssuesInBound ==
  ASSUME NEW k, Counts(k), extra \in 0 .. MaxExtra
  PROVE  extra' \in 0 .. MaxExtra
BY CountsInBound

\* What is printed is good, and is all that is printed.
RunnerStep == Stocked' /\ RunnerShelf' /\ Keeps /\ extra' \in 0 .. MaxExtra

LEMMA RunnerIssues ==
  ASSUME Stocked, RunnerShelf, extra \in 0 .. MaxExtra, NEW k \in AllKinds, NEW p, Issue(k, p), RunnerGood(k, p)
  PROVE  RunnerStep
<1>1. shelf' = Place(k, p) /\ Counts(k)
  BY DEF Issue
<1> QED
  BY <1>1, Shelved, RunnerPrints, IssuesInBound DEF RunnerStep

LEMMA RunnerAccepts ==
  ASSUME NEW k \in RunnerKinds \ {"sign"}, NEW next, NEW has, NEW epoch, NEW status,
         DOMAIN has = RunnerGives[k], \A j \in DOMAIN has : j \in AllKinds /\ has[j] \in Versions(j),
         \A of : of = [j \in DOMAIN has |-> At(j, has[j])] => RunnerLinks(k, has, of),
         k = "outcome" => epoch = 1 /\ next = "run_git_pr_plan"
  PROVE  RunnerGood(k, Accepted(next, has, epoch, status))
<1> DEFINE p == Accepted(next, has, epoch, status)
<1>1. p.ok = TRUE /\ p.has = has /\ p.epoch = epoch /\ p.next = next /\ p.line = Lineage(has)
  BY DEF Accepted
<1> HIDE DEF p
<1>2. Of(p) = [j \in DOMAIN has |-> At(j, has[j])] /\ Refers(p)
  BY <1>1 DEF Of, Refers
<1>3. RunnerFits(k, p, Of(p))
  BY <1>1, <1>2 DEF RunnerFits
<1> QED
  BY <1>1, <1>2, <1>3 DEF RunnerGood, p

LEMMA RunnerReplies ==
  ASSUME Stocked, RunnerShelf, extra \in 0 .. MaxExtra,
         NEW k \in (RunnerKinds \ Finished) \ {"sign"},
         NEW codes, NEW accepted, NEW table, NEW other, Reply(k, codes, accepted, table, other),
         codes = {} => RunnerGood(k, accepted)
  PROVE  RunnerStep
<1>1. CASE codes = {}
  BY <1>1, RunnerIssues DEF Reply, AllKinds
<1>2. CASE codes # {}
  <2>1. PICK r : r = Recommend(codes, "", table, other)
    OBVIOUS
  <2>2. Issue(k, Blocked(r))
    BY <1>2, <2>1 DEF Reply
  <2>3. RunnerGood(k, Blocked(r))
    BY DEF RunnerGood, Blocked, RunnerFits, Refers, Of, Finished
  <2> QED
    BY <2>2, <2>3, RunnerIssues DEF AllKinds
<1> QED
  BY <1>1, <1>2

LEMMA WhenNot ==
  ASSUME NEW c, NEW code, When(c, code) = {}
  PROVE  ~c
BY DEF When

LEMMA FinishKeeps ==
  ASSUME Stocked, RunnerShelf, extra \in 0 .. MaxExtra, Finish
  PROVE  RunnerStep
<1>k. Finished \subseteq RunnerKinds \ {"sign"} /\ Finished \subseteq AllKinds
  BY DEF RunnerKinds, AllKinds, Finished
<1>g. ASSUME NEW k \in Finished, NEW v \in Versions(k)
      PROVE  \A j \in RunnerGives[k] : j \in AllKinds /\ At(k, v).has[j] \in Versions(j)
  <2>1. At(k, v).ok
    BY <1>k DEF RunnerShelf, RunnerGood, RunnerFits
  <2> QED
    BY <1>k, <2>1, RunnerReads DEF Refers
<1>1. CASE Issue("cclose", Accepted("controlled_loop_tick", <<>>, 0, "completed"))
  <2>1. PICK has : has = <<>> /\ DOMAIN has = {}
    OBVIOUS
  <2>2. RunnerGood("cclose", Accepted("controlled_loop_tick", has, 0, "completed"))
    BY <1>k, <2>1, RunnerAccepts DEF Finished, RunnerGives, RunnerLinks
  <2> QED
    BY <1>1, <1>k, <2>1, <2>2, RunnerIssues DEF Finished
<1>2. ASSUME NEW c \in Versions("cclose"),
             Issue("tick", Accepted("controlled_tick_complete", [cclose |-> c], 0, "completed"))
      PROVE  RunnerStep
  <2> DEFINE has == [cclose |-> c]
  <2>1. DOMAIN has = {"cclose"} /\ has["cclose"] = c
    OBVIOUS
  <2> HIDE DEF has
  <2>2. RunnerGood("tick", Accepted("controlled_tick_complete", has, 0, "completed"))
    BY <1>k, <2>1, RunnerAccepts DEF Finished, RunnerGives, RunnerLinks
  <2> QED
    BY <1>2, <1>k, <2>1, <2>2, RunnerIssues DEF Finished, has
<1>3. ASSUME NEW t \in Versions("tick"),
             Issue("summary", Accepted("review_controlled_loop_run",
                                       [cclose |-> At("tick", t).has["cclose"], tick |-> t], 0, "completed"))
      PROVE  RunnerStep
  <2>1. PICK c \in Versions("cclose") : c = At("tick", t).has["cclose"]
    BY <1>g DEF Finished, RunnerGives
  <2> DEFINE has == [cclose |-> c, tick |-> t]
  <2>2. DOMAIN has = {"cclose", "tick"} /\ has["cclose"] = c /\ has["tick"] = t
    OBVIOUS
  <2> HIDE DEF has
  <2>3. RunnerGood("summary", Accepted("review_controlled_loop_run", has, 0, "completed"))
    BY <1>k, <2>1, <2>2, RunnerAccepts DEF Finished, RunnerGives, RunnerLinks
  <2> QED
    BY <1>3, <1>k, <2>1, <2>2, <2>3, RunnerIssues DEF Finished, has
<1>4. ASSUME NEW s \in Versions("summary"),
             Issue("outcome", Accepted("run_git_pr_plan",
                                 [summary |-> s, cclose |-> At("summary", s).has["cclose"],
                                  tick |-> At("summary", s).has["tick"]], 1, "completed"))
      PROVE  RunnerStep
  <2>1. PICK c \in Versions("cclose"), t \in Versions("tick") :
          c = At("summary", s).has["cclose"] /\ t = At("summary", s).has["tick"]
    BY <1>g DEF Finished, RunnerGives
  <2> DEFINE has == [summary |-> s, cclose |-> c, tick |-> t]
  <2>2. /\ DOMAIN has = {"summary", "cclose", "tick"}
        /\ has["summary"] = s /\ has["cclose"] = c /\ has["tick"] = t
    OBVIOUS
  <2> HIDE DEF has
  <2>3. RunnerGood("outcome", Accepted("run_git_pr_plan", has, 1, "completed"))
    BY <1>k, <2>1, <2>2, RunnerAccepts DEF Finished, RunnerGives, RunnerLinks
  <2> QED
    BY <1>4, <1>k, <2>1, <2>2, <2>3, RunnerIssues DEF Finished, has
<1> QED
  BY <1>1, <1>2, <1>3, <1>4 DEF Finish, RunClosed, RunTicked, RunSummed, RunPlanned

\* The operator's file that verifies names just the packet it is verified for.
LEMMA SignedIs ==
  ASSUME RunnerShelf, NEW n \in Versions("sign"), NEW kind, NEW v, Verify(n, kind, v) = {}
  PROVE  At("sign", n).has = Signs1(kind, v)
<1>1. PICK j \in AllKinds \ {"sign"} :
        DOMAIN At("sign", n).has = {j} /\ At("sign", n).has = Signs1(j, At("sign", n).has[j])
  BY SignReads
<1>2. j = kind /\ At("sign", n).has[kind] = v
  BY <1>1, VerifiedOf DEF Signs1
<1> QED
  BY <1>1, <1>2

LEMMA ManifestPlanKeeps ==
  ASSUME Stocked, RunnerShelf, extra \in 0 .. MaxExtra,
         NEW s \in Versions("summary"), NEW c \in Versions("cclose"), NEW t \in Versions("tick"), NEW o \in Versions("outcome"), ManifestPlan(s, c, t, o)
  PROVE  RunnerStep
<1> DEFINE has == [summary |-> s, cclose |-> c, tick |-> t, outcome |-> o]
           codes == LET inputs == ManifestInputs(s, c, t, o) IN
                    IF inputs # {} THEN inputs ELSE ManifestLinks(s, c, t, o)
<1>1. Reply("manifest", codes, Accepted("review_controlled_run_manifest", has, 0, "completed"), ManifestTable, "inspect_controlled_run_manifest_blockers")
  BY DEF ManifestPlan, Says
<1>2. ASSUME codes = {}
      PROVE  RunnerGood("manifest", Accepted("review_controlled_run_manifest", has, 0, "completed"))
  <2>1. /\ At("summary", s).ok /\ At("cclose", c).ok /\ At("tick", t).ok /\ At("outcome", o).ok
        /\ At("summary", s).has["cclose"] = c /\ At("summary", s).has["tick"] = t
        /\ At("outcome", o).has["cclose"] = c /\ At("outcome", o).has["tick"] = t /\ At("outcome", o).has["summary"] = s
    BY <1>2 DEF ManifestInputs, ManifestLinks, When
  <2>2. DOMAIN has = {"summary", "cclose", "tick", "outcome"} /\ has["summary"] = s /\ has["cclose"] = c /\ has["tick"] = t /\ has["outcome"] = o
    OBVIOUS
  <2> HIDE DEF has, codes
  <2> QED
    BY <2>1, <2>2, RunnerAccepts DEF RunnerKinds, AllKinds, RunnerGives, RunnerLinks
<1> HIDE DEF has, codes
<1> QED
  BY <1>1, <1>2, RunnerReplies DEF RunnerKinds, Finished

LEMMA ManifestApprovalKeeps ==
  ASSUME Stocked, RunnerShelf, extra \in 0 .. MaxExtra,
         NEW m \in Versions("manifest"), NEW n \in Versions("sign"), ManifestApproval(m, n)
  PROVE  RunnerStep
<1> DEFINE has == [manifest |-> m, sign |-> n]
           codes == ManifestConsistent(m) \union Verify(n, "manifest", m)
<1>1. Reply("mapproval", codes, Accepted("review_controlled_run_manifest_approval", has, 0, "completed"), ManifestApprovalTable, "inspect_controlled_run_manifest_approval_blockers")
  BY DEF ManifestApproval, Says
<1>2. ASSUME codes = {}
      PROVE  RunnerGood("mapproval", Accepted("review_controlled_run_manifest_approval", has, 0, "completed"))
  <2>1. /\ At("manifest", m).ok
        /\ At("sign", n).has = Signs1("manifest", m)
    BY <1>2, SignedIs DEF ManifestConsistent, When
  <2>2. DOMAIN has = {"manifest", "sign"} /\ has["manifest"] = m /\ has["sign"] = n
    OBVIOUS
  <2> HIDE DEF has, codes
  <2> QED
    BY <2>1, <2>2, RunnerAccepts DEF RunnerKinds, AllKinds, RunnerGives, RunnerLinks
<1> HIDE DEF has, codes
<1> QED
  BY <1>1, <1>2, RunnerReplies DEF RunnerKinds, Finished

LEMMA RunnerPlanKeeps ==
  ASSUME Stocked, RunnerShelf, extra \in 0 .. MaxExtra,
         NEW m \in Versions("manifest"), NEW a \in Versions("mapproval"), RunnerPlan(m, a)
  PROVE  RunnerStep
<1> DEFINE has == [manifest |-> m, mapproval |-> a]
           codes == LET inputs == RunnerPlanInputs(m, a) IN
                    IF ~At("mapproval", a).ok THEN inputs
                    ELSE inputs \union ManifestApprovalLinks(m, a) \union ManifestOperator(m, a)
<1>1. Reply("rplan", codes, Accepted("review_controlled_runner_plan", has, 0, "completed"), RunnerPlanTable, "inspect_controlled_runner_plan_blockers")
  BY DEF RunnerPlan, Says
<1>2. ASSUME codes = {}
      PROVE  RunnerGood("rplan", Accepted("review_controlled_runner_plan", has, 0, "completed"))
  <2>1. /\ At("manifest", m).ok /\ At("mapproval", a).ok
        /\ At("mapproval", a).has["manifest"] = m
    BY <1>2 DEF RunnerPlanInputs, ManifestApprovalLinks, When
  <2>2. DOMAIN has = {"manifest", "mapproval"} /\ has["manifest"] = m /\ has["mapproval"] = a
    OBVIOUS
  <2> HIDE DEF has, codes
  <2> QED
    BY <2>1, <2>2, RunnerAccepts DEF RunnerKinds, AllKinds, RunnerGives, RunnerLinks
<1> HIDE DEF has, codes
<1> QED
  BY <1>1, <1>2, RunnerReplies DEF RunnerKinds, Finished

LEMMA ExecutionApprovalKeeps ==
  ASSUME Stocked, RunnerShelf, extra \in 0 .. MaxExtra,
         NEW p \in Versions("rplan"), NEW n \in Versions("sign"), ExecutionApproval(p, n)
  PROVE  RunnerStep
<1> DEFINE has == [rplan |-> p, sign |-> n]
           codes == RunnerPlanUsable(p) \union Verify(n, "rplan", p)
<1>1. Reply("xapproval", codes, Accepted("review_controlled_runner_execution_approval", has, 0, "completed"), ExecutionApprovalTable, "inspect_controlled_runner_execution_approval_blockers")
  BY DEF ExecutionApproval, Says
<1>2. ASSUME codes = {}
      PROVE  RunnerGood("xapproval", Accepted("review_controlled_runner_execution_approval", has, 0, "completed"))
  <2>1. /\ At("rplan", p).ok
        /\ At("sign", n).has = Signs1("rplan", p)
    BY <1>2, SignedIs DEF RunnerPlanUsable, NextStep, When
  <2>2. DOMAIN has = {"rplan", "sign"} /\ has["rplan"] = p /\ has["sign"] = n
    OBVIOUS
  <2> HIDE DEF has, codes
  <2> QED
    BY <2>1, <2>2, RunnerAccepts DEF RunnerKinds, AllKinds, RunnerGives, RunnerLinks
<1> HIDE DEF has, codes
<1> QED
  BY <1>1, <1>2, RunnerReplies DEF RunnerKinds, Finished

LEMMA DryRunKeeps ==
  ASSUME Stocked, RunnerShelf, extra \in 0 .. MaxExtra,
         NEW p \in Versions("rplan"), NEW x \in Versions("xapproval"), DryRun(p, x)
  PROVE  RunnerStep
<1> DEFINE has == [rplan |-> p, xapproval |-> x]
           codes == RunnerPlanUsable(p) \union DryRunApproval(x)
                    \union (IF At("xapproval", x).ok THEN DryRunLinks(p, x) \union DryRunOperator(p, x) ELSE {})
<1>1. Reply("dryrun", codes, Accepted("review_controlled_runner_dry_run", has, 0, "completed"), DryRunTable, "inspect_controlled_runner_dry_run_blockers")
  BY DEF DryRun, Says
<1>2. ASSUME codes = {}
      PROVE  RunnerGood("dryrun", Accepted("review_controlled_runner_dry_run", has, 0, "completed"))
  <2>1. /\ At("rplan", p).ok /\ At("xapproval", x).ok
        /\ At("xapproval", x).has["rplan"] = p
    BY <1>2 DEF RunnerPlanUsable, DryRunApproval, DryRunLinks, NextStep, When
  <2>2. DOMAIN has = {"rplan", "xapproval"} /\ has["rplan"] = p /\ has["xapproval"] = x
    OBVIOUS
  <2> HIDE DEF has, codes
  <2> QED
    BY <2>1, <2>2, RunnerAccepts DEF RunnerKinds, AllKinds, RunnerGives, RunnerLinks
<1> HIDE DEF has, codes
<1> QED
  BY <1>1, <1>2, RunnerReplies DEF RunnerKinds, Finished

LEMMA StartReadinessKeeps ==
  ASSUME Stocked, RunnerShelf, extra \in 0 .. MaxExtra,
         NEW d \in Versions("dryrun"), NEW p \in Versions("rplan"), NEW x \in Versions("xapproval"), StartReadiness(d, p, x)
  PROVE  RunnerStep
<1> DEFINE has == [dryrun |-> d, rplan |-> p, xapproval |-> x]
           codes == ReadyPlan(p) \union ReadyApproval(x, p) \union ReadyDryRun(d)
                    \union (IF At("dryrun", d).ok THEN ReadyLinks(d, p, x) ELSE {})
<1>1. Reply("ready", codes, Accepted("review_controlled_runner_start_readiness", has, 0, "ready"), StartReadinessTable, "inspect_controlled_runner_start_readiness_blockers")
  BY DEF StartReadiness, Says
<1>2. ASSUME codes = {}
      PROVE  RunnerGood("ready", Accepted("review_controlled_runner_start_readiness", has, 0, "ready"))
  <2>1. /\ At("dryrun", d).ok
        /\ At("dryrun", d).has["rplan"] = p /\ At("dryrun", d).has["xapproval"] = x
    BY <1>2 DEF ReadyDryRun, ReadyLinks, NextStep, When
  <2>2. DOMAIN has = {"dryrun", "rplan", "xapproval"} /\ has["dryrun"] = d /\ has["rplan"] = p /\ has["xapproval"] = x
    OBVIOUS
  <2> HIDE DEF has, codes
  <2> QED
    BY <2>1, <2>2, RunnerAccepts DEF RunnerKinds, AllKinds, RunnerGives, RunnerLinks
<1> HIDE DEF has, codes
<1> QED
  BY <1>1, <1>2, RunnerReplies DEF RunnerKinds, Finished

LEMMA StartApprovalKeeps ==
  ASSUME Stocked, RunnerShelf, extra \in 0 .. MaxExtra,
         NEW r \in Versions("ready"), NEW n \in Versions("sign"), StartApproval(r, n)
  PROVE  RunnerStep
<1> DEFINE has == [ready |-> r, sign |-> n]
           codes == ReadyUsable(r) \union Verify(n, "ready", r)
<1>1. Reply("sapproval", codes, Accepted("review_controlled_runner_start_approval", has, 0, "completed"), StartApprovalTable, "inspect_controlled_runner_start_approval_blockers")
  BY DEF StartApproval, Says
<1>2. ASSUME codes = {}
      PROVE  RunnerGood("sapproval", Accepted("review_controlled_runner_start_approval", has, 0, "completed"))
  <2>1. /\ At("ready", r).ok
        /\ At("sign", n).has = Signs1("ready", r)
    BY <1>2, SignedIs DEF ReadyUsable, NextStep, When
  <2>2. DOMAIN has = {"ready", "sign"} /\ has["ready"] = r /\ has["sign"] = n
    OBVIOUS
  <2> HIDE DEF has, codes
  <2> QED
    BY <2>1, <2>2, RunnerAccepts DEF RunnerKinds, AllKinds, RunnerGives, RunnerLinks
<1> HIDE DEF has, codes
<1> QED
  BY <1>1, <1>2, RunnerReplies DEF RunnerKinds, Finished

LEMMA RunnerStartKeeps ==
  ASSUME Stocked, RunnerShelf, extra \in 0 .. MaxExtra,
         NEW a \in Versions("sapproval"), NEW r \in Versions("ready"), NEW d \in Versions("dryrun"), NEW p \in Versions("rplan"), NEW x \in Versions("xapproval"), RunnerStart(a, r, d, p, x)
  PROVE  RunnerStep
<1> DEFINE has == [sapproval |-> a, ready |-> r, dryrun |-> d, rplan |-> p, xapproval |-> x]
           codes == StartApproved(a, r) \union ReadyUsable(r) \union StartReadyLinks(r, d, p, x)
                    \union ReadyPlan(p) \union StartExecutionApproved(x, p) \union StartDryRun(d, p, x)
                    \union When(torn, "controlled_runner_start_audit_append_failed")
<1>1. Reply("started", codes, Accepted("review_controlled_runner_start", has, 0, "started"), RunnerStartTable, "inspect_controlled_runner_start_blockers")
  BY DEF RunnerStart
<1>2. ASSUME codes = {}
      PROVE  RunnerGood("started", Accepted("review_controlled_runner_start", has, 0, "started"))
  <2>1. /\ At("sapproval", a).ok /\ At("ready", r).ok /\ At("sapproval", a).has["ready"] = r
        /\ At("ready", r).has["dryrun"] = d /\ At("ready", r).has["rplan"] = p /\ At("ready", r).has["xapproval"] = x
    BY <1>2 DEF StartApproved, ReadyUsable, StartReadyLinks, NextStep, When
  <2>2. DOMAIN has = {"sapproval", "ready", "dryrun", "rplan", "xapproval"} /\ has["sapproval"] = a /\ has["ready"] = r /\ has["dryrun"] = d /\ has["rplan"] = p /\ has["xapproval"] = x
    OBVIOUS
  <2> HIDE DEF has, codes
  <2> QED
    BY <2>1, <2>2, RunnerAccepts DEF RunnerKinds, AllKinds, RunnerGives, RunnerLinks
<1> HIDE DEF has, codes
<1> QED
  BY <1>1, <1>2, RunnerReplies DEF RunnerKinds, Finished

LEMMA NextStageKeeps ==
  ASSUME Stocked, RunnerShelf, extra \in 0 .. MaxExtra,
         NEW s \in Versions("started"), NEW p \in Versions("rplan"), NEW d \in Versions("dryrun"), NextStage(s, p, d)
  PROVE  RunnerStep
<1> DEFINE has == [started |-> s, rplan |-> p, dryrun |-> d]
           codes == NextStageChain(s, p, d)
<1>1. Reply("stage", codes, Accepted("review_controlled_runner_next_stage", has, 1, "selected"), NextStageTable, "inspect_controlled_runner_next_stage_blockers")
  BY DEF NextStage, Says
<1>2. ASSUME codes = {}
      PROVE  RunnerGood("stage", Accepted("review_controlled_runner_next_stage", has, 1, "selected"))
  <2>1. /\ At("started", s).ok
        /\ At("started", s).has["rplan"] = p /\ At("started", s).has["dryrun"] = d
    BY <1>2 DEF NextStageChain, NextStageLinks, NextStep, When
  <2>2. DOMAIN has = {"started", "rplan", "dryrun"} /\ has["started"] = s /\ has["rplan"] = p /\ has["dryrun"] = d
    OBVIOUS
  <2> HIDE DEF has, codes
  <2> QED
    BY <2>1, <2>2, RunnerAccepts DEF RunnerKinds, AllKinds, RunnerGives, RunnerLinks
<1> HIDE DEF has, codes
<1> QED
  BY <1>1, <1>2, RunnerReplies DEF RunnerKinds, Finished

LEMMA SignInBound ==
  ASSUME extra \in 0 .. MaxExtra, NEW kind, NEW n, Sign(kind, n)
  PROVE  extra' \in 0 .. MaxExtra
<1>1. PICK b \in {0, 1} : extra' = extra + b /\ extra' <= MaxExtra
  BY DEF Sign
<1> QED
  BY <1>1, ExtraAssumption

LEMMA SignKeeps ==
  ASSUME Stocked, RunnerShelf, extra \in 0 .. MaxExtra,
         NEW kind \in RunnerKinds \ {"sign"}, NEW n \in Versions(kind), Sign(kind, n)
  PROVE  RunnerStep
<1> DEFINE p == Accepted("", Signs1(kind, n), 0, "signed")
<1>1. shelf' = Place("sign", p) /\ extra' \in 0 .. MaxExtra
  <2>1. shelf' = Place("sign", p)
    BY DEF Sign, Signs1
  <2> QED
    BY <2>1, SignInBound
<1>2. p.ok = TRUE /\ p.has = Signs1(kind, n) /\ p.line = Lineage(p.has)
  BY DEF Accepted
<1> HIDE DEF p
<1>3. RunnerGood("sign", p)
  BY <1>2 DEF RunnerGood, RunnerFits, Refers, Signs1, AllKinds, RunnerKinds, Finished
<1> QED
  BY <1>1, <1>3, Shelved, RunnerPrints DEF RunnerStep, AllKinds, RunnerKinds

\* What is logged, and what has lapsed, is there.
Noted == lapsed \subseteq Versions("sign") /\ \A a \in audit : a[1] \in AllKinds /\ a[2] \in Versions(a[1])

LEMMA NotedLasts ==
  ASSUME Stocked, Noted, Keeps,
         lapsed' \subseteq lapsed \union Versions("sign"),
         \A a \in audit' \ audit : a[1] \in AllKinds /\ a[2] \in Versions(a[1])'
  PROVE  Noted'
<1>1. \A k \in AllKinds : Versions(k) \subseteq Versions(k)'
  BY DEF Keeps, Versions
<1>2. lapsed' \subseteq Versions("sign")'
  BY <1>1 DEF Noted, AllKinds, RunnerKinds
<1>3. \A a \in audit : a[1] \in AllKinds /\ a[2] \in Versions(a[1])'
  <2> SUFFICES ASSUME NEW a \in audit PROVE a[1] \in AllKinds /\ a[2] \in DOMAIN shelf'[a[1]]
    BY DEF Versions
  <2>1. a[1] \in AllKinds /\ a[2] \in DOMAIN shelf[a[1]]
    BY DEF Noted, Versions
  <2> QED
    BY <2>1 DEF Keeps
<1> QED
  BY <1>2, <1>3 DEF Noted

RunnerInv == Stocked /\ RunnerShelf /\ extra \in 0 .. MaxExtra /\ Noted

\* A start is logged with its packet, the rest not at all.
LEMMA RunnerLogs ==
  ASSUME Stocked, RunnerStep, Noted, NEW a, NEW r, NEW d, NEW p, NEW x, RunnerStart(a, r, d, p, x)
  PROVE  Noted'
<1>1. lapsed' = lapsed
  BY DEF RunnerStart
<1>2. CASE audit' = audit
  BY <1>1, <1>2, NotedLasts DEF RunnerStep
<1>3. CASE audit' # audit
  <2> DEFINE n == Len(shelf["started"]) + 1
  <2>1. PICK q : shelf' = Place("started", q)
    BY DEF RunnerStart, Reply, Issue
  <2>2. n \in Versions("started")' /\ "started" \in AllKinds
    BY <2>1, Shelved DEF Versions, AllKinds, RunnerKinds
  <2>3. audit' = audit \union {<<"started", n>>}
    BY <1>3 DEF RunnerStart, Started
  <2> HIDE DEF n
  <2> QED
    BY <1>1, <2>2, <2>3, NotedLasts DEF RunnerStep
<1> QED
  BY <1>2, <1>3

LEMMA RunnerStays ==
  ASSUME RunnerInv, shelf' = shelf, extra' \in 0 .. MaxExtra, UNCHANGED audit,
         lapsed' \subseteq lapsed \union Versions("sign")
  PROVE  RunnerInv'
<1>1. Stocked' /\ Keeps /\ RunnerShelf'
  <2>1. Stocked' /\ Keeps
    BY DEF RunnerInv, Stocked, Keeps
  <2>2. ASSUME NEW k \in AllKinds, NEW v \in DOMAIN shelf'[k], NEW q, q = shelf'[k][v]
        PROVE  RunnerGood(k, q)'
    <3>1. RunnerGood(k, q)
      BY <2>2 DEF RunnerInv, RunnerShelf, Versions, At
    <3> QED
      BY <2>1, <3>1, OfLasts DEF RunnerGood
  <2> QED
    BY <2>1, <2>2 DEF RunnerShelf, Versions, At
<1> QED
  BY <1>1, NotedLasts DEF RunnerInv

LEMMA RunnerKeepsInv ==
  ASSUME RunnerInv, RunnerNext
  PROVE  RunnerInv'
<1> USE DEF RunnerInv
<1>q. ASSUME RunnerStep, UNCHANGED <<lapsed, audit>> PROVE RunnerInv'
  BY <1>q, NotedLasts DEF RunnerStep
<1>1. CASE Finish
  BY <1>1, <1>q, FinishKeeps DEF Finish, RunClosed, RunTicked, RunSummed, RunPlanned
<1>2. CASE Lapse
  BY <1>2, RunnerStays, ExtraAssumption DEF Lapse
<1>3. CASE TearLog
  BY <1>3, RunnerStays, ExtraAssumption DEF TearLog
<1>4. CASE \E kind \in {"manifest", "rplan", "ready"} : \E n \in Versions(kind) : Sign(kind, n)
  BY <1>4, <1>q, SignKeeps DEF RunnerKinds, Sign
<1>5. CASE \E s \in Versions("summary"), c \in Versions("cclose"), t \in Versions("tick"),
              o \in Versions("outcome") : ManifestPlan(s, c, t, o)
  BY <1>5, <1>q, ManifestPlanKeeps DEF ManifestPlan, Says
<1>6. CASE \E m \in Versions("manifest"), n \in Versions("sign") : ManifestApproval(m, n)
  BY <1>6, <1>q, ManifestApprovalKeeps DEF ManifestApproval, Says
<1>7. CASE \E m \in Versions("manifest"), a \in Versions("mapproval") : RunnerPlan(m, a)
  BY <1>7, <1>q, RunnerPlanKeeps DEF RunnerPlan, Says
<1>8. CASE \E p \in Versions("rplan"), n \in Versions("sign") : ExecutionApproval(p, n)
  BY <1>8, <1>q, ExecutionApprovalKeeps DEF ExecutionApproval, Says
<1>9. CASE \E p \in Versions("rplan"), x \in Versions("xapproval") : DryRun(p, x)
  BY <1>9, <1>q, DryRunKeeps DEF DryRun, Says
<1>10. CASE \E d \in Versions("dryrun"), p \in Versions("rplan"), x \in Versions("xapproval") :
              StartReadiness(d, p, x)
  BY <1>10, <1>q, StartReadinessKeeps DEF StartReadiness, Says
<1>11. CASE \E r \in Versions("ready"), n \in Versions("sign") : StartApproval(r, n)
  BY <1>11, <1>q, StartApprovalKeeps DEF StartApproval, Says
<1>12. CASE \E a \in Versions("sapproval"), r \in Versions("ready"), d \in Versions("dryrun"),
               p \in Versions("rplan"), x \in Versions("xapproval") : RunnerStart(a, r, d, p, x)
  BY <1>12, RunnerLogs, RunnerStartKeeps DEF RunnerStep
<1>13. CASE \E s \in Versions("started"), p \in Versions("rplan"), d \in Versions("dryrun") :
              NextStage(s, p, d)
  BY <1>13, <1>q, NextStageKeeps DEF NextStage, Says
<1> QED
  BY <1>1, <1>2, <1>3, <1>4, <1>5, <1>6, <1>7, <1>8, <1>9, <1>10, <1>11, <1>12, <1>13 DEF RunnerNext

------------------------------------------------------------------------------
(* The stages: every packet against those it names                          *)

Five == {"rplan", "xapproval", "dryrun", "ready", "sapproval"}
Firsts == {<<k, 1>> : k \in Five}
Staged == Five \union {"started", "stage", "sign"} \union StageKinds \union RetryKinds
Concluded == Base \union {"souto", "close", "exec"}
ConcludedAgain == Concluded \union {"routcome", "rclose", "rexec"}

\* What a packet of each kind names, if it names any at all.
StageGives(n) == [
  stage |-> Base, bind |-> {"cont"} \union Concluded,
  xready |-> Source(n), stapproval |-> Readied(n) \union {"sign"}, bdry |-> Approved(n), exec |-> Bounded(n),
  close |-> Executed(n), souto |-> Executed(n) \union {"close"},
  retryplan |-> RetrySource(n), rapproval |-> RetrySource(n) \union {"retryplan", "sign"},
  rbdry |-> RetrySource(n) \union {"retryplan", "rapproval"}, rexec |-> RetryBounded(n),
  rclose |-> RetryExecuted(n), routcome |-> RetryExecuted(n) \union {"rclose"}]
Stages == [stage |-> {1}, bind |-> {2}, cont |-> {2}]

\* The two ways to go on, and to be done.
Going == {Concluded, ConcludedAgain}
Finishing(n) == {RetrySource(n), {"routcome"} \union RetryEnded(n)}

Shaped(k, p) ==
  \/ DOMAIN p.has = {} /\ ~p.ok
  \/ /\ p.epoch \in 1 .. Total
     /\ k \in DOMAIN Stages => p.epoch \in Stages[k]
     /\ k = "cont" => DOMAIN p.has \in Going
     /\ k = "done" => DOMAIN p.has \in Finishing(p.epoch)
     /\ k \notin {"cont", "done"} => DOMAIN p.has = StageGives(p.epoch)[k]

\* The files given agree with what the packet names.
Agrees(q, h) == \A j \in (DOMAIN q.has \intersect DOMAIN h) \ {"sign"} : q.has[j] = h[j]
Settles(q, h, n) == q.epoch = n /\ Agrees(q, h)

SelectionLinks(h, of, n) ==
  /\ n = 1 => of["stage"].ok /\ Agrees(of["stage"], Only(h, Source(1)))
  /\ n = 2 => /\ of["cont"].ok /\ of["bind"].ok
              /\ Agrees(of["cont"], Only(h, Source(2))) /\ Agrees(of["bind"], Only(h, Source(2)))
TrailLinks(h, of, n) ==
  /\ SelectionLinks(h, of, n)
  /\ \A k \in {"xready", "stapproval", "bdry", "exec"} : of[k].ok /\ Settles(of[k], h, n)
  /\ Settles(of["close"], h, n)
RetryLinks(h, of, n) ==
  /\ \A k \in {"retryplan", "rapproval", "rbdry"} : of[k].ok /\ Settles(of[k], h, n)
  /\ \A k \in {"rexec", "rclose"} : Settles(of[k], h, n)

\* What of a stage has a version of its own.
Steps == {"xready", "stapproval", "bdry", "exec", "close", "souto"}

\* The files of a process that is to be run, and those of an outcome with itself,
\* agree with one another.
OnTrail(t, n) ==
  /\ DOMAIN t \in {Bounded(n), Executed(n) \union {"close", "souto"}}
  /\ \A j \in DOMAIN t : j \in AllKinds /\ t[j] \in Versions(j)
  /\ SelectionLinks(t, [j \in DOMAIN t |-> At(j, t[j])], n)
  /\ \A k \in Steps \intersect DOMAIN t : Settles(At(k, t[k]), t, n) /\ (k # "close" => At(k, t[k]).ok)

\* So do those of a retry that is to be run, and those of a retry's outcome.
OnRetry(t, n) ==
  /\ DOMAIN t \in {RetryBounded(n), RetryExecuted(n) \union {"rclose", "routcome"}}
  /\ \A j \in DOMAIN t : j \in AllKinds /\ t[j] \in Versions(j)
  /\ \A k \in RetryKinds \intersect DOMAIN t :
       Settles(At(k, t[k]), t, n) /\ (k \notin {"rexec", "rclose"} => At(k, t[k]).ok)

Inspects == {"inspect_stage_failure", "inspect_stage_blocked"}

StageLinks(k, p, of) ==
  LET h == p.has  n == p.epoch IN
  /\ k = "stapproval" => of["sign"].has = Signs1("xready", h["xready"])
  /\ k = "souto" => /\ TrailLinks(h, of, n)
                    /\ p.status = of["close"].status /\ p.next = Decision(p.status, n)
  /\ k = "cont" => DOMAIN h = Concluded \/ of["souto"].next \in Inspects
  /\ k = "bind" => /\ of["cont"].ok /\ Agrees(of["cont"], h)
                   /\ of["souto"].ok /\ of["souto"].next = "select_next_stage" /\ Agrees(of["souto"], h)
  /\ k = "retryplan" => of["souto"].ok /\ of["souto"].next \in Inspects /\ Settles(of["souto"], h, n)
  /\ k = "rapproval" => of["sign"].has = Signs1("retryplan", h["retryplan"])
  /\ k = "routcome" => RetryLinks(h, of, n)
  /\ k = "done" =>
       IF "routcome" \in DOMAIN h
       THEN of["routcome"].ok /\ Settles(of["routcome"], h, n) /\ of["rexec"].status = "completed"
       ELSE of["souto"].ok /\ Settles(of["souto"], h, n) /\ of["exec"].status = "completed"

StageFits(k, p, of) ==
  /\ k \in Staged
  /\ k = "sign" => \E j \in AllKinds \ {"sign"} : DOMAIN p.has = {j} /\ p.has = Signs1(j, p.has[j])
  /\ k = "started" => DOMAIN p.has \subseteq Five
  /\ k \in StageKinds \union RetryKinds \union {"stage"} => Shaped(k, p)
  /\ p.ok => StageLinks(k, p, of)

\* What a packet holds besides: the task's approval, and what a retry's boundary says.
Holds(k, p) ==
  /\ k = "stapproval" /\ p.ok => p.task \in {0} \union Versions("sign")
  /\ k = "rbdry" /\ p.ok => p.file \in RetryFiles /\ p.terms \in RetryTerms

StageLined(k, p) == p.line \subseteq (IF k \in Five THEN {} ELSE Lineage(p.has)) \union Firsts

StageGood(k, p) ==
  p.ok \in BOOLEAN /\ Refers(p) /\ StageLined(k, p) /\ Holds(k, p) /\ StageFits(k, p, Of(p))
StageShelf ==
  /\ \A k \in AllKinds : \A v \in Versions(k) : StageGood(k, At(k, v))
  /\ \A k \in Five : Versions(k) = {1}

\* One file of each of these kinds.
Named(ev, K) == DOMAIN ev = K /\ \A j \in K : j \in AllKinds /\ ev[j] \in Versions(j)

------------------------------------------------------------------------------
(* ... and what the processes do                                            *)

JobFits(job) ==
  /\ job.kind \in {"exec", "rexec"} /\ job.n \in 1 .. Total
  /\ Named(job.files, StageGives(job.n)[job.kind])
  /\ IF job.kind = "exec" THEN OnTrail(job.files, job.n) ELSE OnRetry(job.files, job.n)
Jobs == \A job \in busy : JobFits(job)
Outputs == \A p \in printed : p[1] \in {"exec", "rexec"} /\ p[2] \in Versions(p[1])

\* What completed in stage 2 is what started the epoch.
Starters ==
  \A k \in {"exec", "rexec"} : \A v \in Versions(k) :
    At(k, v).status = "completed" /\ At(k, v).epoch = 2 => starter = <<k, v>>

Reserves == /\ retried = reserved /\ reserved \subseteq (1 .. Total) \X RetryFiles \X RetryTerms
            /\ there \subseteq RetryFiles

StageHolds == Stocked /\ StageShelf /\ Noted /\ Jobs /\ Outputs /\ Starters /\ Reserves
StageInv == StageHolds /\ extra \in 0 .. MaxExtra

------------------------------------------------------------------------------
(* One line of packets for every stage                                      *)

LEMMA StageReads ==
  ASSUME StageShelf, NEW k \in AllKinds, NEW v \in Versions(k)
  PROVE  LET p == At(k, v) IN
         Refers(p) /\ StageLined(k, p) /\ StageFits(k, p, Of(p)) /\ Holds(k, p) /\ p.ok \in BOOLEAN
BY DEF StageShelf, StageGood

LEMMA StagedKinds ==
  /\ Staged \subseteq AllKinds /\ Five \subseteq Staged /\ StageKinds \subseteq Staged /\ RetryKinds \subseteq Staged
  /\ {"started", "stage", "sign"} \subseteq Staged
BY DEF Staged, AllKinds, RunnerKinds, Five

LEMMA Gives ==
  ASSUME NEW n
  PROVE  /\ StageGives(n)["stage"] = Base /\ StageGives(n)["bind"] = {"cont"} \union Concluded
         /\ StageGives(n)["xready"] = Source(n) /\ StageGives(n)["stapproval"] = Readied(n) \union {"sign"}
         /\ StageGives(n)["bdry"] = Approved(n) /\ StageGives(n)["exec"] = Bounded(n)
         /\ StageGives(n)["close"] = Executed(n) /\ StageGives(n)["souto"] = Executed(n) \union {"close"}
         /\ StageGives(n)["retryplan"] = RetrySource(n)
         /\ StageGives(n)["rapproval"] = RetrySource(n) \union {"retryplan", "sign"}
         /\ StageGives(n)["rbdry"] = RetrySource(n) \union {"retryplan", "rapproval"}
         /\ StageGives(n)["rexec"] = RetryBounded(n)
         /\ StageGives(n)["rclose"] = RetryExecuted(n)
         /\ StageGives(n)["routcome"] = RetryExecuted(n) \union {"rclose"}
BY DEF StageGives

LEMMA BaseWithin ==
  ASSUME StageShelf, NEW X, Firsts \subseteq X, NEW k \in Five, NEW v \in Versions(k)
  PROVE  v = 1 /\ Within(k, v, X)
<1>1. v = 1
  BY DEF StageShelf
<1>2. At(k, v).line \subseteq Firsts
  BY StageReads, StagedKinds DEF StageLined
<1> QED
  BY <1>1, <1>2 DEF Within, Firsts

LEMMA StageClimbs ==
  ASSUME StageShelf, NEW X, Firsts \subseteq X, NEW k \in Staged, NEW v \in Versions(k), <<k, v>> \in X,
         \A j \in DOMAIN At(k, v).has : Within(j, At(k, v).has[j], X)
  PROVE  Within(k, v, X)
<1>1. Refers(At(k, v)) /\ StageLined(k, At(k, v))
  BY StageReads, StagedKinds
<1>2. At(k, v).line \subseteq X
  BY <1>1, LinesUp DEF Within, Of, StageLined
<1> QED
  BY <1>2 DEF Within

\* The runner that was started.
LEMMA StartedWithin ==
  ASSUME StageShelf, NEW X, Firsts \subseteq X, NEW s \in Versions("started"), <<"started", s>> \in X
  PROVE  Within("started", s, X)
<1>1. DOMAIN At("started", s).has \subseteq Five /\ Refers(At("started", s))
  BY StageReads, StagedKinds DEF StageFits
<1> QED
  BY <1>1, BaseWithin, StageClimbs, StagedKinds DEF Refers

LEMMA SignWithin ==
  ASSUME StageShelf, NEW X, Firsts \subseteq X, NEW m \in Versions("sign"), <<"sign", m>> \in X,
         NEW j, NEW v, At("sign", m).has = Signs1(j, v), Within(j, v, X)
  PROVE  Within("sign", m, X)
BY StageClimbs, StagedKinds DEF Signs1

\* What a packet says is this, of the files given.
LEMMA AgreesWithin ==
  ASSUME StageShelf, NEW X, Firsts \subseteq X, NEW k \in Staged, NEW v \in Versions(k), <<k, v>> \in X,
         NEW h, Agrees(At(k, v), h), DOMAIN At(k, v).has \subseteq DOMAIN h, "sign" \notin DOMAIN At(k, v).has,
         \A j \in DOMAIN At(k, v).has : Within(j, h[j], X)
  PROVE  Within(k, v, X)
BY StageClimbs DEF Agrees

LEMMA OutcomeReads ==
  ASSUME StageShelf, NEW o \in Versions("souto"), At("souto", o).ok
  PROVE  LET p == At("souto", o)  n == At("souto", o).epoch IN
         /\ n \in 1 .. Total /\ DOMAIN p.has = Executed(n) \union {"close"}
         /\ \A j \in DOMAIN p.has : j \in AllKinds /\ p.has[j] \in Versions(j) /\ Of(p)[j] = At(j, p.has[j])
         /\ TrailLinks(p.has, Of(p), n) /\ p.status = Of(p)["close"].status /\ p.next = Decision(p.status, n)
<1>1. /\ StageFits("souto", At("souto", o), Of(At("souto", o)))
      /\ Refers(At("souto", o))
  BY StageReads, StagedKinds DEF StageKinds
<1>2. Shaped("souto", At("souto", o))
  BY <1>1 DEF StageFits, StageKinds
<1>3. /\ At("souto", o).epoch \in 1 .. Total
      /\ DOMAIN At("souto", o).has = Executed(At("souto", o).epoch) \union {"close"}
  BY <1>2 DEF Shaped, StageGives
<1>4. StageLinks("souto", At("souto", o), Of(At("souto", o)))
  BY <1>1 DEF StageFits
<1> QED
  BY <1>1, <1>3, <1>4 DEF StageLinks, Refers, Of

\* The kinds of a trail, first to last.
LEMMA TrailKinds ==
  ASSUME NEW n \in 1 .. Total, NEW t, OnTrail(t, n)
  PROVE  /\ n \in {1, 2} /\ Source(n) \union {"xready", "stapproval", "bdry"} \subseteq DOMAIN t
         /\ Base \subseteq DOMAIN t /\ "sign" \notin DOMAIN t
         /\ n = 1 => "stage" \in DOMAIN t /\ DOMAIN t \subseteq Base \union Steps \union {"stage"}
         /\ n = 2 => {"cont", "bind"} \subseteq DOMAIN t /\ DOMAIN t \subseteq Base \union Steps \union {"cont", "bind"}
         /\ "exec" \in DOMAIN t => Executed(n) \subseteq DOMAIN t
         /\ "close" \in DOMAIN t => Executed(n) \subseteq DOMAIN t
         /\ "souto" \in DOMAIN t => Executed(n) \union {"close"} \subseteq DOMAIN t
<1>1. DOMAIN t \in {Bounded(n), Executed(n) \union {"close", "souto"}}
  BY DEF OnTrail
<1>2. n \in {1, 2}
  BY TotalAssumption
<1>3. CASE n = 1
  BY <1>1, <1>3 DEF Executed, Bounded, Approved, Readied, Source, Base, Steps
<1>4. CASE n = 2
  BY <1>1, <1>4 DEF Executed, Bounded, Approved, Readied, Source, Base, Steps
<1> QED
  BY <1>2, <1>3, <1>4

LEMMA StepsStaged == Steps \subseteq StageKinds /\ StageKinds \subseteq Staged
BY StagedKinds DEF Steps, StageKinds

LEMMA TrailSelects ==
  ASSUME NEW t, NEW n, OnTrail(t, n), Base \subseteq DOMAIN t
  PROVE  /\ n = 1 /\ "stage" \in DOMAIN t =>
              At("stage", t["stage"]).ok /\ Agrees(At("stage", t["stage"]), Only(t, Source(1)))
         /\ n = 2 /\ {"cont", "bind"} \subseteq DOMAIN t =>
              At("bind", t["bind"]).ok /\ Agrees(At("bind", t["bind"]), Only(t, Source(2)))
BY DEF OnTrail, SelectionLinks

LEMMA TrailWithin ==
  ASSUME StageShelf, NEW n \in 1 .. Total, NEW t, OnTrail(t, n),
         NEW X, Firsts \subseteq X, \A m \in Versions("sign") : <<"sign", m>> \in X,
         \A j \in DOMAIN t : <<j, t[j]>> \in X,
         n = 2 => Within("cont", t["cont"], X) /\ Within("bind", t["bind"], X)
  PROVE  \A j \in DOMAIN t : Within(j, t[j], X)
<1>1. /\ n \in {1, 2} /\ Source(n) \union {"xready", "stapproval", "bdry"} \subseteq DOMAIN t
      /\ Base \subseteq DOMAIN t /\ "sign" \notin DOMAIN t
      /\ n = 1 => "stage" \in DOMAIN t /\ DOMAIN t \subseteq Base \union Steps \union {"stage"}
      /\ n = 2 => DOMAIN t \subseteq Base \union Steps \union {"cont", "bind"}
      /\ "exec" \in DOMAIN t => Executed(n) \subseteq DOMAIN t
      /\ "close" \in DOMAIN t => Executed(n) \subseteq DOMAIN t
      /\ "souto" \in DOMAIN t => Executed(n) \union {"close"} \subseteq DOMAIN t
  BY TrailKinds
<1>2. \A j \in DOMAIN t : j \in AllKinds /\ t[j] \in Versions(j)
  BY DEF OnTrail
<1>3. \A k \in Steps \intersect DOMAIN t :
        /\ k \in Staged /\ t[k] \in Versions(k)
        /\ At(k, t[k]).epoch = n /\ Agrees(At(k, t[k]), t)
        /\ k # "close" => At(k, t[k]).ok
        /\ DOMAIN At(k, t[k]).has \in {{}, StageGives(n)[k]}
  <2> SUFFICES ASSUME NEW k \in Steps \intersect DOMAIN t
               PROVE  /\ k \in Staged /\ t[k] \in Versions(k)
                      /\ At(k, t[k]).epoch = n /\ Agrees(At(k, t[k]), t)
                      /\ k # "close" => At(k, t[k]).ok
                      /\ DOMAIN At(k, t[k]).has \in {{}, StageGives(n)[k]}
    OBVIOUS
  <2>1. /\ k \in Staged /\ k \in StageKinds /\ t[k] \in Versions(k)
        /\ At(k, t[k]).epoch = n /\ Agrees(At(k, t[k]), t)
        /\ k # "close" => At(k, t[k]).ok
    BY <1>2, StepsStaged DEF OnTrail, Settles
  <2>2. StageFits(k, At(k, t[k]), Of(At(k, t[k])))
    BY <2>1, StageReads, StagedKinds
  <2>3. Shaped(k, At(k, t[k]))
    BY <2>1, <2>2 DEF StageFits
  <2>4. k \notin {"cont", "done"}
    BY DEF Steps
  <2> QED
    BY <2>1, <2>3, <2>4 DEF Shaped
<1>4. Within("rplan", t["rplan"], X) /\ Within("dryrun", t["dryrun"], X) /\ Within("started", t["started"], X)
  <2>1. {"rplan", "dryrun", "started"} \subseteq DOMAIN t
    BY <1>1 DEF Base
  <2> QED
    BY <1>2, <2>1, BaseWithin, StartedWithin DEF Five
<1>5. \A j \in Source(n) : Within(j, t[j], X)
  <2>1. CASE n = 1
    <3>1. "stage" \in DOMAIN t /\ t["stage"] \in Versions("stage") /\ Base \subseteq DOMAIN t
      BY <1>1, <1>2, <2>1
    <3>2. At("stage", t["stage"]).ok /\ Agrees(At("stage", t["stage"]), Only(t, Source(1)))
      BY <2>1, <3>1, TrailSelects
    <3>3. DOMAIN At("stage", t["stage"]).has = Base
      <4>1. StageFits("stage", At("stage", t["stage"]), Of(At("stage", t["stage"])))
        BY <3>1, StageReads, StagedKinds
      <4>2. Shaped("stage", At("stage", t["stage"]))
        BY <4>1 DEF StageFits
      <4> QED
        BY <3>2, <4>2 DEF Shaped, StageGives
    <3>4. \A j \in Base : At("stage", t["stage"]).has[j] = t[j]
      <4>1. \A j \in Base : j \in DOMAIN Only(t, Source(1)) /\ Only(t, Source(1))[j] = t[j] /\ j # "sign"
        BY <3>1 DEF Only, Source, Base
      <4> QED
        BY <3>2, <3>3, <4>1 DEF Agrees
    <3>5. Within("stage", t["stage"], X)
      BY <1>4, <3>1, <3>3, <3>4, StageClimbs, StagedKinds DEF Base
    <3> QED
      BY <1>4, <2>1, <3>5 DEF Source, Base
  <2>2. CASE n = 2
    BY <1>4, <2>2 DEF Source, Base
  <2> QED
    BY <1>1, <2>1, <2>2
<1>6. Within("xready", t["xready"], X)
  <2>1. DOMAIN At("xready", t["xready"]).has \subseteq Source(n)
    BY <1>1, <1>3 DEF StageGives, Steps
  <2> QED
    BY <1>1, <1>3, <1>5, <2>1, AgreesWithin DEF Steps
<1>7. Within("stapproval", t["stapproval"], X)
  <2>1. PICK v, p : v = t["stapproval"] /\ p = At("stapproval", v)
    OBVIOUS
  <2>2. /\ v \in Versions("stapproval") /\ p.ok /\ Agrees(p, t) /\ "stapproval" \in Staged
        /\ DOMAIN p.has \in {{}, StageGives(n)["stapproval"]} /\ <<"stapproval", v>> \in X
    BY <1>1, <1>3, <2>1 DEF Steps
  <2>3. DOMAIN p.has \subseteq Readied(n) \union {"sign"} /\ Readied(n) \subseteq DOMAIN t
        /\ "sign" \notin Readied(n) /\ "xready" \in Readied(n)
    BY <1>1, <2>2 DEF StageGives, Readied
  <2>4. \A j \in DOMAIN p.has \ {"sign"} : p.has[j] = t[j] /\ Within(j, p.has[j], X)
    <3>1. \A j \in DOMAIN p.has \ {"sign"} : p.has[j] = t[j]
      BY <2>2, <2>3 DEF Agrees
    <3> QED
      BY <1>5, <1>6, <2>3, <3>1 DEF Readied
  <2>5. "sign" \in DOMAIN p.has => Within("sign", p.has["sign"], X)
    <3> SUFFICES ASSUME "sign" \in DOMAIN p.has PROVE Within("sign", p.has["sign"], X)
      OBVIOUS
    <3>1. DOMAIN p.has = Readied(n) \union {"sign"}
      BY <2>2 DEF StageGives
    <3>2. p.has["xready"] = t["xready"]
      BY <2>3, <2>4, <3>1
    <3>3. StageFits("stapproval", p, Of(p)) /\ Refers(p)
      BY <2>1, <2>2, StageReads, StagedKinds
    <3>4. p.has["sign"] \in Versions("sign") /\ At("sign", p.has["sign"]).has = Signs1("xready", p.has["xready"])
      BY <2>2, <3>1, <3>3 DEF StageFits, StageLinks, Refers, Of
    <3> QED
      BY <1>6, <3>2, <3>4, SignWithin
  <2> QED
    BY <2>1, <2>2, <2>4, <2>5, StageClimbs
<1>8. Within("bdry", t["bdry"], X)
  <2>1. DOMAIN At("bdry", t["bdry"]).has \subseteq Approved(n) /\ Approved(n) \subseteq DOMAIN t
    BY <1>1, <1>3 DEF StageGives, Steps, Approved, Readied
  <2>2. \A j \in Approved(n) : Within(j, t[j], X)
    BY <1>5, <1>6, <1>7 DEF Approved, Readied
  <2> QED
    BY <1>1, <1>3, <2>1, <2>2, AgreesWithin DEF Steps
<1>9. \A j \in Bounded(n) : Within(j, t[j], X)
  BY <1>5, <1>6, <1>7, <1>8 DEF Bounded, Approved, Readied
<1>10. "exec" \in DOMAIN t => Within("exec", t["exec"], X)
  <2> SUFFICES ASSUME "exec" \in DOMAIN t PROVE Within("exec", t["exec"], X)
    OBVIOUS
  <2>1. DOMAIN At("exec", t["exec"]).has \subseteq Bounded(n) /\ Bounded(n) \subseteq DOMAIN t
    BY <1>1, <1>3 DEF StageGives, Steps, Executed
  <2> QED
    BY <1>1, <1>3, <1>9, <2>1, AgreesWithin DEF Steps
<1>11. "close" \in DOMAIN t => Within("close", t["close"], X)
  <2> SUFFICES ASSUME "close" \in DOMAIN t PROVE Within("close", t["close"], X)
    OBVIOUS
  <2>1. DOMAIN At("close", t["close"]).has \subseteq Executed(n) /\ Executed(n) \subseteq DOMAIN t
    BY <1>1, <1>3 DEF StageGives, Steps
  <2>2. \A j \in Executed(n) : Within(j, t[j], X)
    BY <1>9, <1>10, <2>1 DEF Executed
  <2> QED
    BY <1>1, <1>3, <2>1, <2>2, AgreesWithin DEF Steps
<1>12. "souto" \in DOMAIN t => Within("souto", t["souto"], X)
  <2> SUFFICES ASSUME "souto" \in DOMAIN t PROVE Within("souto", t["souto"], X)
    OBVIOUS
  <2>1. /\ DOMAIN At("souto", t["souto"]).has \subseteq Executed(n) \union {"close"}
        /\ Executed(n) \union {"close"} \subseteq DOMAIN t
    BY <1>1, <1>3 DEF StageGives, Steps
  <2>2. \A j \in Executed(n) \union {"close"} : Within(j, t[j], X)
    BY <1>9, <1>10, <1>11, <2>1 DEF Executed
  <2> QED
    BY <1>1, <1>3, <2>1, <2>2, AgreesWithin DEF Steps
<1>13. DOMAIN t \subseteq Bounded(n) \union {"exec", "close", "souto"}
  BY DEF OnTrail, Executed
<1> QED
  BY <1>9, <1>10, <1>11, <1>12, <1>13

\* All of these, and what there is besides: the first packets and the signatures.
Told(of) == {<<j, of[j]>> : j \in DOMAIN of} \union Firsts \union {<<"sign", m>> : m \in Versions("sign")}
Trail(o) == With(At("souto", o).has, "souto", o)

LEMMA TrailTold ==
  ASSUME StageShelf, NEW n \in 1 .. Total, NEW t, OnTrail(t, n), NEW X, Told(t) \subseteq X,
         n = 2 => Within("cont", t["cont"], X) /\ Within("bind", t["bind"], X)
  PROVE  \A j \in DOMAIN t : Within(j, t[j], X)
<1>1. /\ \A j \in DOMAIN t : <<j, t[j]>> \in X
      /\ Firsts \subseteq X /\ \A m \in Versions("sign") : <<"sign", m>> \in X
  BY DEF Told
<1> QED
  BY <1>1, TrailWithin

\* What an outcome rests on, with itself, is such a trail.
LEMMA OutcomeTrail ==
  ASSUME StageShelf, NEW o \in Versions("souto"), At("souto", o).ok
  PROVE  LET n == At("souto", o).epoch  h == At("souto", o).has IN
         /\ n \in 1 .. Total /\ OnTrail(Trail(o), n) /\ DOMAIN h = Executed(n) \union {"close"}
         /\ DOMAIN Trail(o) = DOMAIN h \union {"souto"} /\ Trail(o)["souto"] = o
         /\ \A j \in DOMAIN h : Trail(o)[j] = h[j]
<1>1. PICK h, n, t : h = At("souto", o).has /\ n = At("souto", o).epoch /\ t = Trail(o)
  OBVIOUS
<1>2. /\ n \in 1 .. Total /\ DOMAIN h = Executed(n) \union {"close"}
      /\ \A j \in DOMAIN h : j \in AllKinds /\ h[j] \in Versions(j) /\ Of(At("souto", o))[j] = At(j, h[j])
      /\ TrailLinks(h, Of(At("souto", o)), n)
  BY <1>1, OutcomeReads
<1>3. "souto" \notin DOMAIN h /\ "souto" \in AllKinds
  BY <1>2, StagedKinds DEF Executed, Bounded, Approved, Readied, Source, Base, StageKinds
<1>4. /\ DOMAIN t = DOMAIN h \union {"souto"} /\ t["souto"] = o
      /\ \A k \in DOMAIN h : t[k] = h[k]
  BY <1>1, <1>3 DEF Trail, With
<1>5. DOMAIN t = Executed(n) \union {"close", "souto"}
  BY <1>2, <1>4
<1>6. \A j \in DOMAIN t : j \in AllKinds /\ t[j] \in Versions(j)
  BY <1>2, <1>3, <1>4
<1>7. \A q : Agrees(q, h) /\ (\A j \in DOMAIN q.has : j # "souto") => Agrees(q, t)
  BY <1>4 DEF Agrees
<1>8. \A k \in Steps \intersect DOMAIN t : Settles(At(k, t[k]), t, n) /\ (k # "close" => At(k, t[k]).ok)
  <2>1. ASSUME NEW k \in {"xready", "stapproval", "bdry", "exec", "close"}
        PROVE  Settles(At(k, t[k]), t, n) /\ (k # "close" => At(k, t[k]).ok)
    <3>1. k \in DOMAIN h /\ k \in StageKinds
      BY <1>2 DEF Executed, Bounded, Approved, Readied, StageKinds
    <3>2. t[k] = h[k] /\ h[k] \in Versions(k) /\ Settles(At(k, h[k]), h, n) /\ (k # "close" => At(k, h[k]).ok)
      BY <1>2, <1>4, <3>1 DEF TrailLinks
    <3>3. Shaped(k, At(k, h[k]))
      <4>1. StageFits(k, At(k, h[k]), Of(At(k, h[k])))
        BY <3>1, <3>2, StageReads, StagedKinds
      <4> QED
        BY <3>1, <4>1 DEF StageFits
    <3>4. DOMAIN At(k, h[k]).has \in {{}, StageGives(n)[k]}
      BY <3>2, <3>3 DEF Shaped, Settles
    <3>5. "souto" \notin StageGives(n)[k]
      BY DEF StageGives, Executed, Bounded, Approved, Readied, Source, Base
    <3> QED
      BY <1>7, <3>2, <3>4, <3>5 DEF Settles
  <2>2. Settles(At("souto", t["souto"]), t, n) /\ At("souto", t["souto"]).ok
    BY <1>1, <1>4 DEF Settles, Agrees
  <2> QED
    BY <2>1, <2>2 DEF Steps
<1>9. SelectionLinks(t, [j \in DOMAIN t |-> At(j, t[j])], n)
  <2>1. SelectionLinks(h, Of(At("souto", o)), n)
    BY <1>2 DEF TrailLinks
  <2>2. n \in {1, 2}
    BY <1>2, TotalAssumption
  <2>3. Only(t, Source(n)) = Only(h, Source(n))
    <3>1. "souto" \notin Source(n)
      BY DEF Source, Base
    <3> QED
      BY <1>4, <3>1 DEF Only
  <2>4. /\ n = 1 => "stage" \in DOMAIN h /\ "stage" \in DOMAIN t
        /\ n = 2 => {"cont", "bind"} \subseteq DOMAIN h /\ {"cont", "bind"} \subseteq DOMAIN t
    BY <1>2, <1>4 DEF Executed, Bounded, Approved, Readied, Source
  <2>5. CASE n = 1
    <3>1. Of(At("souto", o))["stage"] = At("stage", t["stage"])
      BY <1>2, <1>4, <2>4, <2>5
    <3> QED
      BY <2>1, <2>3, <2>4, <2>5, <3>1 DEF SelectionLinks
  <2>6. CASE n = 2
    <3>1. Of(At("souto", o))["cont"] = At("cont", t["cont"]) /\ Of(At("souto", o))["bind"] = At("bind", t["bind"])
      BY <1>2, <1>4, <2>4, <2>6
    <3> QED
      BY <2>1, <2>3, <2>4, <2>6, <3>1 DEF SelectionLinks
  <2> QED
    BY <2>2, <2>5, <2>6
<1>10. OnTrail(t, n)
  BY <1>5, <1>6, <1>8, <1>9 DEF OnTrail
<1> QED
  BY <1>1, <1>2, <1>4, <1>10

\* The second stage is bound to an outcome of the first, to what it printed, and
\* to the continuation from it.
LEMMA BoundTo ==
  ASSUME StageShelf, NEW b \in Versions("bind"), At("bind", b).ok
  PROVE  LET B == At("bind", b).has IN
         /\ DOMAIN B = {"cont"} \union Concluded
         /\ B["souto"] \in Versions("souto") /\ At("souto", B["souto"]).ok /\ At("souto", B["souto"]).epoch = 1
         /\ Agrees(At("souto", B["souto"]), B)
         /\ B["cont"] \in Versions("cont") /\ DOMAIN At("cont", B["cont"]).has = Concluded
         /\ Agrees(At("cont", B["cont"]), B)
<1> DEFINE p == At("bind", b)
           B == p.has
<1>1. StageFits("bind", p, Of(p)) /\ Refers(p)
  BY StageReads, StagedKinds DEF StageKinds
<1>2. Shaped("bind", p)
  BY <1>1 DEF StageFits, StageKinds
<1>3. DOMAIN B = {"cont"} \union Concluded
  BY <1>2 DEF Shaped, StageGives
<1>4. StageLinks("bind", p, Of(p))
  BY <1>1 DEF StageFits
<1>5. /\ B["cont"] \in Versions("cont") /\ B["souto"] \in Versions("souto")
      /\ Of(p)["cont"] = At("cont", B["cont"]) /\ Of(p)["souto"] = At("souto", B["souto"])
  BY <1>1, <1>3 DEF Refers, Of, Concluded
<1>6. /\ At("cont", B["cont"]).ok /\ Agrees(At("cont", B["cont"]), B)
      /\ At("souto", B["souto"]).ok /\ At("souto", B["souto"]).next = "select_next_stage"
      /\ Agrees(At("souto", B["souto"]), B)
  BY <1>4, <1>5 DEF StageLinks
<1> HIDE DEF p
<1> DEFINE C == At("cont", B["cont"])
           c == B["cont"]
           o == B["souto"]
<1> HIDE DEF c, o
<1>7. At("souto", o).epoch = 1
  <2>1. At("souto", o).epoch \in 1 .. Total
        /\ At("souto", o).next = Decision(At("souto", o).status, At("souto", o).epoch)
    BY <1>5, <1>6, OutcomeReads DEF o
  <2>2. At("souto", o).epoch < Total
    BY <1>6, <2>1 DEF Decision, o
  <2> QED
    BY <2>1, <2>2, TotalAssumption
<1>8. DOMAIN At("cont", c).has = Concluded
  <2>1. c \in Versions("cont") /\ At("cont", c).ok /\ Agrees(At("cont", c), B)
    BY <1>5, <1>6 DEF c
  <2>2. StageFits("cont", At("cont", c), Of(At("cont", c)))
    BY <2>1, StageReads, StagedKinds DEF StageKinds
  <2>3. Shaped("cont", At("cont", c)) /\ StageLinks("cont", At("cont", c), Of(At("cont", c)))
    BY <2>1, <2>2 DEF StageFits, StageKinds
  <2>4. DOMAIN At("cont", c).has \in Going
    BY <2>1, <2>3 DEF Shaped
  <2>5. "souto" \in DOMAIN At("cont", c).has /\ At("cont", c).has["souto"] = o
    BY <1>3, <2>1, <2>4 DEF Going, Concluded, ConcludedAgain, Agrees, o
  <2>6. Of(At("cont", c))["souto"].next = "select_next_stage"
    BY <1>6, <2>5 DEF Of, o
  <2> QED
    BY <2>3, <2>4, <2>6 DEF StageLinks, Inspects, Going
<1> QED
  BY <1>3, <1>5, <1>6, <1>7, <1>8 DEF p, c, o

\* The trail of a second stage goes on from an outcome of the first.
LEMMA SecondTold ==
  ASSUME StageShelf, 2 \in 1 .. Total, NEW t, OnTrail(t, 2)
  PROVE  \E i \in Versions("souto") :
           /\ At("souto", i).ok /\ At("souto", i).epoch = 1
           /\ \A j \in Base : t[j] = Trail(i)[j]
           /\ \A j \in DOMAIN t : Within(j, t[j], Told(t) \union Told(Trail(i)))
<1>1. /\ {"cont", "bind"} \union Base \subseteq DOMAIN t
      /\ \A j \in DOMAIN t : j \in AllKinds /\ t[j] \in Versions(j)
  BY TrailKinds DEF OnTrail
<1>2. /\ At("bind", t["bind"]).ok /\ Agrees(At("bind", t["bind"]), Only(t, Source(2)))
      /\ t["bind"] \in Versions("bind") /\ t["cont"] \in Versions("cont")
  BY <1>1, TrailSelects
<1>5. PICK b, B : b = t["bind"] /\ B = At("bind", b).has
  OBVIOUS
<1>6. /\ DOMAIN B = {"cont"} \union Concluded
      /\ B["souto"] \in Versions("souto") /\ At("souto", B["souto"]).ok /\ At("souto", B["souto"]).epoch = 1
      /\ Agrees(At("souto", B["souto"]), B)
      /\ B["cont"] \in Versions("cont") /\ DOMAIN At("cont", B["cont"]).has = Concluded
      /\ Agrees(At("cont", B["cont"]), B)
  BY <1>2, <1>5, BoundTo
<1>7. PICK i \in Versions("souto") : i = B["souto"]
  BY <1>6
<1>8. B["cont"] = t["cont"] /\ \A j \in Base : B[j] = t[j]
  <2>1. \A j \in Base \union {"cont"} : j \in DOMAIN Only(t, Source(2)) /\ Only(t, Source(2))[j] = t[j]
    BY <1>1 DEF Only, Source, Base
  <2>2. \A j \in Base \union {"cont"} : j \in DOMAIN B /\ j # "sign"
    BY <1>6 DEF Concluded, Base
  <2>3. Agrees(At("bind", b), Only(t, Source(2)))
    BY <1>2, <1>5
  <2> QED
    BY <1>5, <2>1, <2>2, <2>3 DEF Agrees
<1>9. PICK g, u : g = At("souto", i).has /\ u = Trail(i)
  OBVIOUS
<1>10. /\ DOMAIN g = Executed(1) \union {"close"} /\ At("souto", i).ok /\ At("souto", i).epoch = 1
       /\ 1 \in 1 .. Total /\ OnTrail(u, 1) /\ DOMAIN u = DOMAIN g \union {"souto"} /\ u["souto"] = i
       /\ \A j \in DOMAIN g : u[j] = g[j]
  BY <1>6, <1>7, <1>9, OutcomeTrail
<1>11. \A j \in Concluded : j \in DOMAIN u /\ u[j] = B[j]
  <2>1. \A j \in Base \union {"close", "exec"} : j \in DOMAIN g /\ j \in DOMAIN B /\ j # "sign"
    BY <1>6, <1>10 DEF Executed, Bounded, Approved, Readied, Source, Concluded, Base
  <2>2. Agrees(At("souto", i), B)
    BY <1>6, <1>7
  <2>3. \A j \in Base \union {"close", "exec"} : g[j] = B[j]
    BY <1>9, <2>1, <2>2 DEF Agrees
  <2> QED
    BY <1>7, <1>10, <2>1, <2>3 DEF Concluded
<1> DEFINE X == Told(t) \union Told(u)
<1>12. Firsts \subseteq X
  BY DEF Told
<1>13. <<"cont", t["cont"]>> \in X /\ <<"bind", b>> \in X
  BY <1>1, <1>5 DEF Told
<1>14. Told(t) \subseteq X /\ Told(u) \subseteq X
  OBVIOUS
<1> HIDE DEF X
<1>15. \A j \in DOMAIN u : Within(j, u[j], X)
  BY <1>10, <1>14, TrailTold
<1>16. \A j \in Concluded : Within(j, B[j], X)
  BY <1>11, <1>15
<1>17. Within("cont", t["cont"], X)
  <2>1. \A j \in Concluded : At("cont", t["cont"]).has[j] = B[j]
    BY <1>6, <1>8 DEF Agrees, Concluded, Base
  <2> QED
    BY <1>2, <1>6, <1>8, <1>12, <1>13, <1>16, <2>1, StageClimbs, StagedKinds DEF StageKinds
<1>18. Within("bind", b, X)
  BY <1>2, <1>5, <1>6, <1>8, <1>12, <1>13, <1>16, <1>17, StageClimbs, StagedKinds DEF StageKinds
<1>19. \A j \in DOMAIN t : Within(j, t[j], X)
  BY <1>5, <1>14, <1>17, <1>18, TrailTold
<1>20. \A j \in Base : t[j] = u[j]
  BY <1>8, <1>11 DEF Concluded
<1> QED
  BY <1>9, <1>10, <1>19, <1>20 DEF X

\* The packets of a trail, and the first ones, are one of each kind.
LEMMA ToldIs ==
  ASSUME StageShelf, NEW t, \A j \in DOMAIN t : t[j] \in Versions(j), NEW q \in Told(t), q[1] # "sign"
  PROVE  IF q[1] \in Five THEN q = <<q[1], 1>> ELSE q[1] \in DOMAIN t /\ q = <<q[1], t[q[1]]>>
<1>1. CASE q \in Firsts
  BY <1>1 DEF Firsts
<1>2. ASSUME NEW j \in DOMAIN t, q = <<j, t[j]>>
      PROVE  IF q[1] \in Five THEN q = <<q[1], 1>> ELSE q[1] \in DOMAIN t /\ q = <<q[1], t[q[1]]>>
  <2>1. j \in Five => t[j] = 1
    BY DEF StageShelf
  <2> QED
    BY <1>2, <2>1
<1> QED
  BY <1>1, <1>2 DEF Told

\* The packets of a trail, and all that they rest on, are one of each kind.
LEMMA TrailIsOne ==
  ASSUME StageShelf, NEW n \in 1 .. Total, NEW t, OnTrail(t, n)
  PROVE  \E X : /\ OnePerStage(X)
                /\ \A q \in X : q[1] \in Five \union Base \union Steps \union {"stage", "cont", "bind", "sign"}
                /\ \A m \in Versions("sign") : <<"sign", m>> \in X
                /\ Firsts \subseteq X
                /\ \A j \in DOMAIN t : Within(j, t[j], X)
<1>v. \A j \in DOMAIN t : t[j] \in Versions(j)
  BY DEF OnTrail
<1>1. CASE n = 1
  <2> DEFINE X == Told(t)
  <2>1. \A j \in DOMAIN t : Within(j, t[j], X)
    BY <1>1, TrailTold
  <2>2. OnePerStage(X)
    BY <1>v, ToldIs DEF OnePerStage
  <2>3. \A q \in X : q[1] \in Five \union Base \union Steps \union {"stage", "cont", "bind", "sign"}
    BY <1>v, <1>1, ToldIs, TrailKinds
  <2>4. Firsts \subseteq X /\ \A m \in Versions("sign") : <<"sign", m>> \in X
    BY DEF Told
  <2> HIDE DEF X
  <2> QED
    BY <2>1, <2>2, <2>3, <2>4
<1>2. CASE n = 2
  <2>1. PICK i \in Versions("souto") :
           /\ At("souto", i).ok /\ At("souto", i).epoch = 1
           /\ \A j \in Base : t[j] = Trail(i)[j]
           /\ \A j \in DOMAIN t : Within(j, t[j], Told(t) \union Told(Trail(i)))
    BY <1>2, SecondTold
  <2>2. PICK u : u = Trail(i)
    OBVIOUS
  <2>3. OnTrail(u, 1) /\ 1 \in 1 .. Total
    BY <2>1, <2>2, OutcomeTrail
  <2>t. /\ DOMAIN t \subseteq Base \union Steps \union {"cont", "bind"}
        /\ \A k \in Steps \intersect DOMAIN t : At(k, t[k]).epoch = 2
    BY <1>2, TrailKinds DEF OnTrail, Settles
  <2>u. /\ DOMAIN u \subseteq Base \union Steps \union {"stage"}
        /\ \A k \in Steps \intersect DOMAIN u : At(k, u[k]).epoch = 1
        /\ \A j \in DOMAIN u : u[j] \in Versions(j)
    BY <2>3, TrailKinds DEF OnTrail, Settles
  <2> DEFINE X == Told(t) \union Told(u)
  <2>4. ASSUME NEW p \in Told(t), NEW q \in Told(u), p[1] = q[1], p[1] # "sign",
               At(p[1], p[2]).epoch = At(q[1], q[2]).epoch
        PROVE  p = q
    <3>1. CASE p[1] \in Five
      BY <1>v, <2>u, <2>4, <3>1, ToldIs
    <3>2. CASE p[1] \notin Five
      <4>1. /\ p[1] \in DOMAIN t /\ p = <<p[1], t[p[1]]>>
            /\ q[1] \in DOMAIN u /\ q = <<q[1], u[q[1]]>>
        BY <1>v, <2>u, <2>4, <3>2, ToldIs
      <4>2. p[1] \notin Steps
        <5>1. p[1] \in Steps => At(p[1], t[p[1]]).epoch = 2 /\ At(p[1], u[p[1]]).epoch = 1
          BY <2>4, <2>t, <2>u, <4>1
        <5>2. p[2] = t[p[1]] /\ q[2] = u[p[1]]
          BY <2>4, <4>1
        <5> QED
          BY <2>4, <5>1, <5>2
      <4>3. p[1] \in Base
        BY <2>4, <2>t, <2>u, <4>1, <4>2
      <4>4. t[p[1]] = u[p[1]]
        BY <2>1, <2>2, <4>3
      <4> QED
        BY <2>4, <4>1, <4>4
    <3> QED
      BY <3>1, <3>2
  <2>5. OnePerStage(Told(t)) /\ OnePerStage(Told(u))
    BY <1>v, <2>u, ToldIs DEF OnePerStage
  <2>6. OnePerStage(X)
    BY <2>4, <2>5 DEF OnePerStage
  <2>7. \A q \in X : q[1] \in Five \union Base \union Steps \union {"stage", "cont", "bind", "sign"}
    BY <1>v, <2>t, <2>u, ToldIs
  <2>8. Firsts \subseteq X /\ \A m \in Versions("sign") : <<"sign", m>> \in X
    BY DEF Told
  <2>9. \A j \in DOMAIN t : Within(j, t[j], X)
    BY <2>1, <2>2
  <2> HIDE DEF X
  <2> QED
    BY <2>6, <2>7, <2>8, <2>9
<1> QED
  BY <1>1, <1>2, TotalAssumption

LEMMA OutcomeIsOne ==
  ASSUME StageShelf, NEW o \in Versions("souto"), At("souto", o).ok
  PROVE  \E X : /\ OnePerStage(X)
                /\ \A q \in X : q[1] \in Five \union Base \union Steps \union {"stage", "cont", "bind", "sign"}
                /\ \A m \in Versions("sign") : <<"sign", m>> \in X
                /\ Firsts \subseteq X
                /\ Within("souto", o, X) /\ \A j \in DOMAIN At("souto", o).has : Within(j, At("souto", o).has[j], X)
<1>1. PICK n, t : n = At("souto", o).epoch /\ t = Trail(o)
  OBVIOUS
<1>2. /\ n \in 1 .. Total /\ OnTrail(t, n) /\ DOMAIN t = DOMAIN At("souto", o).has \union {"souto"}
      /\ t["souto"] = o /\ \A j \in DOMAIN At("souto", o).has : t[j] = At("souto", o).has[j]
  BY <1>1, OutcomeTrail
<1>3. PICK X : /\ OnePerStage(X)
               /\ \A q \in X : q[1] \in Five \union Base \union Steps \union {"stage", "cont", "bind", "sign"}
               /\ \A m \in Versions("sign") : <<"sign", m>> \in X
               /\ Firsts \subseteq X
               /\ \A j \in DOMAIN t : Within(j, t[j], X)
  BY <1>2, TrailIsOne
<1> QED
  BY <1>2, <1>3

LEMMA Links ==
  ASSUME NEW p, NEW of
  PROVE  /\ StageLinks("retryplan", p, of) =>
              of["souto"].ok /\ of["souto"].next \in Inspects /\ Settles(of["souto"], p.has, p.epoch)
         /\ StageLinks("rapproval", p, of) => of["sign"].has = Signs1("retryplan", p.has["retryplan"])
         /\ StageLinks("routcome", p, of) => RetryLinks(p.has, of, p.epoch)
         /\ StageLinks("done", p, of) =>
              /\ "routcome" \in DOMAIN p.has =>
                   /\ of["routcome"].ok /\ Settles(of["routcome"], p.has, p.epoch)
                   /\ of["rexec"].status = "completed"
              /\ "routcome" \notin DOMAIN p.has =>
                   of["souto"].ok /\ Settles(of["souto"], p.has, p.epoch) /\ of["exec"].status = "completed"
BY DEF StageLinks

LEMMA NoneGivesItself ==
  ASSUME NEW n
  PROVE  /\ "stage" \notin StageGives(n)["stage"] /\ "bind" \notin StageGives(n)["bind"]
         /\ "xready" \notin StageGives(n)["xready"] /\ "stapproval" \notin StageGives(n)["stapproval"]
         /\ "bdry" \notin StageGives(n)["bdry"] /\ "exec" \notin StageGives(n)["exec"]
         /\ "close" \notin StageGives(n)["close"] /\ "souto" \notin StageGives(n)["souto"]
         /\ "retryplan" \notin StageGives(n)["retryplan"] /\ "rapproval" \notin StageGives(n)["rapproval"]
         /\ "rbdry" \notin StageGives(n)["rbdry"] /\ "rexec" \notin StageGives(n)["rexec"]
         /\ "rclose" \notin StageGives(n)["rclose"] /\ "routcome" \notin StageGives(n)["routcome"]
<1>1. /\ Source(n) \subseteq {"started", "rplan", "dryrun", "stage", "cont", "bind"}
      /\ RetrySource(n) \subseteq {"started", "rplan", "dryrun", "cont", "bind", "souto", "close", "exec"}
  BY DEF Source, RetrySource, Base
<1>2. /\ Readied(n) = Source(n) \union {"xready"}
      /\ Approved(n) = Source(n) \union {"xready", "stapproval"}
      /\ Bounded(n) = Source(n) \union {"xready", "stapproval", "bdry"}
      /\ Executed(n) = Source(n) \union {"xready", "stapproval", "bdry", "exec"}
      /\ RetryBounded(n) = RetrySource(n) \union {"retryplan", "rapproval", "rbdry"}
      /\ RetryExecuted(n) = RetrySource(n) \union {"retryplan", "rapproval", "rbdry", "rexec"}
  BY DEF Readied, Approved, Bounded, Executed, RetryBounded, RetryExecuted
<1>3. "stage" \notin Base /\ "bind" \notin {"cont"} \union Concluded
  BY DEF Base, Concluded
<1> QED
  BY <1>1, <1>2, <1>3, Gives

\* A packet of the stages that was accepted, or names something all the same.
LEMMA StagePacket ==
  ASSUME StageShelf, NEW k \in StageKinds \union RetryKinds, NEW v \in Versions(k),
         At(k, v).ok \/ DOMAIN At(k, v).has # {}
  PROVE  LET p == At(k, v) IN
         /\ p.epoch \in 1 .. Total
         /\ k = "done" => DOMAIN p.has \in Finishing(p.epoch)
         /\ k \notin {"cont", "done"} => DOMAIN p.has = StageGives(p.epoch)[k]
         /\ \A j \in DOMAIN p.has : j \in AllKinds /\ p.has[j] \in Versions(j) /\ Of(p)[j] = At(j, p.has[j])
         /\ p.ok => StageLinks(k, p, Of(p))
<1>1. StageFits(k, At(k, v), Of(At(k, v))) /\ Refers(At(k, v))
  BY StageReads, StagedKinds
<1>2. PICK p : p = At(k, v)
  OBVIOUS
<1>3. Shaped(k, p) /\ (p.ok => StageLinks(k, p, Of(p)))
  BY <1>1, <1>2 DEF StageFits
<1>4. ~(DOMAIN p.has = {} /\ ~p.ok)
  BY <1>2
<1>5. \A j \in DOMAIN p.has : j \in AllKinds /\ p.has[j] \in Versions(j) /\ Of(p)[j] = At(j, p.has[j])
  BY <1>1, <1>2 DEF Refers, Of
<1> QED
  BY <1>2, <1>3, <1>4, <1>5 DEF Shaped

\* A retry is of the stage whose outcome it was planned from.
LEMMA RetriesOutcome ==
  ASSUME StageShelf, NEW n \in 1 .. Total, NEW t, OnRetry(t, n)
  PROVE  /\ "souto" \in DOMAIN t /\ RetrySource(n) \subseteq DOMAIN t
         /\ t["souto"] \in Versions("souto") /\ At("souto", t["souto"]).ok /\ At("souto", t["souto"]).epoch = n
         /\ DOMAIN At("souto", t["souto"]).has = Executed(n) \union {"close"}
         /\ \A j \in RetrySource(n) \ {"souto"} :
              j \in Executed(n) \union {"close"} /\ At("souto", t["souto"]).has[j] = t[j]
<1>1. RetrySource(n) \union {"retryplan"} \subseteq DOMAIN t /\ "souto" \in RetrySource(n) /\ "sign" \notin RetrySource(n)
  BY DEF OnRetry, RetryExecuted, RetryBounded, RetrySource, Base
<1>2. /\ t["retryplan"] \in Versions("retryplan") /\ "retryplan" \in RetryKinds
      /\ At("retryplan", t["retryplan"]).ok /\ At("retryplan", t["retryplan"]).epoch = n
      /\ Agrees(At("retryplan", t["retryplan"]), t)
  BY <1>1 DEF OnRetry, RetryKinds, Settles
<1>3. PICK p, y : p = At("retryplan", t["retryplan"]) /\ y = p.has
  OBVIOUS
<1>4. /\ DOMAIN y = RetrySource(n)
      /\ \A j \in DOMAIN y : y[j] \in Versions(j) /\ Of(p)[j] = At(j, y[j])
      /\ StageLinks("retryplan", p, Of(p))
  BY <1>2, <1>3, StagePacket, Gives
<1>5. y["souto"] \in Versions("souto") /\ At("souto", y["souto"]).ok /\ Settles(At("souto", y["souto"]), y, n)
  BY <1>1, <1>2, <1>3, <1>4, Links
<1>6. \A j \in RetrySource(n) : t[j] = y[j]
  BY <1>1, <1>2, <1>3, <1>4 DEF Agrees
<1>7. PICK o \in Versions("souto") : o = y["souto"]
  BY <1>5
<1>8. DOMAIN At("souto", o).has = Executed(n) \union {"close"} /\ n \in {1, 2}
  BY <1>5, <1>7, OutcomeReads, TotalAssumption DEF Settles
<1>9. RetrySource(n) \ {"souto"} \subseteq Executed(n) \union {"close"}
  BY <1>8 DEF RetrySource, Executed, Bounded, Approved, Readied, Source
<1>10. \A j \in RetrySource(n) \ {"souto"} : At("souto", o).has[j] = y[j]
  BY <1>1, <1>4, <1>5, <1>7, <1>8, <1>9 DEF Settles, Agrees
<1> QED
  BY <1>1, <1>5, <1>6, <1>7, <1>8, <1>9, <1>10 DEF Settles

\* What the retry of a stage rests on is one of each as well.
LEMMA RetryIsOne ==
  ASSUME StageShelf, NEW n \in 1 .. Total, NEW t, OnRetry(t, n)
  PROVE  \E X : OnePerStage(X) /\ Firsts \subseteq X /\ \A j \in DOMAIN t : Within(j, t[j], X)
<1> DEFINE K == RetryKinds \intersect DOMAIN t
<1>1. /\ DOMAIN t = RetrySource(n) \union K
      /\ {"retryplan", "rapproval", "rbdry"} \subseteq K
      /\ "sign" \notin DOMAIN t /\ \A j \in DOMAIN t : t[j] \in Versions(j)
      /\ "rexec" \notin K => {"rclose", "routcome"} \intersect K = {}
      /\ "rclose" \notin K => "routcome" \notin K
  BY DEF OnRetry, RetryExecuted, RetryBounded, RetryKinds, RetrySource, Base
<1>2. \A k \in K : /\ k \in Staged /\ t[k] \in Versions(k) /\ At(k, t[k]).epoch = n /\ Agrees(At(k, t[k]), t)
                   /\ k \notin {"rexec", "rclose"} => At(k, t[k]).ok
                   /\ DOMAIN At(k, t[k]).has \in {{}, StageGives(n)[k]}
  <2> SUFFICES ASSUME NEW k \in K
               PROVE  /\ k \in Staged /\ t[k] \in Versions(k) /\ At(k, t[k]).epoch = n /\ Agrees(At(k, t[k]), t)
                      /\ k \notin {"rexec", "rclose"} => At(k, t[k]).ok
                      /\ DOMAIN At(k, t[k]).has \in {{}, StageGives(n)[k]}
    OBVIOUS
  <2>1. /\ k \in Staged /\ k \in RetryKinds /\ t[k] \in Versions(k)
        /\ At(k, t[k]).epoch = n /\ Agrees(At(k, t[k]), t)
        /\ k \notin {"rexec", "rclose"} => At(k, t[k]).ok
    BY <1>1, StagedKinds DEF OnRetry, Settles
  <2>2. k \notin {"cont", "done"}
    BY DEF RetryKinds
  <2> QED
    BY <2>1, <2>2, StagePacket
<1>3. PICK o \in Versions("souto") : o = t["souto"]
  BY RetriesOutcome
<1>4. PICK Y : /\ OnePerStage(Y)
               /\ \A q \in Y : q[1] \in Five \union Base \union Steps \union {"stage", "cont", "bind", "sign"}
               /\ \A m \in Versions("sign") : <<"sign", m>> \in Y
               /\ Firsts \subseteq Y
               /\ Within("souto", o, Y) /\ \A j \in DOMAIN At("souto", o).has : Within(j, At("souto", o).has[j], Y)
  BY <1>3, RetriesOutcome, OutcomeIsOne
<1>5. \A j \in RetrySource(n) : Within(j, t[j], Y)
  BY <1>3, <1>4, RetriesOutcome
<1> DEFINE X == Y \union {<<k, t[k]>> : k \in K}
<1>6. OnePerStage(X)
  <2>1. \A q \in Y : q[1] \notin K
    BY <1>4 DEF Five, Base, Steps, RetryKinds
  <2>2. \A q \in X \ Y : q[1] \in K /\ q = <<q[1], t[q[1]]>>
    OBVIOUS
  <2> HIDE DEF X, K
  <2> QED
    BY <1>4, <2>1, <2>2 DEF OnePerStage
<1>7. /\ \A k \in K : <<k, t[k]>> \in X
      /\ Firsts \subseteq X /\ \A m \in Versions("sign") : <<"sign", m>> \in X
  BY <1>4
<1>8. \A j \in RetrySource(n) : Within(j, t[j], X)
  BY <1>5 DEF Within
<1> HIDE DEF X, K
<1>9. Within("retryplan", t["retryplan"], X)
  <2>1. DOMAIN At("retryplan", t["retryplan"]).has \subseteq RetrySource(n)
    BY <1>1, <1>2 DEF StageGives
  <2> QED
    BY <1>1, <1>2, <1>7, <1>8, <2>1, AgreesWithin
<1>10. Within("rapproval", t["rapproval"], X)
  <2>1. PICK v, p : v = t["rapproval"] /\ p = At("rapproval", v)
    OBVIOUS
  <2>2. /\ v \in Versions("rapproval") /\ p.ok /\ p.epoch = n /\ Agrees(p, t)
        /\ "rapproval" \in RetryKinds /\ "rapproval" \in Staged /\ <<"rapproval", v>> \in X
    BY <1>1, <1>2, <1>7, <2>1 DEF RetryKinds
  <2>3. /\ DOMAIN p.has = RetrySource(n) \union {"retryplan", "sign"}
        /\ \A j \in DOMAIN p.has : p.has[j] \in Versions(j) /\ Of(p)[j] = At(j, p.has[j])
        /\ StageLinks("rapproval", p, Of(p))
    BY <2>1, <2>2, StagePacket, Gives
  <2>4. \A j \in RetrySource(n) \union {"retryplan"} : p.has[j] = t[j]
    BY <1>1, <2>2, <2>3 DEF Agrees
  <2>5. At("sign", p.has["sign"]).has = Signs1("retryplan", t["retryplan"]) /\ p.has["sign"] \in Versions("sign")
    BY <2>3, <2>4, Links
  <2>6. Within("sign", p.has["sign"], X)
    BY <1>7, <1>9, <2>5, SignWithin
  <2>7. \A j \in DOMAIN p.has : Within(j, p.has[j], X)
    BY <1>8, <1>9, <2>3, <2>4, <2>6
  <2> QED
    BY <1>7, <2>1, <2>2, <2>7, StageClimbs
<1>11. Within("rbdry", t["rbdry"], X)
  <2>1. DOMAIN At("rbdry", t["rbdry"]).has \subseteq RetrySource(n) \union {"retryplan", "rapproval"}
    BY <1>1, <1>2 DEF StageGives
  <2> QED
    BY <1>1, <1>2, <1>7, <1>8, <1>9, <1>10, <2>1, AgreesWithin
<1>12. ASSUME "rexec" \in K PROVE Within("rexec", t["rexec"], X)
  <2>1. DOMAIN At("rexec", t["rexec"]).has \subseteq RetrySource(n) \union {"retryplan", "rapproval", "rbdry"}
    BY <1>2, <1>12 DEF StageGives, RetryBounded
  <2> QED
    BY <1>1, <1>2, <1>7, <1>8, <1>9, <1>10, <1>11, <1>12, <2>1, AgreesWithin
<1>13. ASSUME "rclose" \in K PROVE Within("rclose", t["rclose"], X)
  <2>1. DOMAIN At("rclose", t["rclose"]).has
          \subseteq RetrySource(n) \union {"retryplan", "rapproval", "rbdry", "rexec"}
    BY <1>2, <1>13 DEF StageGives, RetryExecuted, RetryBounded
  <2> QED
    BY <1>1, <1>2, <1>7, <1>8, <1>9, <1>10, <1>11, <1>12, <1>13, <2>1, AgreesWithin
<1>14. ASSUME "routcome" \in K PROVE Within("routcome", t["routcome"], X)
  <2>1. DOMAIN At("routcome", t["routcome"]).has
          \subseteq RetrySource(n) \union {"retryplan", "rapproval", "rbdry", "rexec", "rclose"}
    BY <1>2, <1>14 DEF StageGives, RetryExecuted, RetryBounded
  <2> QED
    BY <1>1, <1>2, <1>7, <1>8, <1>9, <1>10, <1>11, <1>12, <1>13, <1>14, <2>1, AgreesWithin
<1>15. \A j \in DOMAIN t : Within(j, t[j], X)
  <2>1. K \subseteq {"retryplan", "rapproval", "rbdry", "rexec", "rclose", "routcome"}
    BY DEF K, RetryKinds
  <2> QED
    BY <1>1, <1>8, <1>9, <1>10, <1>11, <1>12, <1>13, <1>14, <2>1
<1> QED
  BY <1>6, <1>7, <1>15

\* What a retry's outcome rests on, with itself, is as that of a retry to be run.
Retraced(r) == With(At("routcome", r).has, "routcome", r)

LEMMA OutcomeRetry ==
  ASSUME StageShelf, NEW r \in Versions("routcome"), At("routcome", r).ok
  PROVE  LET n == At("routcome", r).epoch  h == At("routcome", r).has IN
         /\ n \in 1 .. Total /\ OnRetry(Retraced(r), n) /\ DOMAIN h = RetryExecuted(n) \union {"rclose"}
         /\ DOMAIN Retraced(r) = DOMAIN h \union {"routcome"} /\ Retraced(r)["routcome"] = r
         /\ \A j \in DOMAIN h : Retraced(r)[j] = h[j]
<1>1. PICK h, n, t, p : h = p.has /\ n = p.epoch /\ t = Retraced(r) /\ p = At("routcome", r)
  OBVIOUS
<1>2. /\ n \in 1 .. Total /\ DOMAIN h = RetryExecuted(n) \union {"rclose"}
      /\ \A j \in DOMAIN h : j \in AllKinds /\ h[j] \in Versions(j) /\ Of(p)[j] = At(j, h[j])
      /\ RetryLinks(h, Of(p), n)
  <2>1. /\ n \in 1 .. Total /\ DOMAIN h = StageGives(n)["routcome"]
        /\ \A j \in DOMAIN h : j \in AllKinds /\ h[j] \in Versions(j) /\ Of(p)[j] = At(j, h[j])
        /\ StageLinks("routcome", p, Of(p))
    BY <1>1, StagePacket DEF RetryKinds
  <2> QED
    BY <1>1, <2>1, Gives, Links
<1>3. "routcome" \notin DOMAIN h /\ "routcome" \in AllKinds
  BY <1>2, StagedKinds DEF RetryExecuted, RetryBounded, RetrySource, Base, RetryKinds
<1>4. /\ DOMAIN t = DOMAIN h \union {"routcome"} /\ t["routcome"] = r
      /\ \A k \in DOMAIN h : t[k] = h[k]
  BY <1>1, <1>3 DEF Retraced, With
<1>5. DOMAIN t = RetryExecuted(n) \union {"rclose", "routcome"}
  BY <1>2, <1>4
<1>6. \A j \in DOMAIN t : j \in AllKinds /\ t[j] \in Versions(j)
  BY <1>2, <1>3, <1>4
<1>7. \A k \in RetryKinds \intersect DOMAIN t :
        Settles(At(k, t[k]), t, n) /\ (k \notin {"rexec", "rclose"} => At(k, t[k]).ok)
  <2>1. ASSUME NEW k \in {"retryplan", "rapproval", "rbdry", "rexec", "rclose"}
        PROVE  Settles(At(k, t[k]), t, n) /\ (k \notin {"rexec", "rclose"} => At(k, t[k]).ok)
    <3>1. k \in DOMAIN h /\ k \in RetryKinds
      BY <1>2 DEF RetryExecuted, RetryBounded, RetryKinds
    <3>2. /\ t[k] = h[k] /\ h[k] \in Versions(k) /\ Settles(At(k, h[k]), h, n)
          /\ k \notin {"rexec", "rclose"} => At(k, h[k]).ok
      BY <1>2, <1>4, <3>1 DEF RetryLinks
    <3>3. DOMAIN At(k, h[k]).has \in {{}, StageGives(n)[k]}
      BY <3>1, <3>2, StagePacket DEF Settles
    <3>4. "routcome" \notin StageGives(n)[k]
      BY DEF StageGives, RetryExecuted, RetryBounded, RetrySource, Base
    <3>5. "routcome" \notin DOMAIN At(k, h[k]).has
      BY <3>3, <3>4
    <3>6. Agrees(At(k, h[k]), t)
      BY <1>4, <3>2, <3>5 DEF Settles, Agrees
    <3> QED
      BY <3>2, <3>6 DEF Settles
  <2>2. Settles(At("routcome", t["routcome"]), t, n) /\ At("routcome", t["routcome"]).ok
    BY <1>1, <1>4 DEF Settles, Agrees
  <2> QED
    BY <2>1, <2>2 DEF RetryKinds
<1>8. OnRetry(t, n)
  BY <1>5, <1>6, <1>7 DEF OnRetry
<1> QED
  BY <1>1, <1>2, <1>4, <1>8

LEMMA StagesAreOne ==
  ASSUME StageShelf
  PROVE  OneStageLine
<1> SUFFICES ASSUME NEW d \in Versions("done"), At("done", d).ok
             PROVE  OnePerStage(At("done", d).line)
  BY DEF OneStageLine
<1>1. PICK h, n, of : h = At("done", d).has /\ n = At("done", d).epoch /\ of = Of(At("done", d))
  OBVIOUS
<1>2. /\ n \in 1 .. Total /\ DOMAIN h \in Finishing(n)
      /\ \A j \in DOMAIN h : j \in AllKinds /\ h[j] \in Versions(j) /\ of[j] = At(j, h[j])
      /\ StageLinks("done", At("done", d), of)
  BY <1>1, StagePacket DEF StageKinds
<1>3. Refers(At("done", d)) /\ At("done", d).line \subseteq Lineage(h) \union Firsts
  BY <1>1, StageReads, StagedKinds DEF StageKinds, StageLined, Five
<1>4. n \in {1, 2}
  BY <1>2, TotalAssumption
<1>5. CASE "routcome" \in DOMAIN h
  <2>1. DOMAIN h = {"routcome"} \union RetryEnded(n)
    BY <1>2, <1>5 DEF Finishing, RetrySource, Base
  <2>2. PICK r \in Versions("routcome") : r = h["routcome"]
    BY <1>2, <1>5
  <2>3. At("routcome", r).ok /\ Settles(At("routcome", r), h, n)
    BY <1>1, <1>2, <1>5, <2>2, Links
  <2>4. /\ OnRetry(Retraced(r), n) /\ DOMAIN At("routcome", r).has = RetryExecuted(n) \union {"rclose"}
        /\ DOMAIN Retraced(r) = DOMAIN At("routcome", r).has \union {"routcome"} /\ Retraced(r)["routcome"] = r
        /\ \A j \in DOMAIN At("routcome", r).has : Retraced(r)[j] = At("routcome", r).has[j]
    BY <2>3, OutcomeRetry DEF Settles
  <2>5. PICK X : OnePerStage(X) /\ Firsts \subseteq X /\ \A j \in DOMAIN Retraced(r) : Within(j, Retraced(r)[j], X)
    BY <1>2, <2>4, RetryIsOne
  <2>6. RetryEnded(n) \subseteq RetryExecuted(n) \union {"rclose"} /\ "sign" \notin RetryEnded(n)
    BY DEF RetryEnded, RetryExecuted, RetryBounded, RetrySource, Base
  <2>7. \A j \in RetryEnded(n) : At("routcome", r).has[j] = h[j]
    BY <2>1, <2>3, <2>4, <2>6 DEF Settles, Agrees
  <2>8. \A j \in DOMAIN h : Within(j, h[j], X)
    BY <2>1, <2>2, <2>4, <2>5, <2>6, <2>7
  <2>9. At("done", d).line \subseteq X
    BY <1>1, <1>3, <2>5, <2>8, Climbs
  <2> QED
    BY <2>5, <2>9 DEF OnePerStage
<1>6. CASE "routcome" \notin DOMAIN h
  <2>1. DOMAIN h = RetrySource(n)
    BY <1>2, <1>6 DEF Finishing
  <2>2. PICK o \in Versions("souto") : o = h["souto"]
    BY <1>2, <2>1 DEF RetrySource
  <2>3. At("souto", o).ok /\ Settles(At("souto", o), h, n)
    <3>1. "souto" \in DOMAIN h
      BY <2>1 DEF RetrySource
    <3> QED
      BY <1>1, <1>2, <1>6, <2>2, <3>1, Links
  <2>4. PICK X : /\ OnePerStage(X) /\ Firsts \subseteq X
                 /\ Within("souto", o, X)
                 /\ \A j \in DOMAIN At("souto", o).has : Within(j, At("souto", o).has[j], X)
    BY <2>3, OutcomeIsOne
  <2>5. DOMAIN At("souto", o).has = Executed(n) \union {"close"}
    BY <2>3, OutcomeReads DEF Settles
  <2>6. RetrySource(n) \ {"souto"} \subseteq Executed(n) \union {"close"} /\ "sign" \notin RetrySource(n)
    BY <1>4 DEF Executed, Bounded, Approved, Readied, Source, RetrySource, Base
  <2>7. \A j \in RetrySource(n) \ {"souto"} : At("souto", o).has[j] = h[j]
    BY <2>1, <2>3, <2>5, <2>6 DEF Settles, Agrees
  <2>8. \A j \in DOMAIN h : Within(j, h[j], X)
    BY <2>1, <2>2, <2>4, <2>5, <2>6, <2>7
  <2>9. At("done", d).line \subseteq X
    BY <1>1, <1>3, <2>4, <2>8, Climbs
  <2> QED
    BY <2>4, <2>9 DEF OnePerStage
<1> QED
  BY <1>5, <1>6

LEMMA CompletedIsStarter ==
  ASSUME StageShelf, Starters
  PROVE  CompletedByStarter
<1> SUFFICES ASSUME NEW d \in Versions("done"), At("done", d).ok, At("done", d).epoch = 2,
                    NEW h, h = At("done", d).has
             PROVE  starter = IF "rexec" \in DOMAIN h THEN <<"rexec", h["rexec"]>> ELSE <<"exec", h["exec"]>>
  BY DEF CompletedByStarter
<1>1. PICK of : of = Of(At("done", d))
  OBVIOUS
<1>2. /\ DOMAIN h \in Finishing(2)
      /\ \A j \in DOMAIN h : j \in AllKinds /\ h[j] \in Versions(j) /\ of[j] = At(j, h[j])
      /\ StageLinks("done", At("done", d), of)
  BY <1>1, StagePacket DEF StageKinds
<1>3. CASE "routcome" \in DOMAIN h
  <2>1. DOMAIN h = {"routcome"} \union RetryEnded(2)
    BY <1>2, <1>3 DEF Finishing, RetrySource, Base
  <2>2. PICK r, x : r = h["routcome"] /\ x = h["rexec"]
    OBVIOUS
  <2>3. "rexec" \in DOMAIN h
    BY <2>1 DEF RetryEnded
  <2>4. /\ r \in Versions("routcome") /\ At("routcome", r).ok /\ Settles(At("routcome", r), h, 2)
        /\ x \in Versions("rexec") /\ At("rexec", x).status = "completed"
    BY <1>2, <1>3, <2>2, <2>3, Links
  <2>5. At("rexec", x).epoch = 2
    <3>1. PICK R, rof : R = At("routcome", r).has /\ rof = Of(At("routcome", r))
      OBVIOUS
    <3>2. /\ DOMAIN R = RetryExecuted(2) \union {"rclose"} /\ RetryLinks(R, rof, 2)
          /\ \A j \in DOMAIN R : rof[j] = At(j, R[j])
      <4>1. /\ DOMAIN R = StageGives(At("routcome", r).epoch)["routcome"]
            /\ StageLinks("routcome", At("routcome", r), rof)
            /\ \A j \in DOMAIN R : rof[j] = At(j, R[j])
        BY <2>4, <3>1, StagePacket DEF RetryKinds
      <4> QED
        BY <2>4, <3>1, <4>1, Gives, Links DEF Settles
    <3>3. "rexec" \in DOMAIN R
      BY <3>2 DEF RetryExecuted
    <3>4. R["rexec"] = x
      BY <2>2, <2>3, <2>4, <3>1, <3>3 DEF Settles, Agrees
    <3> QED
      BY <3>2, <3>3, <3>4 DEF RetryLinks, Settles
  <2> QED
    BY <2>2, <2>3, <2>4, <2>5 DEF Starters
<1>4. CASE "routcome" \notin DOMAIN h
  <2>1. DOMAIN h = RetrySource(2)
    BY <1>2, <1>4 DEF Finishing
  <2>2. "rexec" \notin DOMAIN h /\ {"exec", "souto"} \subseteq DOMAIN h
    BY <2>1 DEF RetrySource, Base
  <2>3. PICK o, x : o = h["souto"] /\ x = h["exec"]
    OBVIOUS
  <2>4. /\ o \in Versions("souto") /\ At("souto", o).ok /\ Settles(At("souto", o), h, 2)
        /\ x \in Versions("exec") /\ At("exec", x).status = "completed"
    BY <1>2, <1>4, <2>2, <2>3, Links
  <2>5. At("exec", x).epoch = 2
    <3>1. PICK g, gof : g = At("souto", o).has /\ gof = Of(At("souto", o))
      OBVIOUS
    <3>2. /\ DOMAIN g = Executed(2) \union {"close"} /\ TrailLinks(g, gof, 2)
          /\ \A j \in DOMAIN g : gof[j] = At(j, g[j])
      BY <2>4, <3>1, OutcomeReads DEF Settles
    <3>3. "exec" \in DOMAIN g
      BY <3>2 DEF Executed
    <3>4. g["exec"] = x
      BY <2>2, <2>3, <2>4, <3>1, <3>3 DEF Settles, Agrees
    <3> QED
      BY <3>2, <3>3, <3>4 DEF TrailLinks, Settles
  <2> QED
    BY <2>2, <2>3, <2>4, <2>5 DEF Starters
<1> QED
  BY <1>3, <1>4

------------------------------------------------------------------------------
(* The commands of the stages keep it so                                    *)

LEMMA WithIs ==
  ASSUME NEW f, NEW x, NEW v
  PROVE  /\ DOMAIN With(f, x, v) = DOMAIN f \union {x}
         /\ With(f, x, v)[x] = v
         /\ \A y \in DOMAIN f \ {x} : With(f, x, v)[y] = f[y]
BY DEF With

LEMMA OnlyIs ==
  ASSUME NEW f, NEW S
  PROVE  DOMAIN Only(f, S) = DOMAIN f \intersect S /\ \A y \in DOMAIN f \intersect S : Only(f, S)[y] = f[y]
BY DEF Only

\* The files that are given: one of each kind that the packet names.
LEMMA GivenIs ==
  ASSUME NEW kind, NEW v \in Versions(kind), kind \in AllKinds, NEW kinds, NEW ev \in Given(kind, v, kinds),
         Refers(At(kind, v)), kind \notin DOMAIN At(kind, v).has
  PROVE  /\ Named(ev, {kind} \union (DOMAIN At(kind, v).has \intersect kinds))
         /\ DOMAIN At(kind, v).has \intersect kinds # {} /\ ev[kind] = v
<1> DEFINE has == At(kind, v).has
           own == With(Only(has, kinds), kind, v)
           named == DOMAIN has \intersect kinds
<1>1. /\ DOMAIN own = {kind} \union named /\ own[kind] = v
      /\ \A j \in named : own[j] = has[j]
  <2>1. PICK g : g = Only(has, kinds)
    OBVIOUS
  <2>2. DOMAIN g = named /\ \A j \in named : g[j] = has[j]
    BY <2>1, OnlyIs
  <2>3. DOMAIN With(g, kind, v) = DOMAIN g \union {kind} /\ With(g, kind, v)[kind] = v
        /\ \A y \in DOMAIN g \ {kind} : With(g, kind, v)[y] = g[y]
    BY DEF With
  <2>4. kind \notin named
    OBVIOUS
  <2>5. own = With(g, kind, v)
    BY <2>1
  <2> HIDE DEF has, named, own
  <2> QED
    BY <2>2, <2>3, <2>4, <2>5
<1>2. \A j \in DOMAIN own : j \in AllKinds /\ own[j] \in Versions(j)
  BY <1>1 DEF Refers
<1>3. named # {} /\ (ev = own \/ \E k \in named : \E w \in Versions(k) : ev = [own EXCEPT ![k] = w])
  BY DEF Given
<1>4. kind \notin named
  OBVIOUS
<1> HIDE DEF own, named, has
<1>5. CASE ev = own
  BY <1>1, <1>2, <1>3, <1>5 DEF has, named, Named
<1>6. ASSUME NEW k \in named, NEW w \in Versions(k), ev = [own EXCEPT ![k] = w]
      PROVE  /\ DOMAIN ev = {kind} \union named /\ ev[kind] = v
             /\ \A j \in DOMAIN ev : j \in AllKinds /\ ev[j] \in Versions(j)
  BY <1>1, <1>2, <1>4, <1>6
<1> QED
  BY <1>3, <1>5, <1>6 DEF named, has, Named

LEMMA Presented ==
  ASSUME StageShelf, NEW kind \in (StageKinds \union RetryKinds \union {"stage"}) \ {"cont", "done"},
         NEW v \in Versions(kind), NEW kinds, NEW ev \in Given(kind, v, kinds),
         kind \notin StageGives(At(kind, v).epoch)[kind]
  PROVE  /\ At(kind, v).epoch \in 1 .. Total /\ (kind \in DOMAIN Stages => At(kind, v).epoch \in Stages[kind])
         /\ Named(ev, {kind} \union (StageGives(At(kind, v).epoch)[kind] \intersect kinds)) /\ ev[kind] = v
<1>0. PICK n : n = At(kind, v).epoch
  OBVIOUS
<1>1. StageFits(kind, At(kind, v), Of(At(kind, v))) /\ Refers(At(kind, v)) /\ kind \in AllKinds
  BY StageReads, StagedKinds
<1>2. Shaped(kind, At(kind, v))
  BY <1>1 DEF StageFits
<1>3. DOMAIN At(kind, v).has \in {{}, StageGives(n)[kind]} /\ kind \notin DOMAIN At(kind, v).has
  BY <1>0, <1>2 DEF Shaped
<1>4. /\ Named(ev, {kind} \union (DOMAIN At(kind, v).has \intersect kinds))
      /\ DOMAIN At(kind, v).has \intersect kinds # {} /\ ev[kind] = v
  BY <1>1, <1>3, GivenIs
<1>5. DOMAIN At(kind, v).has = StageGives(n)[kind]
  BY <1>3, <1>4
<1>6. n \in 1 .. Total /\ (kind \in DOMAIN Stages => n \in Stages[kind])
  BY <1>0, <1>2, <1>4 DEF Shaped
<1> QED
  BY <1>0, <1>4, <1>5, <1>6

LEMMA PresentedNames ==
  ASSUME StageShelf, NEW kind \in (StageKinds \union RetryKinds) \ {"cont", "done"},
         NEW v \in Versions(kind), NEW kinds, NEW ev \in Given(kind, v, kinds)
  PROVE  DOMAIN At(kind, v).has = StageGives(At(kind, v).epoch)[kind]
<1>1. StageFits(kind, At(kind, v), Of(At(kind, v)))
  BY StageReads, StagedKinds
<1>2. Shaped(kind, At(kind, v))
  BY <1>1 DEF StageFits
<1>3. DOMAIN At(kind, v).has \intersect kinds # {}
  BY DEF Given
<1> QED
  BY <1>2, <1>3 DEF Shaped

LEMMA StagePrints ==
  ASSUME Stocked, StageShelf, NEW k \in AllKinds \ Five, NEW p, StageGood(k, p), shelf' = Place(k, p)
  PROVE  StageShelf'
<1>1. ASSUME NEW j \in AllKinds, NEW v \in DOMAIN shelf'[j], NEW q, q = shelf'[j][v]
      PROVE  StageGood(j, q)'
  <2>1. (v \in DOMAIN shelf[j] /\ q = shelf[j][v]) \/ (j = k /\ q = p)
    BY <1>1, Shelved DEF Keeps
  <2>2. StageGood(j, q)
    BY <2>1 DEF StageShelf, Versions, At
  <2>3. Keeps
    BY Shelved
  <2>4. Refers(q) /\ Of(q)' = Of(q) /\ Lineage(q.has)' = Lineage(q.has) /\ Refers(q)'
    BY <2>2, <2>3, OfLasts DEF StageGood
  <2>5. Versions("sign") \subseteq Versions("sign")'
    BY <2>3 DEF Keeps, Versions, AllKinds, RunnerKinds
  <2>6. Holds(j, q)' /\ StageLined(j, q)'
    BY <2>2, <2>4, <2>5 DEF StageGood, Holds, StageLined
  <2> QED
    BY <2>2, <2>4, <2>6 DEF StageGood
<1>2. \A j \in Five : DOMAIN shelf'[j] = {1}
  BY Shelved, StagedKinds DEF StageShelf, Versions
<1> QED
  BY <1>1, <1>2 DEF StageShelf, Versions, At

LEMMA StageMade ==
  ASSUME NEW k \in StageKinds \union RetryKinds, NEW p, p.ok \in BOOLEAN, Refers(p), p.line = Lineage(p.has),
         Shaped(k, p), Holds(k, p), p.ok => StageLinks(k, p, Of(p))
  PROVE  StageGood(k, p)
<1>1. k \in Staged /\ k \notin Five \union {"sign", "started", "stage"}
  BY DEF Staged, StageKinds, RetryKinds, Five
<1> QED
  BY <1>1 DEF StageGood, StageLined, StageFits

LEMMA AcceptedIs ==
  ASSUME NEW next, NEW has, NEW epoch, NEW status
  PROVE  LET p == Accepted(next, has, epoch, status) IN
         p.ok = TRUE /\ p.has = has /\ p.epoch = epoch /\ p.next = next /\ p.status = status
         /\ p.line = Lineage(has)
         /\ DOMAIN p = {"ok", "next", "has", "epoch", "status", "line"}
BY DEF Accepted

LEMMA StageRests ==
  ASSUME Stocked, StageShelf, shelf' = shelf
  PROVE  Stocked' /\ StageShelf' /\ Keeps
<1>1. Stocked' /\ Keeps
  BY DEF Stocked, Keeps
<1>2. ASSUME NEW j \in AllKinds, NEW v \in DOMAIN shelf'[j], NEW q, q = shelf'[j][v]
      PROVE  StageGood(j, q)'
  <2>1. StageGood(j, q)
    BY <1>2 DEF StageShelf, Versions, At
  <2>2. Refers(q)' /\ Of(q)' = Of(q) /\ Lineage(q.has)' = Lineage(q.has)
    BY <1>1, <2>1, OfLasts DEF StageGood
  <2>3. Holds(j, q)' /\ StageLined(j, q)'
    BY <2>1, <2>2 DEF StageGood, Holds, StageLined, Versions
  <2> QED
    BY <2>1, <2>2, <2>3 DEF StageGood
<1>3. \A j \in Five : Versions(j)' = {1}
  BY DEF StageShelf, Versions
<1> QED
  BY <1>1, <1>2, <1>3 DEF StageShelf, Versions, At

------------------------------------------------------------------------------
(* What the commands of the stages print                                    *)

StageSays(k) == \E p : StageGood(k, p) /\ shelf' = Place(k, p)

LEMMA StageReplies ==
  ASSUME NEW k \in StageKinds \union RetryKinds, NEW n,
         NEW codes, NEW accepted, NEW table, NEW other, StageReply(k, n, codes, accepted, table, other),
         codes = {} => StageGood(k, accepted)
  PROVE  StageSays(k)
<1>1. CASE codes = {}
  BY <1>1 DEF StageReply, StageIssue, StageSays
<1>2. CASE codes # {}
  <2>1. PICK r : r = Recommend(codes, "", table, other)
    OBVIOUS
  <2>2. PICK p : p = [Blocked(r) EXCEPT !.epoch = n]
    OBVIOUS
  <2>3. p.ok = FALSE /\ p.has = <<>> /\ p.line = {} /\ p.status = "blocked" /\ DOMAIN p.has = {}
    BY <2>2 DEF Blocked
  <2>4. p.ok \in BOOLEAN /\ ~p.ok /\ p.status = "blocked" /\ DOMAIN p.has = {}
    BY <2>3
  <2>5. Refers(p) /\ p.line = Lineage(p.has)
    BY <2>3 DEF Refers, Lineage
  <2>6. Shaped(k, p) /\ Holds(k, p)
    BY <2>4 DEF Shaped, Holds
  <2>7. StageGood(k, p)
    BY <2>4, <2>5, <2>6, StageMade
  <2>8. shelf' = Place(k, p)
    BY <1>2, <2>1, <2>2 DEF StageReply, StageIssue
  <2> QED
    BY <2>7, <2>8 DEF StageSays
<1> QED
  BY <1>1, <1>2

LEMMA StageAccepts ==
  ASSUME NEW k \in StageKinds \union RetryKinds, k \notin {"stapproval", "rbdry"},
         NEW next, NEW has, NEW n \in 1 .. Total, NEW status,
         \A j \in DOMAIN has : j \in AllKinds /\ has[j] \in Versions(j),
         k \in {"bind", "cont"} => n = 2, k = "cont" => DOMAIN has \in Going,
         k = "done" => DOMAIN has \in Finishing(n), k \notin {"cont", "done"} => DOMAIN has = StageGives(n)[k],
         NEW p, p = Accepted(next, has, n, status),
         StageLinks(k, p, [j \in DOMAIN has |-> At(j, has[j])])
  PROVE  StageGood(k, p)
<1>1. p.ok = TRUE /\ p.has = has /\ p.epoch = n /\ p.line = Lineage(has)
  BY DEF Accepted
<1>2. p.ok \in BOOLEAN /\ Refers(p) /\ p.line = Lineage(p.has)
  BY <1>1 DEF Refers
<1>3. Of(p) = [j \in DOMAIN has |-> At(j, has[j])]
  BY <1>1 DEF Of
<1>4. Shaped(k, p)
  <2>1. k \in DOMAIN Stages => p.epoch \in Stages[k]
    BY <1>1 DEF Stages, StageKinds, RetryKinds
  <2> QED
    BY <1>1, <2>1 DEF Shaped
<1>5. Holds(k, p)
  BY DEF Holds
<1>6. StageLinks(k, p, Of(p))
  BY <1>3
<1> QED
  BY <1>2, <1>4, <1>5, <1>6, StageMade

\* What was to be agreed with was.
LEMMA Unblocked ==
  ASSUME NEW kind, NEW ev, NEW code
  PROVE  /\ Anchors(kind, ev, code) = {} => Agrees(At(kind, ev[kind]), ev)
         /\ Usable(kind, ev, code) = {} => At(kind, ev[kind]).ok
         /\ \A n : OfStage(kind, ev, n, code) = {} => At(kind, ev[kind]).epoch = n
BY DEF Anchors, Usable, OfStage, Agrees, When

LEMMA ApprovalIs ==
  ASSUME StageShelf, NEW m \in Versions("sign"), NEW kind, NEW v, Verify(m, kind, v) = {}
  PROVE  At("sign", m).has = Signs1(kind, v)
<1>1. StageFits("sign", At("sign", m), Of(At("sign", m)))
  BY StageReads, StagedKinds
<1>2. PICK j : DOMAIN At("sign", m).has = {j} /\ At("sign", m).has = Signs1(j, At("sign", m).has[j])
  BY <1>1 DEF StageFits
<1>3. j = kind /\ At("sign", m).has[kind] = v
  BY <1>2, VerifiedOf DEF Signs1
<1> QED
  BY <1>2, <1>3

LEMMA SourceIs ==
  Source(1) = Base \union {"stage"} /\ Source(2) = Base \union {"cont", "bind"}
BY DEF Source


LEMMA FilesXreadyStapproval ==
  ASSUME StageShelf, NEW f \in Files("xready", "stapproval", Source)
  PROVE  /\ f.n \in 1 .. Total /\ Named(f.ev, Readied(f.n))
         /\ f.n = At("xready", f.ev["xready"]).epoch
<1>1. PICK v \in Versions("xready") : f.n = At("xready", v).epoch /\ f.ev \in Given("xready", v, Source(f.n))
  BY DEF Files, StageOf
<1>2. PICK ev, G : ev = f.ev /\ G = Source(f.n)
  OBVIOUS
<1>3. /\ "xready" \in (StageKinds \union RetryKinds \union {"stage"}) \ {"cont", "done"}
      /\ ev \in Given("xready", v, G)
  BY <1>1, <1>2 DEF StageKinds, RetryKinds
<1>4. "xready" \notin StageGives(At("xready", v).epoch)["xready"]
  BY NoneGivesItself
<1>5. {"xready"} \union (StageGives(f.n)["xready"] \intersect Source(f.n)) = Readied(f.n)
  BY Gives DEF Readied
<1>6. At("xready", v).epoch \in 1 .. Total
  BY <1>3, <1>4, Presented
<1>7. Named(ev, {"xready"} \union (StageGives(At("xready", v).epoch)["xready"] \intersect G))
  BY <1>3, <1>4, Presented
<1>8. ev["xready"] = v
  BY <1>3, <1>4, Presented
<1> QED
  BY <1>1, <1>2, <1>5, <1>6, <1>7, <1>8

LEMMA FilesStapprovalBdry ==
  ASSUME StageShelf, NEW f \in Files("stapproval", "bdry", Readied)
  PROVE  /\ f.n \in 1 .. Total /\ Named(f.ev, Approved(f.n))
         /\ f.n = At("stapproval", f.ev["stapproval"]).epoch
<1>1. PICK v \in Versions("stapproval") : f.n = At("stapproval", v).epoch /\ f.ev \in Given("stapproval", v, Readied(f.n))
  BY DEF Files, StageOf
<1>2. PICK ev, G : ev = f.ev /\ G = Readied(f.n)
  OBVIOUS
<1>3. /\ "stapproval" \in (StageKinds \union RetryKinds \union {"stage"}) \ {"cont", "done"}
      /\ ev \in Given("stapproval", v, G)
  BY <1>1, <1>2 DEF StageKinds, RetryKinds
<1>4. "stapproval" \notin StageGives(At("stapproval", v).epoch)["stapproval"]
  BY NoneGivesItself
<1>5. {"stapproval"} \union (StageGives(f.n)["stapproval"] \intersect Readied(f.n)) = Approved(f.n)
  BY Gives DEF Approved
<1>6. At("stapproval", v).epoch \in 1 .. Total
  BY <1>3, <1>4, Presented
<1>7. Named(ev, {"stapproval"} \union (StageGives(At("stapproval", v).epoch)["stapproval"] \intersect G))
  BY <1>3, <1>4, Presented
<1>8. ev["stapproval"] = v
  BY <1>3, <1>4, Presented
<1> QED
  BY <1>1, <1>2, <1>5, <1>6, <1>7, <1>8

LEMMA FilesExecClose ==
  ASSUME StageShelf, NEW f \in Files("exec", "close", Bounded)
  PROVE  /\ f.n \in 1 .. Total /\ Named(f.ev, Executed(f.n))
         /\ f.n = At("exec", f.ev["exec"]).epoch
<1>1. PICK v \in Versions("exec") : f.n = At("exec", v).epoch /\ f.ev \in Given("exec", v, Bounded(f.n))
  BY DEF Files, StageOf
<1>2. PICK ev, G : ev = f.ev /\ G = Bounded(f.n)
  OBVIOUS
<1>3. /\ "exec" \in (StageKinds \union RetryKinds \union {"stage"}) \ {"cont", "done"}
      /\ ev \in Given("exec", v, G)
  BY <1>1, <1>2 DEF StageKinds, RetryKinds
<1>4. "exec" \notin StageGives(At("exec", v).epoch)["exec"]
  BY NoneGivesItself
<1>5. {"exec"} \union (StageGives(f.n)["exec"] \intersect Bounded(f.n)) = Executed(f.n)
  BY Gives DEF Executed
<1>6. At("exec", v).epoch \in 1 .. Total
  BY <1>3, <1>4, Presented
<1>7. Named(ev, {"exec"} \union (StageGives(At("exec", v).epoch)["exec"] \intersect G))
  BY <1>3, <1>4, Presented
<1>8. ev["exec"] = v
  BY <1>3, <1>4, Presented
<1> QED
  BY <1>1, <1>2, <1>5, <1>6, <1>7, <1>8

LEMMA FilesCloseSouto ==
  ASSUME StageShelf, NEW f \in Files("close", "souto", Executed)
  PROVE  /\ f.n \in 1 .. Total /\ Named(f.ev, Executed(f.n) \union {"close"})
         /\ f.n = At("close", f.ev["close"]).epoch
         /\ DOMAIN At("close", f.ev["close"]).has = Executed(f.n)
<1>1. PICK v \in Versions("close") : f.n = At("close", v).epoch /\ f.ev \in Given("close", v, Executed(f.n))
  BY DEF Files, StageOf
<1>2. PICK ev, G : ev = f.ev /\ G = Executed(f.n)
  OBVIOUS
<1>3. /\ "close" \in (StageKinds \union RetryKinds \union {"stage"}) \ {"cont", "done"}
      /\ ev \in Given("close", v, G)
  BY <1>1, <1>2 DEF StageKinds, RetryKinds
<1>4. "close" \notin StageGives(At("close", v).epoch)["close"]
  BY NoneGivesItself
<1>5. {"close"} \union (StageGives(f.n)["close"] \intersect Executed(f.n)) = Executed(f.n) \union {"close"}
  BY Gives
<1>6. At("close", v).epoch \in 1 .. Total
  BY <1>3, <1>4, Presented
<1>7. Named(ev, {"close"} \union (StageGives(At("close", v).epoch)["close"] \intersect G))
  BY <1>3, <1>4, Presented
<1>8. ev["close"] = v
  BY <1>3, <1>4, Presented
<1>9. DOMAIN At("close", v).has = StageGives(At("close", v).epoch)["close"]
  BY <1>3, PresentedNames DEF StageKinds
<1> QED
  BY <1>1, <1>2, <1>5, <1>6, <1>7, <1>8, <1>9, Gives

LEMMA FilesSoutoCont ==
  ASSUME StageShelf, NEW f \in Files("souto", "cont", Settled)
  PROVE  /\ f.n \in 1 .. Total /\ Named(f.ev, RetrySource(f.n))
         /\ f.n = At("souto", f.ev["souto"]).epoch
<1>1. PICK v \in Versions("souto") : f.n = At("souto", v).epoch /\ f.ev \in Given("souto", v, Settled(f.n))
  BY DEF Files, StageOf
<1>2. PICK ev, G : ev = f.ev /\ G = Settled(f.n)
  OBVIOUS
<1>3. /\ "souto" \in (StageKinds \union RetryKinds \union {"stage"}) \ {"cont", "done"}
      /\ ev \in Given("souto", v, G)
  BY <1>1, <1>2 DEF StageKinds, RetryKinds
<1>4. "souto" \notin StageGives(At("souto", v).epoch)["souto"]
  BY NoneGivesItself
<1>5. {"souto"} \union (StageGives(f.n)["souto"] \intersect Settled(f.n)) = RetrySource(f.n)
  <2>1. RetrySource(f.n) \ {"souto"} \subseteq Executed(f.n) \union {"close"}
    BY DEF Executed, Bounded, Approved, Readied, Source, RetrySource, Base
  <2>2. "souto" \in RetrySource(f.n)
    BY DEF RetrySource
  <2> QED
    BY <2>1, <2>2, Gives DEF Settled
<1>6. At("souto", v).epoch \in 1 .. Total
  BY <1>3, <1>4, Presented
<1>7. Named(ev, {"souto"} \union (StageGives(At("souto", v).epoch)["souto"] \intersect G))
  BY <1>3, <1>4, Presented
<1>8. ev["souto"] = v
  BY <1>3, <1>4, Presented
<1> QED
  BY <1>1, <1>2, <1>5, <1>6, <1>7, <1>8

LEMMA FilesSoutoDone ==
  ASSUME StageShelf, NEW f \in Files("souto", "done", Settled)
  PROVE  /\ f.n \in 1 .. Total /\ Named(f.ev, RetrySource(f.n))
         /\ f.n = At("souto", f.ev["souto"]).epoch
<1>1. PICK v \in Versions("souto") : f.n = At("souto", v).epoch /\ f.ev \in Given("souto", v, Settled(f.n))
  BY DEF Files, StageOf
<1>2. PICK ev, G : ev = f.ev /\ G = Settled(f.n)
  OBVIOUS
<1>3. /\ "souto" \in (StageKinds \union RetryKinds \union {"stage"}) \ {"cont", "done"}
      /\ ev \in Given("souto", v, G)
  BY <1>1, <1>2 DEF StageKinds, RetryKinds
<1>4. "souto" \notin StageGives(At("souto", v).epoch)["souto"]
  BY NoneGivesItself
<1>5. {"souto"} \union (StageGives(f.n)["souto"] \intersect Settled(f.n)) = RetrySource(f.n)
  <2>1. RetrySource(f.n) \ {"souto"} \subseteq Executed(f.n) \union {"close"}
    BY DEF Executed, Bounded, Approved, Readied, Source, RetrySource, Base
  <2>2. "souto" \in RetrySource(f.n)
    BY DEF RetrySource
  <2> QED
    BY <2>1, <2>2, Gives DEF Settled
<1>6. At("souto", v).epoch \in 1 .. Total
  BY <1>3, <1>4, Presented
<1>7. Named(ev, {"souto"} \union (StageGives(At("souto", v).epoch)["souto"] \intersect G))
  BY <1>3, <1>4, Presented
<1>8. ev["souto"] = v
  BY <1>3, <1>4, Presented
<1> QED
  BY <1>1, <1>2, <1>5, <1>6, <1>7, <1>8

LEMMA FilesSoutoRetryplan ==
  ASSUME StageShelf, NEW f \in Files("souto", "retryplan", Settled)
  PROVE  /\ f.n \in 1 .. Total /\ Named(f.ev, RetrySource(f.n))
         /\ f.n = At("souto", f.ev["souto"]).epoch
<1>1. PICK v \in Versions("souto") : f.n = At("souto", v).epoch /\ f.ev \in Given("souto", v, Settled(f.n))
  BY DEF Files, StageOf
<1>2. PICK ev, G : ev = f.ev /\ G = Settled(f.n)
  OBVIOUS
<1>3. /\ "souto" \in (StageKinds \union RetryKinds \union {"stage"}) \ {"cont", "done"}
      /\ ev \in Given("souto", v, G)
  BY <1>1, <1>2 DEF StageKinds, RetryKinds
<1>4. "souto" \notin StageGives(At("souto", v).epoch)["souto"]
  BY NoneGivesItself
<1>5. {"souto"} \union (StageGives(f.n)["souto"] \intersect Settled(f.n)) = RetrySource(f.n)
  <2>1. RetrySource(f.n) \ {"souto"} \subseteq Executed(f.n) \union {"close"}
    BY DEF Executed, Bounded, Approved, Readied, Source, RetrySource, Base
  <2>2. "souto" \in RetrySource(f.n)
    BY DEF RetrySource
  <2> QED
    BY <2>1, <2>2, Gives DEF Settled
<1>6. At("souto", v).epoch \in 1 .. Total
  BY <1>3, <1>4, Presented
<1>7. Named(ev, {"souto"} \union (StageGives(At("souto", v).epoch)["souto"] \intersect G))
  BY <1>3, <1>4, Presented
<1>8. ev["souto"] = v
  BY <1>3, <1>4, Presented
<1> QED
  BY <1>1, <1>2, <1>5, <1>6, <1>7, <1>8

LEMMA FilesRetryplanRapproval ==
  ASSUME StageShelf, NEW f \in Files("retryplan", "rapproval", RetrySource)
  PROVE  /\ f.n \in 1 .. Total /\ Named(f.ev, RetrySource(f.n) \union {"retryplan"})
         /\ f.n = At("retryplan", f.ev["retryplan"]).epoch
<1>1. PICK v \in Versions("retryplan") : f.n = At("retryplan", v).epoch /\ f.ev \in Given("retryplan", v, RetrySource(f.n))
  BY DEF Files, StageOf
<1>2. PICK ev, G : ev = f.ev /\ G = RetrySource(f.n)
  OBVIOUS
<1>3. /\ "retryplan" \in (StageKinds \union RetryKinds \union {"stage"}) \ {"cont", "done"}
      /\ ev \in Given("retryplan", v, G)
  BY <1>1, <1>2 DEF StageKinds, RetryKinds
<1>4. "retryplan" \notin StageGives(At("retryplan", v).epoch)["retryplan"]
  BY NoneGivesItself
<1>5. {"retryplan"} \union (StageGives(f.n)["retryplan"] \intersect RetrySource(f.n)) = RetrySource(f.n) \union {"retryplan"}
  BY Gives
<1>6. At("retryplan", v).epoch \in 1 .. Total
  BY <1>3, <1>4, Presented
<1>7. Named(ev, {"retryplan"} \union (StageGives(At("retryplan", v).epoch)["retryplan"] \intersect G))
  BY <1>3, <1>4, Presented
<1>8. ev["retryplan"] = v
  BY <1>3, <1>4, Presented
<1> QED
  BY <1>1, <1>2, <1>5, <1>6, <1>7, <1>8

LEMMA FilesRapprovalRbdry ==
  ASSUME StageShelf, NEW f \in Files("rapproval", "rbdry", RetryBounded)
  PROVE  /\ f.n \in 1 .. Total /\ Named(f.ev, RetrySource(f.n) \union {"retryplan", "rapproval"})
         /\ f.n = At("rapproval", f.ev["rapproval"]).epoch
<1>1. PICK v \in Versions("rapproval") : f.n = At("rapproval", v).epoch /\ f.ev \in Given("rapproval", v, RetryBounded(f.n))
  BY DEF Files, StageOf
<1>2. PICK ev, G : ev = f.ev /\ G = RetryBounded(f.n)
  OBVIOUS
<1>3. /\ "rapproval" \in (StageKinds \union RetryKinds \union {"stage"}) \ {"cont", "done"}
      /\ ev \in Given("rapproval", v, G)
  BY <1>1, <1>2 DEF StageKinds, RetryKinds
<1>4. "rapproval" \notin StageGives(At("rapproval", v).epoch)["rapproval"]
  BY NoneGivesItself
<1>5. {"rapproval"} \union (StageGives(f.n)["rapproval"] \intersect RetryBounded(f.n)) = RetrySource(f.n) \union {"retryplan", "rapproval"}
  BY Gives DEF RetryBounded, RetrySource, Base
<1>6. At("rapproval", v).epoch \in 1 .. Total
  BY <1>3, <1>4, Presented
<1>7. Named(ev, {"rapproval"} \union (StageGives(At("rapproval", v).epoch)["rapproval"] \intersect G))
  BY <1>3, <1>4, Presented
<1>8. ev["rapproval"] = v
  BY <1>3, <1>4, Presented
<1> QED
  BY <1>1, <1>2, <1>5, <1>6, <1>7, <1>8

LEMMA FilesRexecRclose ==
  ASSUME StageShelf, NEW f \in Files("rexec", "rclose", RetryBounded)
  PROVE  /\ f.n \in 1 .. Total /\ Named(f.ev, RetryExecuted(f.n))
         /\ f.n = At("rexec", f.ev["rexec"]).epoch
<1>1. PICK v \in Versions("rexec") : f.n = At("rexec", v).epoch /\ f.ev \in Given("rexec", v, RetryBounded(f.n))
  BY DEF Files, StageOf
<1>2. PICK ev, G : ev = f.ev /\ G = RetryBounded(f.n)
  OBVIOUS
<1>3. /\ "rexec" \in (StageKinds \union RetryKinds \union {"stage"}) \ {"cont", "done"}
      /\ ev \in Given("rexec", v, G)
  BY <1>1, <1>2 DEF StageKinds, RetryKinds
<1>4. "rexec" \notin StageGives(At("rexec", v).epoch)["rexec"]
  BY NoneGivesItself
<1>5. {"rexec"} \union (StageGives(f.n)["rexec"] \intersect RetryBounded(f.n)) = RetryExecuted(f.n)
  BY Gives DEF RetryExecuted
<1>6. At("rexec", v).epoch \in 1 .. Total
  BY <1>3, <1>4, Presented
<1>7. Named(ev, {"rexec"} \union (StageGives(At("rexec", v).epoch)["rexec"] \intersect G))
  BY <1>3, <1>4, Presented
<1>8. ev["rexec"] = v
  BY <1>3, <1>4, Presented
<1> QED
  BY <1>1, <1>2, <1>5, <1>6, <1>7, <1>8

LEMMA FilesRcloseRoutcome ==
  ASSUME StageShelf, NEW f \in Files("rclose", "routcome", RetryExecuted)
  PROVE  /\ f.n \in 1 .. Total /\ Named(f.ev, RetryExecuted(f.n) \union {"rclose"})
         /\ f.n = At("rclose", f.ev["rclose"]).epoch
<1>1. PICK v \in Versions("rclose") : f.n = At("rclose", v).epoch /\ f.ev \in Given("rclose", v, RetryExecuted(f.n))
  BY DEF Files, StageOf
<1>2. PICK ev, G : ev = f.ev /\ G = RetryExecuted(f.n)
  OBVIOUS
<1>3. /\ "rclose" \in (StageKinds \union RetryKinds \union {"stage"}) \ {"cont", "done"}
      /\ ev \in Given("rclose", v, G)
  BY <1>1, <1>2 DEF StageKinds, RetryKinds
<1>4. "rclose" \notin StageGives(At("rclose", v).epoch)["rclose"]
  BY NoneGivesItself
<1>5. {"rclose"} \union (StageGives(f.n)["rclose"] \intersect RetryExecuted(f.n)) = RetryExecuted(f.n) \union {"rclose"}
  BY Gives
<1>6. At("rclose", v).epoch \in 1 .. Total
  BY <1>3, <1>4, Presented
<1>7. Named(ev, {"rclose"} \union (StageGives(At("rclose", v).epoch)["rclose"] \intersect G))
  BY <1>3, <1>4, Presented
<1>8. ev["rclose"] = v
  BY <1>3, <1>4, Presented
<1> QED
  BY <1>1, <1>2, <1>5, <1>6, <1>7, <1>8

LEMMA FilesRoutcomeCont ==
  ASSUME StageShelf, NEW f \in Files("routcome", "cont", RetryEnded)
  PROVE  /\ f.n \in 1 .. Total /\ Named(f.ev, {"routcome"} \union RetryEnded(f.n))
         /\ f.n = At("routcome", f.ev["routcome"]).epoch
<1>1. PICK v \in Versions("routcome") : f.n = At("routcome", v).epoch /\ f.ev \in Given("routcome", v, RetryEnded(f.n))
  BY DEF Files, StageOf
<1>2. PICK ev, G : ev = f.ev /\ G = RetryEnded(f.n)
  OBVIOUS
<1>3. /\ "routcome" \in (StageKinds \union RetryKinds \union {"stage"}) \ {"cont", "done"}
      /\ ev \in Given("routcome", v, G)
  BY <1>1, <1>2 DEF StageKinds, RetryKinds
<1>4. "routcome" \notin StageGives(At("routcome", v).epoch)["routcome"]
  BY NoneGivesItself
<1>5. {"routcome"} \union (StageGives(f.n)["routcome"] \intersect RetryEnded(f.n)) = {"routcome"} \union RetryEnded(f.n)
  <2>1. RetryEnded(f.n) \subseteq RetryExecuted(f.n) \union {"rclose"}
    BY DEF RetryEnded, RetryExecuted, RetryBounded
  <2> QED
    BY <2>1, Gives
<1>6. At("routcome", v).epoch \in 1 .. Total
  BY <1>3, <1>4, Presented
<1>7. Named(ev, {"routcome"} \union (StageGives(At("routcome", v).epoch)["routcome"] \intersect G))
  BY <1>3, <1>4, Presented
<1>8. ev["routcome"] = v
  BY <1>3, <1>4, Presented
<1> QED
  BY <1>1, <1>2, <1>5, <1>6, <1>7, <1>8

LEMMA FilesRoutcomeDone ==
  ASSUME StageShelf, NEW f \in Files("routcome", "done", RetryEnded)
  PROVE  /\ f.n \in 1 .. Total /\ Named(f.ev, {"routcome"} \union RetryEnded(f.n))
         /\ f.n = At("routcome", f.ev["routcome"]).epoch
<1>1. PICK v \in Versions("routcome") : f.n = At("routcome", v).epoch /\ f.ev \in Given("routcome", v, RetryEnded(f.n))
  BY DEF Files, StageOf
<1>2. PICK ev, G : ev = f.ev /\ G = RetryEnded(f.n)
  OBVIOUS
<1>3. /\ "routcome" \in (StageKinds \union RetryKinds \union {"stage"}) \ {"cont", "done"}
      /\ ev \in Given("routcome", v, G)
  BY <1>1, <1>2 DEF StageKinds, RetryKinds
<1>4. "routcome" \notin StageGives(At("routcome", v).epoch)["routcome"]
  BY NoneGivesItself
<1>5. {"routcome"} \union (StageGives(f.n)["routcome"] \intersect RetryEnded(f.n)) = {"routcome"} \union RetryEnded(f.n)
  <2>1. RetryEnded(f.n) \subseteq RetryExecuted(f.n) \union {"rclose"}
    BY DEF RetryEnded, RetryExecuted, RetryBounded
  <2> QED
    BY <2>1, Gives
<1>6. At("routcome", v).epoch \in 1 .. Total
  BY <1>3, <1>4, Presented
<1>7. Named(ev, {"routcome"} \union (StageGives(At("routcome", v).epoch)["routcome"] \intersect G))
  BY <1>3, <1>4, Presented
<1>8. ev["routcome"] = v
  BY <1>3, <1>4, Presented
<1> QED
  BY <1>1, <1>2, <1>5, <1>6, <1>7, <1>8

LEMMA FilesBdry ==
  ASSUME StageShelf, NEW v \in Versions("bdry"), NEW ev \in Given("bdry", v, Approved(At("bdry", v).epoch))
  PROVE  At("bdry", v).epoch \in 1 .. Total /\ Named(ev, Bounded(At("bdry", v).epoch)) /\ ev["bdry"] = v
<1>2. PICK G : G = Approved(At("bdry", v).epoch)
  OBVIOUS
<1>3. /\ "bdry" \in (StageKinds \union RetryKinds \union {"stage"}) \ {"cont", "done"}
      /\ ev \in Given("bdry", v, G)
  BY <1>2 DEF StageKinds, RetryKinds
<1>4. "bdry" \notin StageGives(At("bdry", v).epoch)["bdry"]
  BY NoneGivesItself
<1>5. {"bdry"} \union (StageGives(At("bdry", v).epoch)["bdry"] \intersect Approved(At("bdry", v).epoch)) = Bounded(At("bdry", v).epoch)
  BY Gives DEF Bounded
<1>6. At("bdry", v).epoch \in 1 .. Total
  BY <1>3, <1>4, Presented
<1>7. Named(ev, {"bdry"} \union (StageGives(At("bdry", v).epoch)["bdry"] \intersect G))
  BY <1>3, <1>4, Presented
<1>8. ev["bdry"] = v
  BY <1>3, <1>4, Presented
<1> QED
  BY <1>2, <1>5, <1>6, <1>7, <1>8

LEMMA FilesRbdry ==
  ASSUME StageShelf, NEW v \in Versions("rbdry"), NEW ev \in Given("rbdry", v, RetryBounded(At("rbdry", v).epoch))
  PROVE  At("rbdry", v).epoch \in 1 .. Total /\ Named(ev, RetryBounded(At("rbdry", v).epoch)) /\ ev["rbdry"] = v
<1>2. PICK G : G = RetryBounded(At("rbdry", v).epoch)
  OBVIOUS
<1>3. /\ "rbdry" \in (StageKinds \union RetryKinds \union {"stage"}) \ {"cont", "done"}
      /\ ev \in Given("rbdry", v, G)
  BY <1>2 DEF StageKinds, RetryKinds
<1>4. "rbdry" \notin StageGives(At("rbdry", v).epoch)["rbdry"]
  BY NoneGivesItself
<1>5. {"rbdry"} \union (StageGives(At("rbdry", v).epoch)["rbdry"] \intersect RetryBounded(At("rbdry", v).epoch)) = RetryBounded(At("rbdry", v).epoch)
  BY Gives DEF RetryBounded, RetrySource, Base
<1>6. At("rbdry", v).epoch \in 1 .. Total
  BY <1>3, <1>4, Presented
<1>7. Named(ev, {"rbdry"} \union (StageGives(At("rbdry", v).epoch)["rbdry"] \intersect G))
  BY <1>3, <1>4, Presented
<1>8. ev["rbdry"] = v
  BY <1>3, <1>4, Presented
<1> QED
  BY <1>2, <1>5, <1>6, <1>7, <1>8

LEMMA FilesStageXready ==
  ASSUME StageShelf, NEW f \in Files("stage", "xready", Source)
  PROVE  f.n \in 1 .. Total /\ Named(f.ev, Source(f.n))
<1>1. PICK v \in Versions("stage") : f.n = At("stage", v).epoch /\ f.ev \in Given("stage", v, Source(f.n))
  BY DEF Files, StageOf
<1>2. PICK ev, G : ev = f.ev /\ G = Source(f.n)
  OBVIOUS
<1>3. /\ "stage" \in (StageKinds \union RetryKinds \union {"stage"}) \ {"cont", "done"}
      /\ ev \in Given("stage", v, G)
  BY <1>1, <1>2 DEF StageKinds, RetryKinds
<1>4. "stage" \notin StageGives(At("stage", v).epoch)["stage"]
  BY NoneGivesItself
<1>5. At("stage", v).epoch = 1
  <2>1. "stage" \in DOMAIN Stages => At("stage", v).epoch \in Stages["stage"]
    BY <1>3, <1>4, Presented
  <2> QED
    BY <2>1 DEF Stages
<1>6. At("stage", v).epoch \in 1 .. Total
  BY <1>3, <1>4, Presented
<1>7. Named(ev, {"stage"} \union (StageGives(At("stage", v).epoch)["stage"] \intersect G))
  BY <1>3, <1>4, Presented
<1>8. {"stage"} \union (StageGives(1)["stage"] \intersect Source(1)) = Source(1)
  BY Gives DEF Source
<1> QED
  BY <1>1, <1>2, <1>5, <1>6, <1>7, <1>8

LEMMA FilesBindXready ==
  ASSUME StageShelf, NEW f \in Files("bind", "xready", Source)
  PROVE  f.n \in 1 .. Total /\ Named(f.ev, Source(f.n))
<1>1. PICK v \in Versions("bind") : f.n = At("bind", v).epoch /\ f.ev \in Given("bind", v, Source(f.n))
  BY DEF Files, StageOf
<1>2. PICK ev, G : ev = f.ev /\ G = Source(f.n)
  OBVIOUS
<1>3. /\ "bind" \in (StageKinds \union RetryKinds \union {"stage"}) \ {"cont", "done"}
      /\ ev \in Given("bind", v, G)
  BY <1>1, <1>2 DEF StageKinds, RetryKinds
<1>4. "bind" \notin StageGives(At("bind", v).epoch)["bind"]
  BY NoneGivesItself
<1>5. At("bind", v).epoch = 2
  <2>1. "bind" \in DOMAIN Stages => At("bind", v).epoch \in Stages["bind"]
    BY <1>3, <1>4, Presented
  <2> QED
    BY <2>1 DEF Stages
<1>6. At("bind", v).epoch \in 1 .. Total
  BY <1>3, <1>4, Presented
<1>7. Named(ev, {"bind"} \union (StageGives(At("bind", v).epoch)["bind"] \intersect G))
  BY <1>3, <1>4, Presented
<1>8. {"bind"} \union (StageGives(2)["bind"] \intersect Source(2)) = Source(2)
  <2>1. StageGives(2)["bind"] = {"cont"} \union Concluded
    BY Gives
  <2>2. Source(2) = Base \union {"cont", "bind"}
    BY SourceIs
  <2>3. Base \subseteq Concluded /\ "bind" \notin Concluded
    BY DEF Concluded, Base
  <2> QED
    BY <2>1, <2>2, <2>3
<1> QED
  BY <1>1, <1>2, <1>5, <1>6, <1>7, <1>8

LEMMA FilesContBind ==
  ASSUME StageShelf, NEW f \in Files("cont", "bind", RetrySource)
  PROVE  f.n = 2 /\ 2 \in 1 .. Total /\ Named(f.ev, {"cont"} \union Concluded)
<1>1. PICK v \in Versions("cont") : f.n = At("cont", v).epoch /\ f.ev \in Given("cont", v, RetrySource(f.n))
  BY DEF Files, StageOf
<1>2. PICK ev, G : ev = f.ev /\ G = RetrySource(f.n)
  OBVIOUS
<1>3. ev \in Given("cont", v, G)
  BY <1>1, <1>2
<1>4. "cont" \in AllKinds /\ StageFits("cont", At("cont", v), Of(At("cont", v))) /\ Refers(At("cont", v))
  BY StageReads, StagedKinds DEF StageKinds
<1>5. Shaped("cont", At("cont", v))
  BY <1>4 DEF StageFits, StageKinds
<1>6. "cont" \notin DOMAIN At("cont", v).has
  BY <1>5 DEF Shaped, Going, Concluded, ConcludedAgain, Base
<1>7. Named(ev, {"cont"} \union (DOMAIN At("cont", v).has \intersect G))
  BY <1>3, <1>4, <1>6, GivenIs
<1>8. DOMAIN At("cont", v).has \intersect G # {}
  BY <1>3, <1>4, <1>6, GivenIs
<1>10. DOMAIN At("cont", v).has \in Going /\ At("cont", v).epoch = 2 /\ 2 \in 1 .. Total
  BY <1>5, <1>8 DEF Shaped, Stages
<1>11. \A g \in Going : {"cont"} \union (g \intersect RetrySource(2)) = {"cont"} \union Concluded
  BY DEF Going, Concluded, ConcludedAgain, RetrySource, Base
<1>12. Named(ev, {"cont"} \union Concluded)
  BY <1>1, <1>2, <1>7, <1>10, <1>11
<1> QED
  BY <1>1, <1>2, <1>10, <1>12

LEMMA StageReadinessSays ==
  ASSUME StageShelf, NEW n \in 1 .. Total, NEW ev, Named(ev, Source(n)), StageReadiness(ev, n)
  PROVE  StageSays("xready")
<1> DEFINE p == Accepted("review_controlled_runner_stage_execution_readiness", ev, n, "ready")
<1>1. DOMAIN ev = StageGives(n)["xready"] /\ \A j \in DOMAIN ev : j \in AllKinds /\ ev[j] \in Versions(j)
  BY Gives DEF Named
<1>2. StageGood("xready", p)
  <2> HIDE DEF p
  <2>1. \A q : StageLinks("xready", q, [j \in DOMAIN ev |-> At(j, ev[j])])
    BY DEF StageLinks
  <2>2. "xready" \in StageKinds \union RetryKinds
    BY DEF StageKinds
  <2> QED
    BY <1>1, <2>1, <2>2, StageAccepts DEF p
<1>4. StageReply("xready", n, Chain(ev) \union Selection(ev, n), p, StageReadyTable,
                 "inspect_controlled_runner_stage_execution_readiness_blockers")
  BY DEF StageReadiness
<1> HIDE DEF p
<1> QED
  BY <1>2, <1>4, StageReplies DEF StageKinds

LEMMA StageApprovalSays ==
  ASSUME StageShelf, NEW n \in 1 .. Total, NEW ev, Named(ev, Readied(n)), NEW sign \in Versions("sign"),
         NEW m \in {0} \union Versions("sign"), StageApproval(ev, n, sign, m)
  PROVE  StageSays("stapproval")
<1>1. DOMAIN ev = Readied(n) /\ \A j \in DOMAIN ev : j \in AllKinds /\ ev[j] \in Versions(j)
  BY DEF Named
<1>2. DOMAIN ev = Readied(n) /\ "sign" \notin DOMAIN ev /\ "xready" \in DOMAIN ev
  BY <1>1 DEF Readied, Source, Base
<1> DEFINE has == With(ev, "sign", sign)
           a == Accepted("review_controlled_runner_stage_execution_approval", has, n, "completed")
           p == With(a, "task", m)
<1>3. /\ DOMAIN has = Readied(n) \union {"sign"} /\ has["sign"] = sign /\ has["xready"] = ev["xready"]
      /\ \A j \in DOMAIN has : j \in AllKinds /\ has[j] \in Versions(j)
  <2>1. /\ DOMAIN has = DOMAIN ev \union {"sign"} /\ has["sign"] = sign
        /\ \A j \in DOMAIN ev \ {"sign"} : has[j] = ev[j]
    BY DEF With
  <2>2. "sign" \in AllKinds
    BY StagedKinds
  <2> HIDE DEF has
  <2> QED
    BY <1>1, <1>2, <2>1, <2>2
<1>4. p.ok = TRUE /\ p.has = has /\ p.epoch = n /\ p.line = Lineage(has) /\ p.task = m
  <2> HIDE DEF has
  <2> QED
    BY DEF With, Accepted
<1> DEFINE codes == Chain(ev) \union Selection(ev, n) \union StageReadyFor(ev, n)
                    \union Verify(sign, "xready", ev["xready"]) \union TaskApproved(ev, n, m)
<1>5. StageReply("stapproval", n, codes, p, StageApprovalTable,
                 "inspect_controlled_runner_stage_execution_approval_blockers")
  BY DEF StageApproval
<1>6. codes = {} => Verify(sign, "xready", ev["xready"]) = {}
  OBVIOUS
<1> HIDE DEF p, codes, has
<1>7. ASSUME codes = {} PROVE StageGood("stapproval", p)
  <2>1. At("sign", sign).has = Signs1("xready", ev["xready"])
    BY <1>6, <1>7, ApprovalIs
  <2>2. p.ok \in BOOLEAN /\ Refers(p) /\ p.line = Lineage(p.has)
    BY <1>3, <1>4 DEF Refers
  <2>3. Of(p)["sign"] = At("sign", sign)
    BY <1>3, <1>4 DEF Of
  <2>4. StageLinks("stapproval", p, Of(p))
    BY <1>3, <1>4, <2>1, <2>3 DEF StageLinks
  <2>5. DOMAIN p.has = StageGives(p.epoch)["stapproval"]
    BY <1>3, <1>4, Gives
  <2>6. Shaped("stapproval", p)
    BY <1>4, <2>5 DEF Shaped, Stages
  <2>7. Holds("stapproval", p)
    BY <1>4 DEF Holds
  <2>8. "stapproval" \in StageKinds \union RetryKinds
    BY DEF StageKinds
  <2> QED
    BY <2>2, <2>4, <2>6, <2>7, <2>8, StageMade
<1> QED
  BY <1>5, <1>7, StageReplies DEF StageKinds

LEMMA InvocationBoundarySays ==
  ASSUME StageShelf, NEW n \in 1 .. Total, NEW ev, Named(ev, Approved(n)), InvocationBoundary(ev, n)
  PROVE  StageSays("bdry")
<1>1. DOMAIN ev = Approved(n) /\ \A j \in DOMAIN ev : j \in AllKinds /\ ev[j] \in Versions(j)
  BY DEF Named
<1>2. DOMAIN ev = StageGives(n)["bdry"]
  BY <1>1, Gives
<1> DEFINE p == Accepted("review_controlled_runner_stage_invocation_boundary", ev, n, "completed")
<1>3. StageGood("bdry", p)
  <2> HIDE DEF p
  <2>1. \A q : StageLinks("bdry", q, [j \in DOMAIN ev |-> At(j, ev[j])])
    BY DEF StageLinks
  <2>2. "bdry" \in StageKinds \union RetryKinds
    BY DEF StageKinds
  <2> QED
    BY <1>1, <1>2, <2>1, <2>2, StageAccepts DEF p
<1>5. StageReply("bdry", n, Upstream(ev, n), p, BoundaryTable,
                 "inspect_controlled_runner_stage_invocation_boundary_blockers")
  BY DEF InvocationBoundary
<1> HIDE DEF p
<1> QED
  BY <1>3, <1>5, StageReplies DEF StageKinds

LEMMA StageCloseoutSays ==
  ASSUME StageShelf, NEW n \in 1 .. Total, NEW ev, Named(ev, Executed(n)), NEW mistaken,
         StageCloseout(ev, n, mistaken)
  PROVE  StageSays("close")
<1>1. DOMAIN ev = Executed(n) /\ \A j \in DOMAIN ev : j \in AllKinds /\ ev[j] \in Versions(j)
  BY DEF Named
<1> DEFINE codes == Upstream(ev, n) \union BoundaryFor(ev, n) \union ExecutionFor(ev, n)
                    \union OutputBlockers("exec", ev) \union When(mistaken, "stage_output_file_mismatch")
           status == CloseoutStatus(ev, codes)
           p == Closed(ev, n, codes)
<1>2. shelf' = Place("close", p)
  BY DEF StageCloseout, StageIssue
<1>3. p.ok = (status # "blocked") /\ p.has = ev /\ p.epoch = n /\ p.line = Lineage(ev)
  BY DEF Closed, Accepted
<1> HIDE DEF p, status, codes
<1>4. p.ok \in BOOLEAN /\ Refers(p) /\ p.line = Lineage(p.has)
  BY <1>1, <1>3 DEF Refers
<1>5. DOMAIN p.has = StageGives(p.epoch)["close"]
  BY <1>1, <1>3, Gives
<1>6. Shaped("close", p)
  BY <1>3, <1>5 DEF Shaped, Stages
<1>7. StageLinks("close", p, Of(p)) /\ Holds("close", p)
  BY DEF StageLinks, Holds
<1>8. StageGood("close", p)
  BY <1>4, <1>6, <1>7, StageMade DEF StageKinds
<1> QED
  BY <1>2, <1>8 DEF StageSays

\* What the selection of a stage was found to be.
LEMMA Selects ==
  ASSUME NEW n \in {1, 2}, NEW ev, Source(n) \subseteq DOMAIN ev,
         NEW of, \A j \in DOMAIN ev : of[j] = At(j, ev[j]), Selection(ev, n) = {}
  PROVE  SelectionLinks(ev, of, n)
<1>1. PICK from : from = Only(ev, Source(n))
  OBVIOUS
<1>2. \A j \in Source(n) : from[j] = ev[j] /\ of[j] = At(j, from[j])
  BY <1>1 DEF Only
<1>3. CASE n = 1
  <2>1. InitialBlockers(from) = {}
    BY <1>1, <1>3 DEF Selection
  <2>2. "stage" \in Source(n)
    BY <1>3, SourceIs
  <2>3. At("stage", from["stage"]).ok /\ Agrees(At("stage", from["stage"]), from)
    BY <2>1, Unblocked DEF InitialBlockers
  <2>4. of["stage"].ok /\ Agrees(of["stage"], from)
    BY <1>2, <2>2, <2>3
  <2> QED
    BY <1>1, <1>3, <2>4 DEF SelectionLinks
<1>4. CASE n = 2
  <2>1. ContinuationBlockers(from, n) = {} /\ BindingBlockers(from, n) = {}
    BY <1>1, <1>4 DEF Selection
  <2>2. "cont" \in Source(n) /\ "bind" \in Source(n)
    BY <1>4, SourceIs
  <2>3. At("cont", from["cont"]).ok /\ Agrees(At("cont", from["cont"]), from)
    BY <2>1, Unblocked DEF ContinuationBlockers
  <2>4. At("bind", from["bind"]).ok /\ Agrees(At("bind", from["bind"]), from)
    BY <2>1, Unblocked DEF BindingBlockers
  <2>5. of["cont"].ok /\ Agrees(of["cont"], from) /\ of["bind"].ok /\ Agrees(of["bind"], from)
    BY <1>2, <2>2, <2>3, <2>4
  <2> QED
    BY <1>1, <1>4, <2>5 DEF SelectionLinks
<1> QED
  BY <1>3, <1>4

\* ... what its execution rests on ...
LEMMA TrailsToRun ==
  ASSUME NEW n \in {1, 2}, NEW ev, Bounded(n) \subseteq DOMAIN ev,
         NEW of, \A j \in DOMAIN ev : of[j] = At(j, ev[j]),
         Upstream(ev, n) = {}, BoundaryFor(ev, n) = {}
  PROVE  /\ SelectionLinks(ev, of, n)
         /\ \A k \in {"xready", "stapproval", "bdry"} : of[k].ok /\ Settles(of[k], ev, n)
<1>1. Selection(ev, n) = {} /\ StageReadyFor(ev, n) = {} /\ ApprovalFor(ev, n) = {}
  BY DEF Upstream
<1>2. /\ Source(n) \subseteq DOMAIN ev
      /\ {"xready", "stapproval", "bdry"} \subseteq DOMAIN ev
  BY DEF Bounded, Approved, Readied
<1>3. SelectionLinks(ev, of, n)
  BY <1>1, <1>2, Selects
<1>4. of["xready"].ok /\ Settles(of["xready"], ev, n)
  <2>1. ReadinessEnvelope(ev, n) = {} /\ ReadinessAnchors(ev) = {}
    BY <1>1 DEF StageReadyFor
  <2>2. /\ Usable("xready", ev, "readiness_not_ready") = {}
        /\ OfStage("xready", ev, n, "readiness_envelope_mismatch") = {}
        /\ Anchors("xready", ev, "readiness_checksum_mismatch") = {}
    BY <2>1 DEF ReadinessEnvelope, ReadinessAnchors
  <2>3. At("xready", ev["xready"]).ok /\ Settles(At("xready", ev["xready"]), ev, n)
    BY <2>2, Unblocked DEF Settles
  <2> QED
    BY <1>2, <2>3
<1>5. of["stapproval"].ok /\ Settles(of["stapproval"], ev, n)
  <2>1. ApprovalEnvelope(ev, n) = {} /\ ApprovalAnchors(ev) = {}
    BY <1>1 DEF ApprovalFor
  <2>2. /\ Usable("stapproval", ev, "approval_not_completed") = {}
        /\ OfStage("stapproval", ev, n, "stage_number_mismatch") = {}
        /\ Anchors("stapproval", ev, "approval_checksum_mismatch") = {}
    BY <2>1 DEF ApprovalEnvelope, ApprovalAnchors
  <2>3. At("stapproval", ev["stapproval"]).ok /\ Settles(At("stapproval", ev["stapproval"]), ev, n)
    BY <2>2, Unblocked DEF Settles
  <2> QED
    BY <1>2, <2>3
<1>6. of["bdry"].ok /\ Settles(of["bdry"], ev, n)
  <2>1. BoundaryEnvelope(ev, n) = {} /\ BoundaryAnchors(ev) = {}
    BY DEF BoundaryFor
  <2>2. /\ Usable("bdry", ev, "boundary_not_completed") = {}
        /\ OfStage("bdry", ev, n, "stage_number_mismatch") = {}
        /\ Anchors("bdry", ev, "boundary_checksum_mismatch") = {}
    BY <2>1 DEF BoundaryEnvelope, BoundaryAnchors
  <2>3. At("bdry", ev["bdry"]).ok /\ Settles(At("bdry", ev["bdry"]), ev, n)
    BY <2>2, Unblocked DEF Settles
  <2> QED
    BY <1>2, <2>3
<1> QED
  BY <1>3, <1>4, <1>5, <1>6

\* ... and what its outcome rests on.
LEMMA Trails ==
  ASSUME NEW n \in {1, 2}, NEW ev, Executed(n) \union {"close"} \subseteq DOMAIN ev,
         NEW of, \A j \in DOMAIN ev : of[j] = At(j, ev[j]),
         Upstream(ev, n) = {}, BoundaryFor(ev, n) = {}, ExecutionFor(ev, n) = {},
         CloseoutEnvelope(ev, n) = {}, CloseoutAnchors(ev) = {}
  PROVE  TrailLinks(ev, of, n)
<1>1. Bounded(n) \subseteq DOMAIN ev /\ "exec" \in DOMAIN ev /\ "close" \in DOMAIN ev
  BY DEF Executed
<1>2. /\ SelectionLinks(ev, of, n)
      /\ \A k \in {"xready", "stapproval", "bdry"} : of[k].ok /\ Settles(of[k], ev, n)
  BY <1>1, TrailsToRun
<1>3. of["exec"].ok /\ Settles(of["exec"], ev, n)
  <2>1. ExecutionEnvelope(ev, n) = {} /\ ExecutionAnchors(ev) = {}
    BY DEF ExecutionFor
  <2>2. /\ Usable("exec", ev, "execution_not_valid") = {}
        /\ OfStage("exec", ev, n, "stage_number_mismatch") = {}
        /\ Anchors("exec", ev, "execution_checksum_mismatch") = {}
    BY <2>1 DEF ExecutionEnvelope, ExecutionAnchors
  <2>3. At("exec", ev["exec"]).ok /\ Settles(At("exec", ev["exec"]), ev, n)
    BY <2>2, Unblocked DEF Settles
  <2> QED
    BY <1>1, <2>3
<1>4. Settles(of["close"], ev, n)
  <2>1. Settles(At("close", ev["close"]), ev, n)
    BY Unblocked DEF CloseoutEnvelope, CloseoutAnchors, Settles
  <2> QED
    BY <1>1, <2>1
<1> QED
  BY <1>2, <1>3, <1>4 DEF TrailLinks

LEMMA StageOutcomeSays ==
  ASSUME StageShelf, NEW n \in 1 .. Total, NEW ev, Named(ev, Executed(n) \union {"close"}), StageOutcome(ev, n)
  PROVE  StageSays("souto")
<1>1. DOMAIN ev = Executed(n) \union {"close"} /\ \A j \in DOMAIN ev : j \in AllKinds /\ ev[j] \in Versions(j)
  BY DEF Named
<1>2. n \in {1, 2}
  BY TotalAssumption
<1> DEFINE q == At("close", ev["close"])
           p == Accepted(Decision(q.status, n), ev, n, q.status)
           of == [j \in DOMAIN ev |-> At(j, ev[j])]
           codes == Upstream(ev, n) \union BoundaryFor(ev, n) \union ExecutionFor(ev, n)
                    \union CloseoutEnvelope(ev, n) \union CloseoutAnchors(ev)
<1>3. StageReply("souto", n, codes, p, OutcomeTable, "inspect_controlled_runner_stage_outcome_plan_blockers")
  BY DEF StageOutcome
<1>4. p.ok = TRUE /\ p.has = ev /\ p.epoch = n /\ p.status = q.status /\ p.next = Decision(q.status, n)
  BY DEF Accepted
<1>5. \A j \in DOMAIN ev : of[j] = At(j, ev[j])
  OBVIOUS
<1>6. ASSUME codes = {}
      PROVE  /\ Upstream(ev, n) = {} /\ BoundaryFor(ev, n) = {} /\ ExecutionFor(ev, n) = {}
             /\ CloseoutEnvelope(ev, n) = {} /\ CloseoutAnchors(ev) = {}
  BY <1>6
<1>7. "close" \in DOMAIN ev /\ "exec" \in DOMAIN ev /\ "exec" \in Executed(n) /\ "sign" \notin Executed(n)
  BY <1>1, SourceIs, <1>2 DEF Executed, Bounded, Approved, Readied, Base
<1> HIDE DEF of, codes
<1>8. ASSUME codes = {} PROVE StageGood("souto", p)
  <2>1. TrailLinks(ev, of, n)
    BY <1>1, <1>2, <1>5, <1>6, <1>8, Trails
  <2>2. of["close"] = q
    BY <1>5, <1>7
  <2>3. StageLinks("souto", p, of)
    <3> HIDE DEF p, q
    <3> QED
      BY <1>4, <2>1, <2>2 DEF StageLinks
  <2>4. DOMAIN ev = StageGives(n)["souto"]
    BY <1>1, Gives
  <2>5. "souto" \in StageKinds \union RetryKinds
    BY DEF StageKinds
  <2>6. StageLinks("souto", p, [j \in DOMAIN ev |-> At(j, ev[j])])
    BY <2>3 DEF of
  <2> HIDE DEF q
  <2> QED
    BY <1>1, <2>4, <2>5, <2>6, StageAccepts
<1> HIDE DEF p, q
<1> QED
  BY <1>3, <1>8, StageReplies DEF StageKinds

\* Only these of the files that are named.
LEMMA OnlyNamed ==
  ASSUME NEW ev, NEW K, NEW S, Named(ev, K), S \subseteq K
  PROVE  Named(Only(ev, S), S) /\ \A j \in S : Only(ev, S)[j] = ev[j]
BY DEF Named, Only

LEMMA ContinuationSays ==
  ASSUME StageShelf, NEW ev, Named(ev, RetrySource(1)), 2 \in 1 .. Total, Continuation(ev, 1)
  PROVE  StageSays("cont")
<1> DEFINE has == Only(ev, Base \union {"souto", "close", "exec"})
           p == Accepted("generalize_controlled_runner_stage_execution_readiness_for_continuation",
                         has, 2, "selected")
           codes == Chain(ev) \union OutcomeSelects(ev) \union CloseoutCompleted(ev)
                    \union ExecutionCompleted(ev) \union OfStage("souto", ev, 1, "completed_stage_mismatch")
<1>1. Named(has, Concluded)
  <2>1. Base \union {"souto", "close", "exec"} = Concluded /\ Concluded \subseteq RetrySource(1)
    BY DEF Concluded, RetrySource
  <2>2. Named(Only(ev, Concluded), Concluded)
    BY <2>1, OnlyNamed
  <2> QED
    BY <2>1, <2>2
<1>2. StageReply("cont", 2, codes, p, ContinuationTable,
                 "inspect_controlled_runner_next_stage_continuation_blockers")
  BY DEF Continuation, RetryReply
<1> HIDE DEF codes, has
<1>3. StageGood("cont", p)
  <2> HIDE DEF p
  <2>1. \A q : q.has = has => StageLinks("cont", q, [j \in DOMAIN has |-> At(j, has[j])])
    BY <1>1 DEF StageLinks, Named
  <2>2. p.has = has
    BY DEF p, Accepted
  <2>3. "cont" \in StageKinds \union RetryKinds
    BY DEF StageKinds
  <2>4. DOMAIN has \in Going /\ \A j \in DOMAIN has : j \in AllKinds /\ has[j] \in Versions(j)
    BY <1>1 DEF Going, Named
  <2>5. StageLinks("cont", p, [j \in DOMAIN has |-> At(j, has[j])])
    BY <2>1, <2>2
  <2> QED
    BY <2>3, <2>4, <2>5, StageAccepts DEF p
<1> HIDE DEF p
<1> QED
  BY <1>2, <1>3, StageReplies DEF StageKinds

LEMMA InputBindingSays ==
  ASSUME StageShelf, NEW ev, Named(ev, {"cont"} \union Concluded), 2 \in 1 .. Total, InputBinding(ev, 2)
  PROVE  StageSays("bind")
<1> DEFINE p == Accepted("generalize_controlled_runner_stage_execution_readiness_for_continuation", ev, 2, "bound")
           of == [j \in DOMAIN ev |-> At(j, ev[j])]
           codes == Chain(ev) \union BindingContinuation(ev, 2) \union BindingAnchors(ev)
                    \union BindingOutcome(ev) \union BindingOutcomeAnchors(ev)
                    \union BindingCloseout(ev) \union PriorOutput(ev)
<1>1. DOMAIN ev = {"cont"} \union Concluded /\ \A j \in DOMAIN ev : j \in AllKinds /\ ev[j] \in Versions(j)
  BY DEF Named
<1>2. StageReply("bind", 2, codes, p, BindingTable, "inspect_controlled_runner_stage_input_binding_blockers")
  BY DEF InputBinding, RetryReply
<1>3. ASSUME codes = {}
      PROVE  /\ BindingContinuation(ev, 2) = {} /\ BindingAnchors(ev) = {}
             /\ BindingOutcome(ev) = {} /\ BindingOutcomeAnchors(ev) = {}
  BY <1>3
<1>4. /\ of["cont"] = At("cont", ev["cont"]) /\ of["souto"] = At("souto", ev["souto"])
  BY <1>1 DEF Concluded
<1> HIDE DEF of, codes
<1>5. ASSUME codes = {} PROVE StageGood("bind", p)
  <2>1. At("cont", ev["cont"]).ok /\ Agrees(At("cont", ev["cont"]), ev)
    BY <1>3, <1>5, Unblocked DEF BindingContinuation, BindingAnchors
  <2>2. At("souto", ev["souto"]).ok /\ At("souto", ev["souto"]).next = "select_next_stage"
    BY <1>3, <1>5 DEF BindingOutcome, NextStep, When
  <2>3. Agrees(At("souto", ev["souto"]), ev)
    BY <1>3, <1>5, Unblocked DEF BindingOutcomeAnchors
  <2>4. p.has = ev
    BY DEF Accepted
  <2>5. StageLinks("bind", p, of)
    <3> HIDE DEF p
    <3> QED
      BY <1>4, <2>1, <2>2, <2>3, <2>4 DEF StageLinks
  <2>6. StageLinks("bind", p, [j \in DOMAIN ev |-> At(j, ev[j])])
    BY <2>5 DEF of
  <2>7. DOMAIN ev = StageGives(2)["bind"] /\ "bind" \in StageKinds \union RetryKinds
    BY <1>1, Gives DEF StageKinds
  <2> QED
    BY <1>1, <2>6, <2>7, StageAccepts
<1> HIDE DEF p
<1> QED
  BY <1>2, <1>5, StageReplies DEF StageKinds

LEMMA CompletionSays ==
  ASSUME StageShelf, NEW n \in 1 .. Total, NEW ev, Named(ev, RetrySource(n)), n = At("souto", ev["souto"]).epoch,
         Completion(ev, n)
  PROVE  StageSays("done")
<1> DEFINE p == Accepted("review_controlled_runner_completion", ev, n, "completed")
           of == [j \in DOMAIN ev |-> At(j, ev[j])]
           codes == Chain(ev) \union OutcomeCompletes(ev) \union CloseoutCompleted(ev)
                    \union ExecutionCompleted(ev) \union ExecutionAnchors(ev) \union ContinuationAnchors(ev, n)
<1>1. DOMAIN ev = RetrySource(n) /\ \A j \in DOMAIN ev : j \in AllKinds /\ ev[j] \in Versions(j)
  BY DEF Named
<1>2. StageReply("done", n, codes, p, CompletionTable, "inspect_controlled_runner_completion_blockers")
  BY DEF Completion, RetryReply
<1>3. ASSUME codes = {}
      PROVE  OutcomeCompletes(ev) = {} /\ ExecutionCompleted(ev) = {}
  BY <1>3
<1>4. "souto" \in DOMAIN ev /\ "exec" \in DOMAIN ev /\ "routcome" \notin DOMAIN ev
  BY <1>1 DEF RetrySource, Base
<1>5. of["souto"] = At("souto", ev["souto"]) /\ of["exec"] = At("exec", ev["exec"])
  BY <1>4
<1> HIDE DEF of, codes
<1>6. ASSUME codes = {} PROVE StageGood("done", p)
  <2>1. /\ Follows("souto", ev, "complete_runner", "outcome_not_complete_runner") = {}
        /\ Anchors("souto", ev, "outcome_target_checksum_mismatch") = {}
    BY <1>3, <1>6 DEF OutcomeCompletes
  <2>2. At("souto", ev["souto"]).ok /\ Settles(At("souto", ev["souto"]), ev, n)
    BY <2>1, Unblocked DEF Follows, NextStep, When, Settles
  <2>3. At("exec", ev["exec"]).status = "completed"
    BY <1>3, <1>6 DEF ExecutionCompleted, When
  <2>4. p.has = ev /\ p.epoch = n
    BY DEF Accepted
  <2>5. StageLinks("done", p, of)
    <3> HIDE DEF p
    <3> QED
      BY <1>4, <1>5, <2>2, <2>3, <2>4 DEF StageLinks
  <2>6. StageLinks("done", p, [j \in DOMAIN ev |-> At(j, ev[j])])
    BY <2>5 DEF of
  <2>7. DOMAIN ev \in Finishing(n) /\ "done" \in StageKinds \union RetryKinds
    BY <1>1 DEF StageKinds, Finishing
  <2> QED
    BY <1>1, <2>6, <2>7, StageAccepts
<1> HIDE DEF p
<1> QED
  BY <1>2, <1>6, StageReplies DEF StageKinds

LEMMA RetryPlanSays ==
  ASSUME StageShelf, NEW n \in 1 .. Total, NEW ev, Named(ev, RetrySource(n)),
         n = At("souto", ev["souto"]).epoch, RetryPlan(ev, n)
  PROVE  StageSays("retryplan")
<1> DEFINE has == Only(ev, RetrySource(n))
           p == Accepted("review_controlled_runner_stage_retry_plan", has, n, "planned")
           of == [j \in DOMAIN has |-> At(j, has[j])]
           o == At("souto", ev["souto"])
           codes == Chain(ev) \union RetryFrom(ev, n) \union OutcomeRetryable(ev)
                    \union CloseoutRetryable(ev) \union ExecutionRetryable(ev)
                    \union Anchors("exec", ev, "execution_checksum_mismatch")
<1>1. Named(has, RetrySource(n)) /\ \A j \in RetrySource(n) : has[j] = ev[j]
  BY OnlyNamed
<1>2. StageReply("retryplan", n, codes, p, RetryPlanTable,
                 "inspect_controlled_runner_stage_retry_plan_blockers")
  BY DEF RetryPlan, RetryReply
<1>3. ASSUME codes = {}
      PROVE  OutcomeRetryable(ev) = {}
  BY <1>3
<1>4. p.ok = TRUE /\ p.has = has /\ p.epoch = n
  BY DEF Accepted
<1> HIDE DEF codes, has
<1>5. "souto" \in RetrySource(n) /\ "sign" \notin RetrySource(n)
  BY DEF RetrySource, Base
<1>6. of["souto"] = o
  BY <1>1, <1>5 DEF Named
<1>7. ASSUME codes = {} PROVE o.ok /\ o.next \in Inspects /\ Settles(o, ev, n)
  <2>1. ~(~o.ok \/ o.next \notin {"inspect_stage_failure", "inspect_stage_blocked"})
        /\ Anchors("souto", ev, "retry_planning_target_mismatch") = {}
    BY <1>3, <1>7 DEF OutcomeRetryable, When
  <2> QED
    BY <2>1, Unblocked DEF Inspects, Settles
<1> HIDE DEF of, o
<1>8. ASSUME codes = {} PROVE StageGood("retryplan", p)
  <2>1. Settles(o, has, n)
    BY <1>1, <1>7, <1>8 DEF Settles, Agrees, Named
  <2>2. StageLinks("retryplan", p, of)
    <3> HIDE DEF p
    <3> QED
      BY <1>4, <1>6, <1>7, <1>8, <2>1 DEF StageLinks
  <2>3. StageLinks("retryplan", p, [j \in DOMAIN has |-> At(j, has[j])])
    BY <2>2 DEF of
  <2>4. DOMAIN has = StageGives(n)["retryplan"] /\ "retryplan" \in StageKinds \union RetryKinds
        /\ \A j \in DOMAIN has : j \in AllKinds /\ has[j] \in Versions(j)
    BY <1>1, Gives DEF RetryKinds, Named
  <2> QED
    BY <2>3, <2>4, StageAccepts
<1> HIDE DEF p
<1> QED
  BY <1>2, <1>8, StageReplies DEF RetryKinds

LEMMA RetryApprovalSays ==
  ASSUME StageShelf, NEW n \in 1 .. Total, NEW ev, Named(ev, RetrySource(n) \union {"retryplan"}),
         NEW sign \in Versions("sign"), RetryApproval(ev, n, sign)
  PROVE  StageSays("rapproval")
<1>1. /\ DOMAIN ev = RetrySource(n) \union {"retryplan"} /\ "sign" \notin DOMAIN ev
      /\ \A j \in DOMAIN ev : j \in AllKinds /\ ev[j] \in Versions(j)
  BY DEF Named, RetrySource, Base
<1> DEFINE has == With(ev, "sign", sign)
           p == Accepted("review_controlled_runner_stage_retry_approval", has, n, "completed")
           codes == Chain(ev) \union RetryPlanFor(ev, n) \union Verify(sign, "retryplan", ev["retryplan"])
<1>2. /\ DOMAIN has = RetrySource(n) \union {"retryplan", "sign"}
      /\ has["sign"] = sign /\ has["retryplan"] = ev["retryplan"]
      /\ \A j \in DOMAIN has : j \in AllKinds /\ has[j] \in Versions(j)
  <2>1. /\ DOMAIN has = DOMAIN ev \union {"sign"} /\ has["sign"] = sign
        /\ \A j \in DOMAIN ev \ {"sign"} : has[j] = ev[j]
    BY DEF With
  <2>2. "sign" \in AllKinds
    BY StagedKinds
  <2> HIDE DEF has
  <2> QED
    BY <1>1, <2>1, <2>2
<1>3. StageReply("rapproval", n, codes, p, RetryApprovalTable,
                 "inspect_controlled_runner_stage_retry_approval_blockers")
  BY DEF RetryApproval, RetryReply
<1>4. codes = {} => Verify(sign, "retryplan", ev["retryplan"]) = {}
  OBVIOUS
<1> HIDE DEF codes, has
<1>5. ASSUME codes = {} PROVE StageGood("rapproval", p)
  <2>1. At("sign", sign).has = Signs1("retryplan", ev["retryplan"])
    BY <1>4, <1>5, ApprovalIs
  <2>2. p.has = has
    BY DEF Accepted
  <2>3. [j \in DOMAIN has |-> At(j, has[j])]["sign"] = At("sign", sign)
    BY <1>2
  <2>4. StageLinks("rapproval", p, [j \in DOMAIN has |-> At(j, has[j])])
    <3> HIDE DEF p
    <3> QED
      BY <1>2, <2>1, <2>2, <2>3 DEF StageLinks
  <2>5. DOMAIN has = StageGives(n)["rapproval"] /\ "rapproval" \in StageKinds \union RetryKinds
    BY <1>2, Gives DEF RetryKinds
  <2> QED
    BY <1>2, <2>4, <2>5, StageAccepts
<1> HIDE DEF p
<1> QED
  BY <1>3, <1>5, StageReplies DEF RetryKinds

LEMMA RetryBoundarySays ==
  ASSUME StageShelf, NEW n \in 1 .. Total, NEW ev, Named(ev, RetrySource(n) \union {"retryplan", "rapproval"}),
         NEW file \in RetryFiles, NEW terms \in RetryTerms, RetryBoundary(ev, n, file, terms)
  PROVE  StageSays("rbdry")
<1>1. /\ DOMAIN ev = RetrySource(n) \union {"retryplan", "rapproval"}
      /\ \A j \in DOMAIN ev : j \in AllKinds /\ ev[j] \in Versions(j)
  BY DEF Named
<1> DEFINE a == Accepted("review_controlled_runner_stage_retry_boundary", ev, n, "completed")
           b == With(a, "file", file)
           p == With(b, "terms", terms)
           codes == RetryUpstream(ev, n) \union When(file \in there, "output_file_already_exists")
<1>a. /\ a.ok = TRUE /\ a.has = ev /\ a.epoch = n /\ a.line = Lineage(ev)
      /\ {"ok", "has", "epoch", "line"} \subseteq DOMAIN a
  BY DEF Accepted
<1>b. /\ b.ok = TRUE /\ b.has = ev /\ b.epoch = n /\ b.line = Lineage(ev) /\ b.file = file
      /\ {"ok", "has", "epoch", "line", "file"} \subseteq DOMAIN b
  <2> HIDE DEF a
  <2> QED
    BY <1>a DEF With
<1>2. /\ p.ok = TRUE /\ p.has = ev /\ p.epoch = n /\ p.line = Lineage(ev)
      /\ p.file = file /\ p.terms = terms
  <2> HIDE DEF b
  <2> QED
    BY <1>b DEF With
<1>3. StageReply("rbdry", n, codes, p, RetryBoundaryTable,
                 "inspect_controlled_runner_stage_retry_boundary_blockers")
  BY DEF RetryBoundary, RetryReply
<1> HIDE DEF p, codes, a, b
<1>4. p.ok \in BOOLEAN /\ Refers(p) /\ p.line = Lineage(p.has)
  BY <1>1, <1>2 DEF Refers
<1>5. DOMAIN p.has = StageGives(p.epoch)["rbdry"]
  BY <1>1, <1>2, Gives
<1>6. Shaped("rbdry", p)
  BY <1>2, <1>5 DEF Shaped, Stages
<1>7. StageLinks("rbdry", p, Of(p))
  BY DEF StageLinks
<1>8. Holds("rbdry", p)
  BY <1>2 DEF Holds
<1>9. StageGood("rbdry", p)
  BY <1>4, <1>6, <1>7, <1>8, StageMade DEF RetryKinds
<1> QED
  BY <1>3, <1>9, StageReplies DEF RetryKinds

LEMMA RetryCloseoutSays ==
  ASSUME StageShelf, NEW n \in 1 .. Total, NEW ev, Named(ev, RetryExecuted(n)), RetryCloseout(ev, n)
  PROVE  StageSays("rclose")
<1>1. DOMAIN ev = StageGives(n)["rclose"] /\ \A j \in DOMAIN ev : j \in AllKinds /\ ev[j] \in Versions(j)
  BY Gives DEF Named
<1> DEFINE p == Accepted("plan_controlled_runner_stage_retry_outcome", ev, n, At("rexec", ev["rexec"]).status)
<1>2. StageGood("rclose", p)
  <2> HIDE DEF p
  <2>1. \A q : StageLinks("rclose", q, [j \in DOMAIN ev |-> At(j, ev[j])])
    BY DEF StageLinks
  <2>2. "rclose" \in StageKinds \union RetryKinds
    BY DEF RetryKinds
  <2> QED
    BY <1>1, <2>1, <2>2, StageAccepts DEF p
<1>3. StageReply("rclose", n, RetryUpstream(ev, n) \union RetryBoundaryFor(ev, n) \union RetryExecutionFor(ev, n)
                              \union RetryOutput(ev), p, RetryCloseoutTable,
                 "inspect_controlled_runner_stage_retry_closeout")
  BY DEF RetryCloseout, RetryReply
<1> HIDE DEF p
<1> QED
  BY <1>2, <1>3, StageReplies DEF RetryKinds

\* What a retry was found to rest on ...
LEMMA RetryTrailsToRun ==
  ASSUME NEW n, NEW ev, RetryBounded(n) \subseteq DOMAIN ev,
         NEW of, \A j \in DOMAIN ev : of[j] = At(j, ev[j]),
         RetryUpstream(ev, n) = {}, RetryBoundaryFor(ev, n) = {}
  PROVE  \A k \in {"retryplan", "rapproval", "rbdry"} : of[k].ok /\ Settles(of[k], ev, n)
<1>1. RetryPlanFor(ev, n) = {} /\ RetryApprovalFor(ev, n) = {}
  BY DEF RetryUpstream
<1>2. {"retryplan", "rapproval", "rbdry"} \subseteq DOMAIN ev
  BY DEF RetryBounded
<1>3. of["retryplan"].ok /\ Settles(of["retryplan"], ev, n)
  <2>1. /\ Usable("retryplan", ev, "retry_plan_not_planned") = {}
        /\ OfStage("retryplan", ev, n, "stage_number_mismatch") = {}
        /\ Anchors("retryplan", ev, "retry_plan_checksum_mismatch") = {}
    BY <1>1 DEF RetryPlanFor
  <2>2. At("retryplan", ev["retryplan"]).ok /\ Settles(At("retryplan", ev["retryplan"]), ev, n)
    BY <2>1, Unblocked DEF Settles
  <2> QED
    BY <1>2, <2>2
<1>4. of["rapproval"].ok /\ Settles(of["rapproval"], ev, n)
  <2>1. /\ Usable("rapproval", ev, "retry_approval_not_completed") = {}
        /\ OfStage("rapproval", ev, n, "stage_number_mismatch") = {}
        /\ Anchors("rapproval", ev, "retry_approval_checksum_mismatch") = {}
    BY <1>1 DEF RetryApprovalFor
  <2>2. At("rapproval", ev["rapproval"]).ok /\ Settles(At("rapproval", ev["rapproval"]), ev, n)
    BY <2>1, Unblocked DEF Settles
  <2> QED
    BY <1>2, <2>2
<1>5. of["rbdry"].ok /\ Settles(of["rbdry"], ev, n)
  <2>1. /\ Usable("rbdry", ev, "retry_boundary_not_completed") = {}
        /\ OfStage("rbdry", ev, n, "stage_number_mismatch") = {}
        /\ Anchors("rbdry", ev, "retry_boundary_checksum_mismatch") = {}
    BY DEF RetryBoundaryFor
  <2>2. At("rbdry", ev["rbdry"]).ok /\ Settles(At("rbdry", ev["rbdry"]), ev, n)
    BY <2>1, Unblocked DEF Settles
  <2> QED
    BY <1>2, <2>2
<1> QED
  BY <1>3, <1>4, <1>5

\* ... and what its outcome was.
LEMMA RetryTrails ==
  ASSUME NEW n, NEW ev, RetryExecuted(n) \union {"rclose"} \subseteq DOMAIN ev,
         NEW of, \A j \in DOMAIN ev : of[j] = At(j, ev[j]), n = At("rclose", ev["rclose"]).epoch,
         RetryUpstream(ev, n) = {}, RetryBoundaryFor(ev, n) = {}, RetryExecutionFor(ev, n) = {},
         Anchors("rclose", ev, "retry_closeout_checksum_mismatch") = {}
  PROVE  RetryLinks(ev, of, n)
<1>1. RetryBounded(n) \subseteq DOMAIN ev /\ "rexec" \in DOMAIN ev /\ "rclose" \in DOMAIN ev
  BY DEF RetryExecuted
<1>2. \A k \in {"retryplan", "rapproval", "rbdry"} : of[k].ok /\ Settles(of[k], ev, n)
  BY <1>1, RetryTrailsToRun
<1>3. Settles(of["rexec"], ev, n)
  <2>1. Settles(At("rexec", ev["rexec"]), ev, n)
    BY Unblocked DEF RetryExecutionFor, Settles
  <2> QED
    BY <1>1, <2>1
<1>4. Settles(of["rclose"], ev, n)
  <2>1. Settles(At("rclose", ev["rclose"]), ev, n)
    BY Unblocked DEF Settles
  <2> QED
    BY <1>1, <2>1
<1> QED
  BY <1>2, <1>3, <1>4 DEF RetryLinks

LEMMA RetryOutcomeSays ==
  ASSUME StageShelf, NEW n \in 1 .. Total, NEW ev, Named(ev, RetryExecuted(n) \union {"rclose"}),
         n = At("rclose", ev["rclose"]).epoch, RetryOutcome(ev, n)
  PROVE  StageSays("routcome")
<1> DEFINE status == At("rclose", ev["rclose"]).status
           p == Accepted(RetryDecision(status, n), ev, n, status)
           of == [j \in DOMAIN ev |-> At(j, ev[j])]
           codes == RetryUpstream(ev, n) \union RetryBoundaryFor(ev, n) \union RetryExecutionFor(ev, n)
                    \union Usable("rclose", ev, "retry_closeout_not_closed_out")
                    \union Anchors("rclose", ev, "retry_closeout_checksum_mismatch")
<1>1. DOMAIN ev = RetryExecuted(n) \union {"rclose"} /\ \A j \in DOMAIN ev : j \in AllKinds /\ ev[j] \in Versions(j)
  BY DEF Named
<1>2. StageReply("routcome", n, codes, p, RetryOutcomeTable,
                 "inspect_controlled_runner_stage_retry_outcome_plan_blockers")
  BY DEF RetryOutcome, RetryReply
<1>3. p.has = ev /\ p.epoch = n
  BY DEF Accepted
<1>4. \A j \in DOMAIN ev : of[j] = At(j, ev[j])
  OBVIOUS
<1>5. ASSUME codes = {}
      PROVE  /\ RetryUpstream(ev, n) = {} /\ RetryBoundaryFor(ev, n) = {} /\ RetryExecutionFor(ev, n) = {}
             /\ Anchors("rclose", ev, "retry_closeout_checksum_mismatch") = {}
  BY <1>5
<1> HIDE DEF of, codes, status
<1>6. ASSUME codes = {} PROVE StageGood("routcome", p)
  <2>1. RetryLinks(ev, of, n)
    BY <1>1, <1>4, <1>5, <1>6, RetryTrails
  <2>2. StageLinks("routcome", p, of)
    <3> HIDE DEF p
    <3> QED
      BY <1>3, <2>1 DEF StageLinks
  <2>3. StageLinks("routcome", p, [j \in DOMAIN ev |-> At(j, ev[j])])
    BY <2>2 DEF of
  <2>4. DOMAIN ev = StageGives(n)["routcome"] /\ "routcome" \in StageKinds \union RetryKinds
    BY <1>1, Gives DEF RetryKinds
  <2> QED
    BY <1>1, <2>3, <2>4, StageAccepts
<1> HIDE DEF p
<1> QED
  BY <1>2, <1>6, StageReplies DEF RetryKinds

\* The outcome of a retry that is fit to be followed: that of the stage was to be retried.
LEMMA RetryFollows ==
  ASSUME StageShelf, NEW n, NEW ev, Named(ev, {"routcome"} \union RetryEnded(n)),
         n = At("routcome", ev["routcome"]).epoch, At("routcome", ev["routcome"]).ok,
         Anchors("routcome", ev, "retry_outcome_target_checksum_mismatch") = {}
  PROVE  /\ Settles(At("routcome", ev["routcome"]), ev, n)
         /\ At("souto", ev["souto"]).next \in Inspects
<1>1. /\ DOMAIN ev = {"routcome"} \union RetryEnded(n) /\ "souto" \in DOMAIN ev /\ "routcome" \in DOMAIN ev
      /\ \A j \in DOMAIN ev : j \in AllKinds /\ ev[j] \in Versions(j)
  BY DEF Named, RetryEnded, RetrySource
<1>2. Settles(At("routcome", ev["routcome"]), ev, n)
  BY Unblocked DEF Settles
<1>3. PICK r \in Versions("routcome") : r = ev["routcome"]
  BY <1>1
<1>4. PICK q, h, of : q = At("routcome", r) /\ h = q.has /\ of = Of(q)
  OBVIOUS
<1>5. At("routcome", r).ok /\ q.epoch = n
  BY <1>3, <1>4
<1>6. /\ DOMAIN h = RetryExecuted(n) \union {"rclose"} /\ RetryLinks(h, of, n)
      /\ \A j \in DOMAIN h : h[j] \in Versions(j) /\ of[j] = At(j, h[j])
  <2>1. /\ DOMAIN At("routcome", r).has = StageGives(At("routcome", r).epoch)["routcome"]
        /\ StageLinks("routcome", At("routcome", r), Of(At("routcome", r)))
        /\ \A j \in DOMAIN At("routcome", r).has :
             At("routcome", r).has[j] \in Versions(j) /\ Of(At("routcome", r))[j] = At(j, At("routcome", r).has[j])
    BY <1>5, StagePacket DEF RetryKinds
  <2> QED
    BY <1>4, <1>5, <2>1, Gives, Links
<1>7. "souto" \in DOMAIN h /\ "retryplan" \in DOMAIN h
  BY <1>6 DEF RetryExecuted, RetryBounded, RetrySource
<1>8. h["souto"] = ev["souto"]
  BY <1>1, <1>2, <1>3, <1>4, <1>7 DEF Settles, Agrees
<1>9. PICK y \in Versions("retryplan") : y = h["retryplan"]
  BY <1>6, <1>7
<1>10. At("retryplan", y).ok /\ Agrees(At("retryplan", y), h)
  BY <1>6, <1>7, <1>9 DEF RetryLinks, Settles
<1>11. PICK g : g = At("retryplan", y).has
  OBVIOUS
<1>12. "souto" \in DOMAIN g /\ At("souto", g["souto"]).next \in Inspects
  <2>1. /\ DOMAIN g = RetrySource(At("retryplan", y).epoch)
        /\ StageLinks("retryplan", At("retryplan", y), Of(At("retryplan", y)))
        /\ \A j \in DOMAIN g : Of(At("retryplan", y))[j] = At(j, g[j])
    <3>1. /\ DOMAIN At("retryplan", y).has = StageGives(At("retryplan", y).epoch)["retryplan"]
          /\ StageLinks("retryplan", At("retryplan", y), Of(At("retryplan", y)))
          /\ \A j \in DOMAIN At("retryplan", y).has : Of(At("retryplan", y))[j] = At(j, At("retryplan", y).has[j])
      BY <1>10, StagePacket DEF RetryKinds
    <3> QED
      BY <1>11, <3>1, Gives
  <2>2. "souto" \in DOMAIN g
    BY <2>1 DEF RetrySource
  <2> QED
    BY <2>1, <2>2, Links
<1>13. g["souto"] = h["souto"]
  BY <1>7, <1>10, <1>11, <1>12 DEF Agrees
<1> QED
  BY <1>2, <1>8, <1>12, <1>13

LEMMA ContinuationFromRetrySays ==
  ASSUME StageShelf, NEW ev, Named(ev, {"routcome"} \union RetryEnded(1)), 2 \in 1 .. Total,
         1 = At("routcome", ev["routcome"]).epoch, ContinuationFromRetry(ev, 1)
  PROVE  StageSays("cont")
<1> DEFINE has == Only(ev, Base \union {"souto", "close", "exec", "routcome", "rclose", "rexec"})
           p == Accepted("generalize_controlled_runner_stage_execution_readiness_for_continuation",
                         has, 2, "selected")
           of == [j \in DOMAIN has |-> At(j, has[j])]
           codes == Chain(ev) \union PostRetry(ev, "select_next_stage_after_retry") \union PostRetryAnchors(ev)
<1>1. Named(has, ConcludedAgain) /\ has["souto"] = ev["souto"]
  <2>1. /\ Base \union {"souto", "close", "exec", "routcome", "rclose", "rexec"} = ConcludedAgain
        /\ ConcludedAgain \subseteq {"routcome"} \union RetryEnded(1) /\ "souto" \in ConcludedAgain
    BY DEF ConcludedAgain, Concluded, RetryEnded, RetrySource
  <2>2. Named(Only(ev, ConcludedAgain), ConcludedAgain) /\ Only(ev, ConcludedAgain)["souto"] = ev["souto"]
    <3>1. PICK K : Named(ev, K) /\ ConcludedAgain \subseteq K
      BY <2>1
    <3>2. Named(Only(ev, ConcludedAgain), ConcludedAgain)
      BY <3>1 DEF Only, Named
    <3>3. Only(ev, ConcludedAgain)["souto"] = ev["souto"]
      BY <2>1, <3>1 DEF Only, Named
    <3> QED
      BY <3>2, <3>3
  <2> QED
    BY <2>1, <2>2
<1>2. StageReply("cont", 2, codes, p, ContinuationTable,
                 "inspect_controlled_runner_next_stage_continuation_blockers")
  BY DEF ContinuationFromRetry, RetryReply
<1>3. ASSUME codes = {}
      PROVE  PostRetry(ev, "select_next_stage_after_retry") = {} /\ PostRetryAnchors(ev) = {}
  BY <1>3
<1> HIDE DEF codes, has
<1>4. p.has = has
  BY DEF Accepted
<1>5. of["souto"] = At("souto", ev["souto"])
  BY <1>1 DEF Named, ConcludedAgain, Concluded
<1> HIDE DEF of
<1>6. ASSUME codes = {} PROVE StageGood("cont", p)
  <2>1. /\ At("routcome", ev["routcome"]).ok
        /\ Anchors("routcome", ev, "retry_outcome_target_checksum_mismatch") = {}
    BY <1>3, <1>6 DEF PostRetry, PostRetryAnchors, Follows, NextStep, When
  <2>2. At("souto", ev["souto"]).next \in Inspects
    BY <2>1, RetryFollows
  <2>3. StageLinks("cont", p, of)
    <3> HIDE DEF p
    <3> QED
      BY <1>4, <1>5, <2>2 DEF StageLinks
  <2>4. StageLinks("cont", p, [j \in DOMAIN has |-> At(j, has[j])])
    BY <2>3 DEF of
  <2>5. "cont" \in StageKinds \union RetryKinds
    BY DEF StageKinds
  <2>6. DOMAIN has \in Going /\ \A j \in DOMAIN has : j \in AllKinds /\ has[j] \in Versions(j)
    BY <1>1 DEF Going, Named
  <2> QED
    BY <2>4, <2>5, <2>6, StageAccepts
<1> HIDE DEF p
<1> QED
  BY <1>2, <1>6, StageReplies DEF StageKinds

LEMMA CompletionFromRetrySays ==
  ASSUME StageShelf, NEW n \in 1 .. Total, NEW ev, Named(ev, {"routcome"} \union RetryEnded(n)),
         n = At("routcome", ev["routcome"]).epoch, CompletionFromRetry(ev, n)
  PROVE  StageSays("done")
<1> DEFINE p == Accepted("review_controlled_runner_completion", ev, n, "completed")
           of == [j \in DOMAIN ev |-> At(j, ev[j])]
           codes == Chain(ev) \union PostRetry(ev, "complete_runner_after_retry") \union PostRetryAnchors(ev)
                    \union ContinuationAnchors(ev, n)
<1>1. /\ DOMAIN ev = {"routcome"} \union RetryEnded(n) /\ "rexec" \in DOMAIN ev
      /\ \A j \in DOMAIN ev : j \in AllKinds /\ ev[j] \in Versions(j)
  BY DEF Named, RetryEnded
<1>2. StageReply("done", n, codes, p, CompletionTable, "inspect_controlled_runner_completion_blockers")
  BY DEF CompletionFromRetry, RetryReply
<1>3. ASSUME codes = {}
      PROVE  PostRetry(ev, "complete_runner_after_retry") = {} /\ PostRetryAnchors(ev) = {}
  BY <1>3
<1>4. of["routcome"] = At("routcome", ev["routcome"]) /\ of["rexec"] = At("rexec", ev["rexec"])
  BY <1>1
<1> HIDE DEF of, codes
<1>5. ASSUME codes = {} PROVE StageGood("done", p)
  <2>1. /\ At("routcome", ev["routcome"]).ok
        /\ Anchors("routcome", ev, "retry_outcome_target_checksum_mismatch") = {}
        /\ At("rexec", ev["rexec"]).status = "completed"
    BY <1>3, <1>5 DEF PostRetry, PostRetryAnchors, Follows, NextStep, When
  <2>2. Settles(At("routcome", ev["routcome"]), ev, n)
    BY <2>1, RetryFollows
  <2>3. p.has = ev /\ p.epoch = n
    BY DEF Accepted
  <2>4. StageLinks("done", p, of)
    <3> HIDE DEF p
    <3> QED
      BY <1>1, <1>4, <2>1, <2>2, <2>3 DEF StageLinks
  <2>5. StageLinks("done", p, [j \in DOMAIN ev |-> At(j, ev[j])])
    BY <2>4 DEF of
  <2>6. DOMAIN ev \in Finishing(n) /\ "done" \in StageKinds \union RetryKinds
    BY <1>1 DEF StageKinds, Finishing
  <2> QED
    BY <1>1, <2>5, <2>6, StageAccepts
<1> HIDE DEF p
<1> QED
  BY <1>2, <1>5, StageReplies DEF StageKinds

------------------------------------------------------------------------------
(* Every step of the stages keeps what holds                                *)

Quiet == UNCHANGED <<lapsed, audit, torn, busy, printed, starter, reserved, retried, there>>

LEMMA FilesLast ==
  ASSUME Keeps, NEW t, \A j \in DOMAIN t : j \in AllKinds /\ t[j] \in Versions(j)
  PROVE  \A j \in DOMAIN t : t[j] \in Versions(j)' /\ At(j, t[j])' = At(j, t[j])
BY DEF Keeps, Versions, At

LEMMA OnTrailLasts ==
  ASSUME Keeps, NEW t, NEW n, OnTrail(t, n)
  PROVE  OnTrail(t, n)'
<1>1. /\ DOMAIN t \in {Bounded(n), Executed(n) \union {"close", "souto"}}
      /\ \A j \in DOMAIN t : j \in AllKinds /\ t[j] \in Versions(j)
  BY DEF OnTrail
<1>2. \A j \in DOMAIN t : t[j] \in Versions(j)' /\ At(j, t[j])' = At(j, t[j])
  BY <1>1, FilesLast
<1>3. ([j \in DOMAIN t |-> At(j, t[j])])' = [j \in DOMAIN t |-> At(j, t[j])]
  BY <1>2
<1>4. SelectionLinks(t, [j \in DOMAIN t |-> At(j, t[j])], n)'
  BY <1>3 DEF OnTrail
<1>5. \A k \in Steps \intersect DOMAIN t : (Settles(At(k, t[k]), t, n) /\ (k # "close" => At(k, t[k]).ok))'
  BY <1>2 DEF OnTrail
<1> QED
  BY <1>1, <1>2, <1>4, <1>5 DEF OnTrail

LEMMA OnRetryLasts ==
  ASSUME Keeps, NEW t, NEW n, OnRetry(t, n)
  PROVE  OnRetry(t, n)'
<1>1. /\ DOMAIN t \in {RetryBounded(n), RetryExecuted(n) \union {"rclose", "routcome"}}
      /\ \A j \in DOMAIN t : j \in AllKinds /\ t[j] \in Versions(j)
  BY DEF OnRetry
<1>2. \A j \in DOMAIN t : t[j] \in Versions(j)' /\ At(j, t[j])' = At(j, t[j])
  BY <1>1, FilesLast
<1>3. \A k \in RetryKinds \intersect DOMAIN t :
        (Settles(At(k, t[k]), t, n) /\ (k \notin {"rexec", "rclose"} => At(k, t[k]).ok))'
  BY <1>2 DEF OnRetry
<1> QED
  BY <1>1, <1>2, <1>3 DEF OnRetry

LEMMA JobLasts ==
  ASSUME Keeps, NEW job, JobFits(job)
  PROVE  JobFits(job)'
<1>1. PICK ev, n, K : ev = job.files /\ n = job.n /\ K = StageGives(n)[job.kind]
  OBVIOUS
<1>2. Named(ev, K)
  BY <1>1 DEF JobFits
<1>3. Named(ev, K)'
  BY <1>2 DEF Named, Keeps, Versions
<1>4. job.kind = "exec" => OnTrail(ev, n)'
  BY <1>1, OnTrailLasts DEF JobFits
<1>5. job.kind # "exec" => OnRetry(ev, n)'
  BY <1>1, OnRetryLasts DEF JobFits
<1> QED
  BY <1>1, <1>3, <1>4, <1>5 DEF JobFits

LEMMA JobsLast ==
  ASSUME Jobs, Keeps, \A job \in busy' \ busy : JobFits(job)'
  PROVE  Jobs'
BY JobLasts DEF Jobs

LEMMA OutputsLast ==
  ASSUME Outputs, Keeps, \A p \in printed' \ printed : p[1] \in {"exec", "rexec"} /\ p[2] \in Versions(p[1])'
  PROVE  Outputs'
<1>1. ASSUME NEW p \in printed PROVE p[1] \in {"exec", "rexec"} /\ p[2] \in Versions(p[1])'
  <2>1. p[1] \in {"exec", "rexec"} /\ p[2] \in DOMAIN shelf[p[1]] /\ p[1] \in AllKinds
    BY DEF Outputs, Versions, AllKinds, StageKinds, RetryKinds
  <2> QED
    BY <2>1 DEF Keeps, Versions
<1> QED
  BY <1>1 DEF Outputs

\* Where no execution is printed and no epoch started, what started it is as before.
LEMMA StartersLast ==
  ASSUME Starters, shelf'["exec"] = shelf["exec"], shelf'["rexec"] = shelf["rexec"],
         starter' = starter \/ starter = <<>>
  PROVE  Starters'
<1> SUFFICES ASSUME NEW k \in {"exec", "rexec"}, NEW v \in DOMAIN shelf'[k],
                    shelf'[k][v].status = "completed", shelf'[k][v].epoch = 2
             PROVE  starter' = <<k, v>>
  BY DEF Starters, Versions, At
<1>1. v \in DOMAIN shelf[k] /\ shelf'[k][v] = shelf[k][v]
  OBVIOUS
<1>2. starter = <<k, v>>
  BY <1>1 DEF Starters, Versions, At
<1> QED
  BY <1>2

LEMMA QuietKeeps ==
  ASSUME StageHolds, NEW k \in AllKinds \ Five, k \notin {"exec", "rexec"}, StageSays(k),
         UNCHANGED <<lapsed, torn, busy, printed, starter, reserved, retried, there>>,
         audit' = audit \/ (k = "started" /\ audit' = audit \union {<<"started", Len(shelf["started"]) + 1>>})
  PROVE  StageHolds'
<1> USE DEF StageHolds
<1>1. PICK p : StageGood(k, p) /\ shelf' = Place(k, p)
  BY DEF StageSays
<1>2. /\ Stocked' /\ Keeps /\ Len(shelf[k]) \in Nat /\ DOMAIN shelf[k] = 1 .. Len(shelf[k])
      /\ DOMAIN shelf'[k] = 1 .. Len(shelf[k]) + 1
      /\ \A j \in AllKinds \ {k} : shelf'[j] = shelf[j]
  BY <1>1, Shelved
<1>3. PICK n : n = Len(shelf[k]) + 1
  OBVIOUS
<1>4. n \notin Versions(k) /\ n \in Versions(k)'
  BY <1>2, <1>3 DEF Versions
<1>5. audit' = audit \/ (k = "started" /\ audit' = audit \union {<<"started", n>>})
  BY <1>3
<1>8. StageShelf'
  BY <1>1, StagePrints
<1>9. Noted'
  <2>1. \A a \in audit' \ audit : a[1] \in AllKinds /\ a[2] \in Versions(a[1])'
    BY <1>4, <1>5
  <2> QED
    BY <1>2, <2>1, NotedLasts
<1>10. Jobs' /\ Outputs' /\ Reserves'
  BY <1>2, JobsLast, OutputsLast DEF Reserves
<1>11. Starters'
  <2>1. shelf'["exec"] = shelf["exec"] /\ shelf'["rexec"] = shelf["rexec"]
    BY <1>2 DEF AllKinds, StageKinds, RetryKinds
  <2> QED
    BY <2>1, StartersLast
<1> QED
  BY <1>2, <1>8, <1>9, <1>10, <1>11

\* Where nothing is printed.
LEMMA RestKeeps ==
  ASSUME StageHolds, shelf' = shelf, lapsed' \subseteq lapsed \union Versions("sign"), audit' = audit,
         printed' \subseteq printed,
         \A job \in busy' \ busy : JobFits(job),
         starter' = starter \/ starter = <<>>, Reserves'
  PROVE  StageHolds'
<1> USE DEF StageHolds
<1>1. Stocked' /\ StageShelf' /\ Keeps
  BY StageRests
<1>3. Noted'
  BY <1>1, NotedLasts
<1>4. Jobs'
  <2>1. \A job \in busy' \ busy : JobFits(job)'
    BY <1>1, JobLasts
  <2> QED
    BY <1>1, <2>1, JobsLast
<1>5. Outputs'
  BY <1>1, OutputsLast
<1>6. Starters'
  BY StartersLast
<1> QED
  BY <1>1, <1>3, <1>4, <1>5, <1>6

\* An execution, or a retry, is printed.
LEMMA DonePacket ==
  ASSUME StageShelf, NEW job, JobFits(job), NEW exit, NEW epoch, NEW kind \in {"exec", "rexec"}, NEW written,
         job.kind = kind, Done(job, exit, epoch, kind, written)
  PROVE  \E p : /\ StageGood(kind, p) /\ shelf' = Place(kind, p)
                /\ p.epoch = job.n /\ (p.status = "completed" => exit = "in_order" /\ Succeeds(job, epoch))
<1> DEFINE said == IF exit = "undeclared" \/ torn \/ ~written THEN "blocked" ELSE ExecStatus(exit, epoch, job)
           next == IF said = "blocked" THEN "inspect" ELSE "closeout"
           a == Accepted(next, job.files, job.n, said)
           b == [a EXCEPT !.ok = said # "blocked"]
           p == With(b, "exit", exit)
<1>1. shelf' = Place(kind, p)
  BY DEF Done
<1>2. b.ok = (said # "blocked") /\ b.has = job.files /\ b.epoch = job.n /\ b.line = Lineage(job.files)
      /\ b.status = said /\ DOMAIN b = {"ok", "next", "has", "epoch", "status", "line"}
  <2> HIDE DEF said, next
  <2> QED
    BY DEF Accepted
<1>3. said = "completed" => exit = "in_order" /\ Succeeds(job, epoch)
  BY DEF ExecStatus
<1> HIDE DEF b, said, next
<1>4. p.ok = (said # "blocked") /\ p.has = job.files /\ p.epoch = job.n /\ p.line = Lineage(job.files)
      /\ p.status = said
  BY <1>2 DEF With
<1> HIDE DEF p
<1>5. p.ok \in BOOLEAN /\ Refers(p) /\ p.line = Lineage(p.has)
  BY <1>4 DEF Refers, JobFits, Named
<1>6. DOMAIN p.has = StageGives(p.epoch)[kind] /\ p.epoch \in 1 .. Total
  BY <1>4 DEF JobFits, Named
<1>7. Shaped(kind, p)
  BY <1>6 DEF Shaped, Stages
<1>8. StageLinks(kind, p, Of(p)) /\ Holds(kind, p)
  BY DEF StageLinks, Holds
<1>9. StageGood(kind, p)
  <2>1. kind \in StageKinds \union RetryKinds
    BY DEF StageKinds, RetryKinds
  <2> QED
    BY <1>5, <1>7, <1>8, <2>1, StageMade
<1> QED
  BY <1>1, <1>3, <1>4, <1>9

LEMMA DoneKeeps ==
  ASSUME StageHolds, NEW job \in busy, NEW exit, NEW epoch \in BOOLEAN, NEW kind \in {"exec", "rexec"},
         NEW written, job.kind = kind, Done(job, exit, epoch, kind, written), Reserves'
  PROVE  StageHolds'
<1> USE DEF StageHolds
<1>1. PICK p : /\ StageGood(kind, p) /\ shelf' = Place(kind, p)
               /\ p.epoch = job.n /\ (p.status = "completed" => exit = "in_order" /\ Succeeds(job, epoch))
  BY DonePacket DEF Jobs
<1>2. kind \in AllKinds \ Five /\ "exec" \in AllKinds /\ "rexec" \in AllKinds
  BY DEF AllKinds, StageKinds, RetryKinds, Five
<1>3. /\ Stocked' /\ Keeps /\ Len(shelf[kind]) \in Nat /\ DOMAIN shelf[kind] = 1 .. Len(shelf[kind])
      /\ DOMAIN shelf'[kind] = 1 .. Len(shelf[kind]) + 1 /\ shelf'[kind][Len(shelf[kind]) + 1] = p
      /\ \A j \in AllKinds \ {kind} : shelf'[j] = shelf[j]
  BY <1>1, <1>2, Shelved
<1>4. PICK n : n = Len(shelf[kind]) + 1
  OBVIOUS
<1>5. n \notin Versions(kind) /\ n \in Versions(kind)' /\ DOMAIN shelf'[kind] = Versions(kind) \union {n}
      /\ shelf'[kind][n] = p
  BY <1>3, <1>4 DEF Versions
<1>6. /\ audit' \in {audit, audit \union {<<kind, n>>}}
      /\ printed' \subseteq printed \union {<<kind, n>>}
      /\ busy' \subseteq busy /\ lapsed' = lapsed /\ torn' = torn
      /\ Effect(job, <<kind, n>>, epoch)
  BY <1>4 DEF Done
<1>8. StageShelf'
  BY <1>1, <1>2, StagePrints
<1>9. Noted'
  <2>1. \A a \in audit' \ audit : a[1] \in AllKinds /\ a[2] \in Versions(a[1])'
    BY <1>2, <1>5, <1>6
  <2> QED
    BY <1>3, <1>6, <2>1, NotedLasts
<1>10. Jobs'
  BY <1>3, <1>6, JobsLast
<1>11. Outputs'
  <2>1. \A q \in printed' \ printed : q[1] \in {"exec", "rexec"} /\ q[2] \in Versions(q[1])'
    BY <1>5, <1>6
  <2> QED
    BY <1>3, <2>1, OutputsLast
<1>12. Starters'
  <2> SUFFICES ASSUME NEW k \in {"exec", "rexec"}, NEW v \in DOMAIN shelf'[k], NEW q, q = shelf'[k][v],
                      q.status = "completed", q.epoch = 2
               PROVE  starter' = <<k, v>>
    BY DEF Starters, Versions, At
  <2>1. CASE k = kind /\ v = n
    <3>1. job.n = 2 /\ Succeeds(job, epoch)
      BY <1>1, <1>5, <2>1
    <3> QED
      BY <1>6, <2>1, <3>1 DEF Effect, Succeeds
  <2>2. CASE ~(k = kind /\ v = n)
    <3>1. v \in DOMAIN shelf[k] /\ q = shelf[k][v]
      BY <1>2, <1>3, <1>5, <2>2 DEF Keeps, Versions
    <3>2. starter = <<k, v>>
      BY <3>1 DEF Starters, Versions, At
    <3> QED
      BY <1>6, <3>2 DEF Effect
  <2> QED
    BY <2>1, <2>2
<1> QED
  BY <1>3, <1>8, <1>9, <1>10, <1>11, <1>12

LEMMA IssueInBound ==
  ASSUME extra \in 0 .. MaxExtra, NEW kind, NEW n, NEW p, StageIssue(kind, n, p)
  PROVE  extra' \in 0 .. MaxExtra
<1>1. PICK b \in {0, 1} : extra' = extra + b /\ extra' <= MaxExtra
  BY DEF StageIssue
<1> QED
  BY <1>1, ExtraAssumption

LEMMA MoreInBound ==
  ASSUME extra \in 0 .. MaxExtra, NEW b \in {0, 1}, extra' = extra + b, extra' <= MaxExtra
  PROVE  extra' \in 0 .. MaxExtra
BY ExtraAssumption

\* A packet is printed and nothing else happens.
Prints(k) == StageSays(k) /\ Quiet /\ extra' \in 0 .. MaxExtra

LEMMA PrintKeeps ==
  ASSUME StageInv, NEW k \in StageKinds \union RetryKinds \union {"stage", "sign"}, k \notin {"exec", "rexec"}, Prints(k)
  PROVE  StageInv'
<1>1. k \in AllKinds \ Five
  BY DEF AllKinds, StageKinds, RetryKinds, RunnerKinds, Five
<1>2. StageHolds'
  BY <1>1, QuietKeeps DEF StageInv, Prints, Quiet
<1> QED
  BY <1>2 DEF StageInv, Prints

LEMMA ReplyPrints ==
  ASSUME StageInv, NEW k, NEW n, NEW codes, NEW accepted, NEW table, NEW other,
         StageReply(k, n, codes, accepted, table, other), UNCHANGED kept, StageSays(k)
  PROVE  Prints(k)
<1>1. Quiet
  BY DEF StageReply, Quiet, kept
<1>2. PICK p : StageIssue(k, n, p)
  BY DEF StageReply
<1>3. extra' \in 0 .. MaxExtra
  BY <1>2, IssueInBound DEF StageInv
<1> QED
  BY <1>1, <1>3 DEF Prints

LEMMA IssuePrints ==
  ASSUME StageInv, NEW k, NEW n, NEW p, StageIssue(k, n, p), UNCHANGED <<lapsed, audit, torn, busy, printed, starter>>,
         UNCHANGED kept, StageSays(k)
  PROVE  Prints(k)
<1>1. Quiet
  BY DEF Quiet, kept
<1>2. extra' \in 0 .. MaxExtra
  BY IssueInBound DEF StageInv
<1> QED
  BY <1>1, <1>2 DEF Prints

\* The commands of a stage, and of a retry, as they are given files.
LEMMA StageCommands ==
  ASSUME StageInv, UNCHANGED kept
  PROVE  /\ (\E kind \in {"stage", "bind"} : \E f \in Files(kind, "xready", Source) : StageReadiness(f.ev, f.n))
              => Prints("xready")
         /\ (\E f \in Files("xready", "stapproval", Source), sign \in Versions("sign"),
                m \in {0} \union Versions("sign") : (f.n = 1 <=> m = 0) /\ StageApproval(f.ev, f.n, sign, m))
              => Prints("stapproval")
         /\ (\E f \in Files("stapproval", "bdry", Readied) : InvocationBoundary(f.ev, f.n)) => Prints("bdry")
         /\ (\E f \in Files("exec", "close", Bounded), mistaken \in BOOLEAN : StageCloseout(f.ev, f.n, mistaken))
              => Prints("close")
         /\ (\E f \in Files("close", "souto", Executed) : StageOutcome(f.ev, f.n)) => Prints("souto")
<1> USE DEF StageInv, StageHolds
<1>1. ASSUME NEW f, StageReadiness(f.ev, f.n),
             f \in Files("stage", "xready", Source) \/ f \in Files("bind", "xready", Source)
      PROVE  Prints("xready")
  <2>1. PICK n, ev : n = f.n /\ ev = f.ev
    OBVIOUS
  <2>2. n \in 1 .. Total /\ Named(ev, Source(n))
    BY <1>1, <2>1, FilesStageXready, FilesBindXready
  <2>3. StageSays("xready")
    BY <1>1, <2>1, <2>2, StageReadinessSays
  <2> QED
    BY <1>1, <2>3, ReplyPrints DEF StageReadiness
<1>2. ASSUME NEW f \in Files("xready", "stapproval", Source), NEW sign \in Versions("sign"),
             NEW m \in {0} \union Versions("sign"), StageApproval(f.ev, f.n, sign, m)
      PROVE  Prints("stapproval")
  <2>1. PICK n, ev : n = f.n /\ ev = f.ev
    OBVIOUS
  <2>2. n \in 1 .. Total /\ Named(ev, Readied(n))
    BY <2>1, FilesXreadyStapproval
  <2>3. StageSays("stapproval")
    BY <1>2, <2>1, <2>2, StageApprovalSays
  <2> QED
    BY <1>2, <2>3, ReplyPrints DEF StageApproval
<1>3. ASSUME NEW f \in Files("stapproval", "bdry", Readied), InvocationBoundary(f.ev, f.n)
      PROVE  Prints("bdry")
  <2>1. PICK n, ev : n = f.n /\ ev = f.ev
    OBVIOUS
  <2>2. n \in 1 .. Total /\ Named(ev, Approved(n))
    BY <2>1, FilesStapprovalBdry
  <2>3. StageSays("bdry")
    BY <1>3, <2>1, <2>2, InvocationBoundarySays
  <2> QED
    BY <1>3, <2>3, ReplyPrints DEF InvocationBoundary
<1>4. ASSUME NEW f \in Files("exec", "close", Bounded), NEW mistaken, StageCloseout(f.ev, f.n, mistaken)
      PROVE  Prints("close")
  <2>1. PICK n, ev : n = f.n /\ ev = f.ev
    OBVIOUS
  <2>2. n \in 1 .. Total /\ Named(ev, Executed(n))
    BY <2>1, FilesExecClose
  <2>3. StageSays("close")
    BY <1>4, <2>1, <2>2, StageCloseoutSays
  <2> QED
    BY <1>4, <2>3, IssuePrints DEF StageCloseout
<1>5. ASSUME NEW f \in Files("close", "souto", Executed), StageOutcome(f.ev, f.n)
      PROVE  Prints("souto")
  <2>1. PICK n, ev : n = f.n /\ ev = f.ev
    OBVIOUS
  <2>2. n \in 1 .. Total /\ Named(ev, Executed(n) \union {"close"})
    BY <2>1, FilesCloseSouto
  <2>3. StageSays("souto")
    BY <1>5, <2>1, <2>2, StageOutcomeSays
  <2> QED
    BY <1>5, <2>3, ReplyPrints DEF StageOutcome
<1> QED
  BY <1>1, <1>2, <1>3, <1>4, <1>5

LEMMA CompletionPrints ==
  ASSUME StageInv, NEW f \in Files("souto", "done", Settled), Completion(f.ev, f.n)
  PROVE  Prints("done")
<1> USE DEF StageInv, StageHolds
<1>1. PICK n, ev : n = f.n /\ ev = f.ev
  OBVIOUS
<1>2. n \in 1 .. Total /\ Named(ev, RetrySource(n)) /\ n = At("souto", ev["souto"]).epoch
  BY <1>1, FilesSoutoDone
<1>3. StageSays("done")
  BY <1>1, <1>2, CompletionSays
<1> QED
  BY <1>3, ReplyPrints DEF Completion, RetryReply

LEMMA RetryPlanPrints ==
  ASSUME StageInv, NEW f \in Files("souto", "retryplan", Settled), RetryPlan(f.ev, f.n)
  PROVE  Prints("retryplan")
<1> USE DEF StageInv, StageHolds
<1>1. PICK n, ev : n = f.n /\ ev = f.ev
  OBVIOUS
<1>2. n \in 1 .. Total /\ Named(ev, RetrySource(n)) /\ n = At("souto", ev["souto"]).epoch
  BY <1>1, FilesSoutoRetryplan
<1>3. StageSays("retryplan")
  BY <1>1, <1>2, RetryPlanSays
<1> QED
  BY <1>3, ReplyPrints DEF RetryPlan, RetryReply

LEMMA RetryApprovalPrints ==
  ASSUME StageInv, NEW f \in Files("retryplan", "rapproval", RetrySource), NEW sign \in Versions("sign"),
         RetryApproval(f.ev, f.n, sign)
  PROVE  Prints("rapproval")
<1> USE DEF StageInv, StageHolds
<1>1. PICK n, ev : n = f.n /\ ev = f.ev
  OBVIOUS
<1>2. n \in 1 .. Total /\ Named(ev, RetrySource(n) \union {"retryplan"})
  BY <1>1, FilesRetryplanRapproval
<1>3. StageSays("rapproval")
  BY <1>1, <1>2, RetryApprovalSays
<1> QED
  BY <1>3, ReplyPrints DEF RetryApproval, RetryReply

LEMMA RetryBoundaryPrints ==
  ASSUME StageInv, NEW f \in Files("rapproval", "rbdry", RetryBounded), NEW file \in RetryFiles,
         NEW terms \in RetryTerms, RetryBoundary(f.ev, f.n, file, terms)
  PROVE  Prints("rbdry")
<1> USE DEF StageInv, StageHolds
<1>1. PICK n, ev : n = f.n /\ ev = f.ev
  OBVIOUS
<1>2. n \in 1 .. Total /\ Named(ev, RetrySource(n) \union {"retryplan", "rapproval"})
  BY <1>1, FilesRapprovalRbdry
<1>3. StageSays("rbdry")
  BY <1>1, <1>2, RetryBoundarySays
<1> QED
  BY <1>3, ReplyPrints DEF RetryBoundary, RetryReply

LEMMA RetryCloseoutPrints ==
  ASSUME StageInv, NEW f \in Files("rexec", "rclose", RetryBounded), RetryCloseout(f.ev, f.n)
  PROVE  Prints("rclose")
<1> USE DEF StageInv, StageHolds
<1>1. PICK n, ev : n = f.n /\ ev = f.ev
  OBVIOUS
<1>2. n \in 1 .. Total /\ Named(ev, RetryExecuted(n))
  BY <1>1, FilesRexecRclose
<1>3. StageSays("rclose")
  BY <1>1, <1>2, RetryCloseoutSays
<1> QED
  BY <1>3, ReplyPrints DEF RetryCloseout, RetryReply

LEMMA RetryOutcomePrints ==
  ASSUME StageInv, NEW f \in Files("rclose", "routcome", RetryExecuted), RetryOutcome(f.ev, f.n)
  PROVE  Prints("routcome")
<1> USE DEF StageInv, StageHolds
<1>1. PICK n, ev : n = f.n /\ ev = f.ev
  OBVIOUS
<1>2. n \in 1 .. Total /\ Named(ev, RetryExecuted(n) \union {"rclose"}) /\ n = At("rclose", ev["rclose"]).epoch
  BY <1>1, FilesRcloseRoutcome
<1>3. StageSays("routcome")
  BY <1>1, <1>2, RetryOutcomeSays
<1> QED
  BY <1>3, ReplyPrints DEF RetryOutcome, RetryReply

LEMMA CompletionFromRetryPrints ==
  ASSUME StageInv, NEW f \in Files("routcome", "done", RetryEnded), CompletionFromRetry(f.ev, f.n)
  PROVE  Prints("done")
<1> USE DEF StageInv, StageHolds
<1>1. PICK n, ev : n = f.n /\ ev = f.ev
  OBVIOUS
<1>2. n \in 1 .. Total /\ Named(ev, {"routcome"} \union RetryEnded(n)) /\ n = At("routcome", ev["routcome"]).epoch
  BY <1>1, FilesRoutcomeDone
<1>3. StageSays("done")
  BY <1>1, <1>2, CompletionFromRetrySays
<1> QED
  BY <1>3, ReplyPrints DEF CompletionFromRetry, RetryReply

LEMMA ContinuationPrints ==
  ASSUME StageInv, NEW f \in Files("souto", "cont", Settled), f.n < Total, Continuation(Only(f.ev, RetrySource(1)), f.n)
  PROVE  Prints("cont")
<1> USE DEF StageInv, StageHolds
<1>1. f.n \in 1 .. Total /\ Named(f.ev, RetrySource(f.n))
  BY FilesSoutoCont
<1>2. f.n = 1 /\ 2 \in 1 .. Total
  BY <1>1, TotalAssumption
<1>3. PICK ev : ev = Only(f.ev, RetrySource(1))
  OBVIOUS
<1>4. Named(ev, RetrySource(1)) /\ Continuation(ev, 1)
  BY <1>1, <1>2, <1>3, OnlyNamed
<1>5. StageSays("cont")
  BY <1>2, <1>4, ContinuationSays
<1> QED
  BY <1>4, <1>5, ReplyPrints DEF Continuation, RetryReply

LEMMA ContinuationFromRetryPrints ==
  ASSUME StageInv, NEW f \in Files("routcome", "cont", RetryEnded), f.n < Total, ContinuationFromRetry(f.ev, f.n)
  PROVE  Prints("cont")
<1> USE DEF StageInv, StageHolds
<1>1. PICK n, ev : n = f.n /\ ev = f.ev
  OBVIOUS
<1>2. n \in 1 .. Total /\ Named(ev, {"routcome"} \union RetryEnded(n)) /\ n = At("routcome", ev["routcome"]).epoch
  BY <1>1, FilesRoutcomeCont
<1>3. n = 1 /\ 2 \in 1 .. Total
  BY <1>1, <1>2, TotalAssumption
<1>4. ContinuationFromRetry(ev, 1)
  BY <1>1, <1>3
<1>5. StageSays("cont")
  BY <1>2, <1>3, <1>4, ContinuationFromRetrySays
<1> QED
  BY <1>4, <1>5, ReplyPrints DEF ContinuationFromRetry, RetryReply

LEMMA InputBindingPrints ==
  ASSUME StageInv, NEW f \in Files("cont", "bind", RetrySource), InputBinding(f.ev, f.n)
  PROVE  Prints("bind")
<1> USE DEF StageInv, StageHolds
<1>1. PICK ev : ev = f.ev
  OBVIOUS
<1>2. f.n = 2 /\ 2 \in 1 .. Total /\ Named(ev, {"cont"} \union Concluded)
  BY <1>1, FilesContBind
<1>3. InputBinding(ev, 2)
  BY <1>1, <1>2
<1>4. StageSays("bind")
  BY <1>2, <1>3, InputBindingSays
<1> QED
  BY <1>3, <1>4, ReplyPrints DEF InputBinding, RetryReply

\* A process is run, for what a boundary names.
LEMMA RunsOnTrail ==
  ASSUME NEW n \in 1 .. Total, NEW ev, Named(ev, Bounded(n)), Upstream(ev, n) = {}, BoundaryFor(ev, n) = {}
  PROVE  OnTrail(ev, n)
<1> DEFINE of == [j \in DOMAIN ev |-> At(j, ev[j])]
<1>1. n \in {1, 2} /\ DOMAIN ev = Bounded(n) /\ \A j \in DOMAIN ev : j \in AllKinds /\ ev[j] \in Versions(j)
  BY TotalAssumption DEF Named
<1>2. \A j \in DOMAIN ev : of[j] = At(j, ev[j])
  OBVIOUS
<1> HIDE DEF of
<1>3. SelectionLinks(ev, of, n) /\ \A k \in {"xready", "stapproval", "bdry"} : of[k].ok /\ Settles(of[k], ev, n)
  BY <1>1, <1>2, TrailsToRun
<1>4. Steps \intersect DOMAIN ev = {"xready", "stapproval", "bdry"}
  BY <1>1 DEF Steps, Bounded, Approved, Readied, Source, Base
<1>5. SelectionLinks(ev, [j \in DOMAIN ev |-> At(j, ev[j])], n)
  BY <1>3 DEF of
<1>6. \A k \in Steps \intersect DOMAIN ev : Settles(At(k, ev[k]), ev, n) /\ At(k, ev[k]).ok
  BY <1>2, <1>3, <1>4
<1> QED
  BY <1>1, <1>5, <1>6 DEF OnTrail

LEMMA RunsOnRetry ==
  ASSUME NEW n \in 1 .. Total, NEW ev, Named(ev, RetryBounded(n)), RetryUpstream(ev, n) = {},
         RetryBoundaryFor(ev, n) = {}
  PROVE  OnRetry(ev, n)
<1> DEFINE of == [j \in DOMAIN ev |-> At(j, ev[j])]
<1>1. DOMAIN ev = RetryBounded(n) /\ \A j \in DOMAIN ev : j \in AllKinds /\ ev[j] \in Versions(j)
  BY DEF Named
<1>2. \A j \in DOMAIN ev : of[j] = At(j, ev[j])
  OBVIOUS
<1> HIDE DEF of
<1>3. \A k \in {"retryplan", "rapproval", "rbdry"} : of[k].ok /\ Settles(of[k], ev, n)
  BY <1>1, <1>2, RetryTrailsToRun
<1>4. RetryKinds \intersect DOMAIN ev = {"retryplan", "rapproval", "rbdry"}
  BY <1>1 DEF RetryKinds, RetryBounded, RetrySource, Base
<1>5. \A k \in RetryKinds \intersect DOMAIN ev : Settles(At(k, ev[k]), ev, n) /\ At(k, ev[k]).ok
  BY <1>2, <1>3, <1>4
<1> QED
  BY <1>1, <1>5 DEF OnRetry

LEMMA ExecuteKeeps ==
  ASSUME StageInv, UNCHANGED kept, NEW b \in Versions("bdry"), NEW ev \in Given("bdry", b, Approved(StageOf("bdry", b))),
         StageExecute(ev, StageOf("bdry", b))
  PROVE  StageInv'
<1> USE DEF StageInv, StageHolds
<1>1. PICK n : n = At("bdry", b).epoch
  OBVIOUS
<1>2. n \in 1 .. Total /\ Named(ev, Bounded(n))
  <2>1. ev \in Given("bdry", b, Approved(At("bdry", b).epoch))
    BY DEF StageOf
  <2>2. At("bdry", b).epoch \in 1 .. Total /\ Named(ev, Bounded(At("bdry", b).epoch))
    BY <2>1, FilesBdry
  <2> QED
    BY <1>1, <2>2
<1>3. PICK e \in {0, 1} : extra' = extra + e /\ extra' <= MaxExtra
  BY DEF StageExecute
<1>4. PICK job : job = [kind |-> "exec", n |-> n, files |-> ev, try |-> extra'] /\ Runs(job)
  BY <1>1 DEF StageExecute, StageOf
<1>5. JobFits(job)
  <2>1. Upstream(ev, n) = {} /\ BoundaryFor(ev, n) = {}
    BY <1>1 DEF StageExecute, StageOf
  <2>2. OnTrail(ev, n)
    BY <1>2, <2>1, RunsOnTrail
  <2> QED
    BY <1>2, <1>4, <2>2, Gives DEF JobFits
<1>6. StageHolds'
  <2>1. /\ shelf' = shelf /\ lapsed' = lapsed /\ audit' = audit /\ torn' = torn /\ printed' = printed
        /\ starter' = starter /\ busy' = busy \union {job}
    BY <1>4 DEF Runs
  <2>2. Reserves'
    BY DEF Reserves, kept
  <2> QED
    BY <1>5, <2>1, <2>2, RestKeeps
<1> QED
  BY <1>3, <1>6, MoreInBound

\* What a retry's boundary says of its output.
LEMMA OutputIs ==
  ASSUME StageShelf, NEW ev, NEW K, Named(ev, K), "rbdry" \in K, At("rbdry", ev["rbdry"]).ok
  PROVE  OutputOf(ev) \in RetryFiles /\ At("rbdry", ev["rbdry"]).terms \in RetryTerms
<1>1. PICK v \in Versions("rbdry") : v = ev["rbdry"]
  BY DEF Named
<1>2. Holds("rbdry", At("rbdry", v))
  BY StageReads, StagedKinds DEF RetryKinds
<1> QED
  BY <1>1, <1>2 DEF Holds, OutputOf

LEMMA RetryExecuteKeeps ==
  ASSUME StageInv, NEW b \in Versions("rbdry"), NEW ev \in Given("rbdry", b, RetryBounded(StageOf("rbdry", b))),
         RetryExecute(ev, StageOf("rbdry", b))
  PROVE  StageInv'
<1> USE DEF StageInv, StageHolds
<1>1. PICK n : n = At("rbdry", b).epoch
  OBVIOUS
<1>2. n \in 1 .. Total /\ Named(ev, RetryBounded(n))
  <2>1. ev \in Given("rbdry", b, RetryBounded(At("rbdry", b).epoch))
    BY DEF StageOf
  <2>2. At("rbdry", b).epoch \in 1 .. Total /\ Named(ev, RetryBounded(At("rbdry", b).epoch))
    BY <2>1, FilesRbdry
  <2> QED
    BY <1>1, <2>2
<1>3. RetryExecute(ev, n)
  BY <1>1 DEF StageOf
<1>4. RetryBoundaryFor(ev, n) = {} /\ extra' = extra /\ there' = there
      /\ reserved' = reserved \union {Key(ev, n)} /\ retried' = retried \union {Key(ev, n)}
  BY <1>3 DEF RetryExecute
<1>5. PICK job : /\ job = [kind |-> "rexec", n |-> n, files |-> ev,
                           try |-> Cardinality({j \in busy : j.files = ev})]
                 /\ Runs(job)
  BY <1>3 DEF RetryExecute
<1>6. At("rbdry", ev["rbdry"]).ok
  BY <1>4, Unblocked DEF RetryBoundaryFor
<1>7. JobFits(job)
  <2>1. RetryUpstream(ev, n) = {}
    BY <1>3 DEF RetryExecute
  <2>2. OnRetry(ev, n)
    BY <1>2, <1>4, <2>1, RunsOnRetry
  <2> QED
    BY <1>2, <1>5, <2>2, Gives DEF JobFits
<1>8. Key(ev, n) \in (1 .. Total) \X RetryFiles \X RetryTerms
  <2>1. "rbdry" \in RetryBounded(n)
    BY DEF RetryBounded
  <2>2. OutputOf(ev) \in RetryFiles /\ At("rbdry", ev["rbdry"]).terms \in RetryTerms
    BY <1>2, <1>6, <2>1, OutputIs
  <2> QED
    BY <1>2, <2>2 DEF Key
<1>9. Reserves'
  BY <1>4, <1>8 DEF Reserves
<1>10. /\ shelf' = shelf /\ lapsed' = lapsed /\ audit' = audit /\ torn' = torn /\ printed' = printed
       /\ starter' = starter /\ busy' = busy \union {job}
  BY <1>5 DEF Runs
<1>11. StageHolds'
  BY <1>7, <1>9, <1>10, RestKeeps
<1> QED
  BY <1>4, <1>11

LEMMA DiesKeeps ==
  ASSUME StageInv, UNCHANGED kept, NEW job \in busy, NEW epoch \in BOOLEAN, Dies(job, epoch)
  PROVE  StageInv'
<1> USE DEF StageInv, StageHolds
<1>1. extra' \in 0 .. MaxExtra
  BY ExtraAssumption DEF Dies
<1>2. Reserves'
  BY DEF Reserves, kept
<1>3. /\ shelf' = shelf /\ lapsed' = lapsed /\ audit' = audit /\ torn' = torn /\ printed' = printed
      /\ busy' \subseteq busy /\ (starter' = starter \/ starter = <<>>)
  BY DEF Dies, Effect
<1>4. StageHolds'
  BY <1>2, <1>3, RestKeeps
<1> QED
  BY <1>1, <1>4

LEMMA OutputLostKeeps ==
  ASSUME StageInv, UNCHANGED kept, OutputLost
  PROVE  StageInv'
<1> USE DEF StageInv, StageHolds
<1>1. extra' \in 0 .. MaxExtra
  BY ExtraAssumption DEF OutputLost
<1>2. Reserves'
  BY DEF Reserves, kept
<1>3. /\ shelf' = shelf /\ lapsed' = lapsed /\ audit' = audit /\ torn' = torn /\ printed' \subseteq printed
      /\ busy' = busy /\ starter' = starter
  BY DEF OutputLost
<1>4. StageHolds'
  BY <1>2, <1>3, RestKeeps
<1> QED
  BY <1>1, <1>4

LEMMA DoneInBound ==
  ASSUME extra \in 0 .. MaxExtra, NEW job, NEW exit, NEW epoch, NEW kind, NEW written,
         Done(job, exit, epoch, kind, written)
  PROVE  extra' \in 0 .. MaxExtra
<1>1. PICK b \in {0, 1} : extra' = extra + b /\ extra' <= MaxExtra
  BY DEF Done
<1> QED
  BY <1>1, MoreInBound

LEMMA StageDoneKeeps ==
  ASSUME StageInv, UNCHANGED kept, NEW job \in busy, NEW exit, NEW epoch \in BOOLEAN, StageDone(job, exit, epoch)
  PROVE  StageInv'
<1> USE DEF StageInv
<1>1. job.kind = "exec" /\ Done(job, exit, epoch, "exec", TRUE)
  BY DEF StageDone
<1>2. Reserves'
  BY DEF StageHolds, Reserves, kept
<1> QED
  BY <1>1, <1>2, DoneKeeps, DoneInBound

LEMMA RetryDoneKeeps ==
  ASSUME StageInv, NEW job \in busy, NEW exit, NEW epoch \in BOOLEAN, RetryDone(job, exit, epoch)
  PROVE  StageInv'
<1> USE DEF StageInv
<1>1. job.kind = "rexec" /\ Done(job, exit, epoch, "rexec", OutputOf(job.files) \notin there)
      /\ there' = there \union {OutputOf(job.files)}
      /\ reserved' = reserved /\ retried' = retried
  BY DEF RetryDone
<1>2. OutputOf(job.files) \in RetryFiles
  <2>1. JobFits(job)
    BY DEF StageHolds, Jobs
  <2>2. PICK ev, n : ev = job.files /\ n = job.n
    OBVIOUS
  <2>3. Named(ev, RetryBounded(n)) /\ OnRetry(ev, n)
    BY <1>1, <2>1, <2>2, Gives DEF JobFits
  <2>4. "rbdry" \in RetryBounded(n) /\ "rbdry" \in RetryKinds
    BY DEF RetryBounded, RetryKinds
  <2>5. At("rbdry", ev["rbdry"]).ok
    BY <2>3, <2>4 DEF OnRetry, Named
  <2> QED
    BY <2>2, <2>3, <2>4, <2>5, OutputIs DEF StageHolds
<1>3. Reserves'
  BY <1>1, <1>2 DEF StageHolds, Reserves
<1> QED
  BY <1>1, <1>3, DoneKeeps, DoneInBound

LEMMA RetryOutputRemovedKeeps ==
  ASSUME StageInv, NEW file, RetryOutputRemoved(file)
  PROVE  StageInv'
<1> USE DEF StageInv, StageHolds
<1>1. extra' \in 0 .. MaxExtra
  BY ExtraAssumption DEF RetryOutputRemoved
<1>2. Reserves'
  BY DEF Reserves, RetryOutputRemoved
<1>3. /\ shelf' = shelf /\ lapsed' = lapsed /\ audit' = audit /\ printed' \subseteq printed
      /\ busy' = busy /\ starter' = starter
  BY DEF RetryOutputRemoved
<1>4. StageHolds'
  BY <1>2, <1>3, RestKeeps
<1> QED
  BY <1>1, <1>4

LEMMA RetryNotStartedKeeps ==
  ASSUME StageInv, NEW job \in busy, RetryNotStarted(job)
  PROVE  StageInv'
<1> USE DEF StageInv, StageHolds
<1>1. extra' \in 0 .. MaxExtra
  BY ExtraAssumption DEF RetryNotStarted
<1>2. Reserves'
  <2>1. PICK x : reserved' = reserved \ {x} /\ retried' = retried \ {x} /\ there' = there
    BY DEF RetryNotStarted
  <2> QED
    BY <2>1 DEF Reserves
<1>3. /\ shelf' = shelf /\ lapsed' = lapsed /\ audit' = audit /\ torn' = torn /\ printed' = printed
      /\ busy' \subseteq busy /\ starter' = starter
  BY DEF RetryNotStarted
<1>4. StageHolds'
  BY <1>2, <1>3, RestKeeps
<1> QED
  BY <1>1, <1>4

LEMMA RetryKeepsInv ==
  ASSUME StageInv, RetryNext
  PROVE  StageInv'
<1>k. ASSUME StageNext, UNCHANGED kept PROVE StageInv'
  <2>1. ASSUME Prints("xready") \/ Prints("stapproval") \/ Prints("bdry") \/ Prints("close") \/ Prints("souto")
        PROVE  StageInv'
    BY <2>1, PrintKeeps DEF StageKinds
  <2>2. CASE \E kind \in {"stage", "bind"} : \E f \in Files(kind, "xready", Source) : StageReadiness(f.ev, f.n)
    BY <1>k, <2>1, <2>2, StageCommands
  <2>3. CASE \E f \in Files("xready", "stapproval", Source), sign \in Versions("sign"),
                m \in {0} \union Versions("sign") : (f.n = 1 <=> m = 0) /\ StageApproval(f.ev, f.n, sign, m)
    BY <1>k, <2>1, <2>3, StageCommands
  <2>4. CASE \E f \in Files("stapproval", "bdry", Readied) : InvocationBoundary(f.ev, f.n)
    BY <1>k, <2>1, <2>4, StageCommands
  <2>5. CASE \E b \in Versions("bdry") : \E ev \in Given("bdry", b, Approved(StageOf("bdry", b))) :
               StageExecute(ev, StageOf("bdry", b))
    BY <1>k, <2>5, ExecuteKeeps
  <2>6. CASE \E job \in busy, epoch \in BOOLEAN : Dies(job, epoch) \/ \E exit \in Exits : StageDone(job, exit, epoch)
    BY <1>k, <2>6, DiesKeeps, StageDoneKeeps
  <2>7. CASE OutputLost
    BY <1>k, <2>7, OutputLostKeeps
  <2>8. CASE \E f \in Files("exec", "close", Bounded), mistaken \in BOOLEAN : StageCloseout(f.ev, f.n, mistaken)
    BY <1>k, <2>1, <2>8, StageCommands
  <2>9. CASE \E f \in Files("close", "souto", Executed) : StageOutcome(f.ev, f.n)
    BY <1>k, <2>1, <2>9, StageCommands
  <2> QED
    BY <1>k, <2>2, <2>3, <2>4, <2>5, <2>6, <2>7, <2>8, <2>9 DEF StageNext
<1>0. ASSUME NEW k \in {"cont", "done", "retryplan", "bind", "rapproval", "rbdry", "rclose", "routcome"}, Prints(k)
      PROVE  StageInv'
  BY <1>0, PrintKeeps DEF StageKinds, RetryKinds
<1>1. CASE StageNext /\ UNCHANGED kept
  BY <1>k, <1>1
<1>2. CASE \E f \in Files("souto", "cont", Settled) :
             f.n < Total /\ Continuation(Only(f.ev, RetrySource(1)), f.n)
  BY <1>0, <1>2, ContinuationPrints
<1>3. CASE \E f \in Files("souto", "done", Settled) : Completion(f.ev, f.n)
  BY <1>0, <1>3, CompletionPrints
<1>4. CASE \E f \in Files("souto", "retryplan", Settled) : RetryPlan(f.ev, f.n)
  BY <1>0, <1>4, RetryPlanPrints
<1>5. CASE \E f \in Files("cont", "bind", RetrySource) : InputBinding(f.ev, f.n)
  BY <1>0, <1>5, InputBindingPrints
<1>6. CASE \E f \in Files("retryplan", "rapproval", RetrySource), sign \in Versions("sign") :
             RetryApproval(f.ev, f.n, sign)
  BY <1>0, <1>6, RetryApprovalPrints
<1>7. CASE \E f \in Files("rapproval", "rbdry", RetryBounded), file \in RetryFiles, terms \in RetryTerms :
             RetryBoundary(f.ev, f.n, file, terms)
  BY <1>0, <1>7, RetryBoundaryPrints
<1>8. CASE \E b \in Versions("rbdry") : \E ev \in Given("rbdry", b, RetryBounded(StageOf("rbdry", b))) :
             RetryExecute(ev, StageOf("rbdry", b))
  BY <1>8, RetryExecuteKeeps
<1>9. CASE \E job \in busy :
             \/ RetryNotStarted(job)
             \/ \E exit \in Exits, epoch \in BOOLEAN : RetryDone(job, exit, epoch)
  BY <1>9, RetryNotStartedKeeps, RetryDoneKeeps
<1>14. CASE \E file \in there : RetryOutputRemoved(file)
  BY <1>14, RetryOutputRemovedKeeps
<1>10. CASE \E f \in Files("rexec", "rclose", RetryBounded) : RetryCloseout(f.ev, f.n)
  BY <1>0, <1>10, RetryCloseoutPrints
<1>11. CASE \E f \in Files("rclose", "routcome", RetryExecuted) : RetryOutcome(f.ev, f.n)
  BY <1>0, <1>11, RetryOutcomePrints
<1>12. CASE \E f \in Files("routcome", "cont", RetryEnded) : f.n < Total /\ ContinuationFromRetry(f.ev, f.n)
  BY <1>0, <1>12, ContinuationFromRetryPrints
<1>13. CASE \E f \in Files("routcome", "done", RetryEnded) : CompletionFromRetry(f.ev, f.n)
  BY <1>0, <1>13, CompletionFromRetryPrints
<1> QED
  BY <1>1, <1>2, <1>3, <1>4, <1>5, <1>6, <1>7, <1>8, <1>9, <1>10, <1>11, <1>12, <1>13, <1>14 DEF RetryNext

------------------------------------------------------------------------------
(* ... and so do the runner's own commands, beside the stages               *)

LEMMA AgainReplies ==
  ASSUME StageInv, NEW k \in {"started", "stage"}, NEW codes, NEW accepted, NEW table, NEW other,
         Reply(k, codes, accepted, table, other), codes = {} => StageGood(k, accepted)
  PROVE  StageSays(k) /\ extra' \in 0 .. MaxExtra
<1>1. ASSUME NEW p, StageGood(k, p), Issue(k, p)
      PROVE  StageSays(k) /\ extra' \in 0 .. MaxExtra
  <2>2. shelf' = Place(k, p) /\ Counts(k)
    BY <1>1 DEF Issue
  <2> QED
    BY <1>1, <2>2, IssuesInBound DEF StageSays, StageInv
<1>2. CASE codes = {}
  BY <1>1, <1>2 DEF Reply
<1>3. CASE codes # {}
  <2>1. PICK r : r = Recommend(codes, "", table, other)
    OBVIOUS
  <2>2. PICK p : p = Blocked(r)
    OBVIOUS
  <2>3. Issue(k, p)
    BY <1>3, <2>1, <2>2 DEF Reply
  <2>4. p.ok \in BOOLEAN /\ ~p.ok /\ p.line = {} /\ DOMAIN p.has = {}
    BY <2>2 DEF Blocked
  <2>5. Refers(p) /\ StageLined(k, p)
    BY <2>4 DEF Refers, StageLined
  <2>6. Shaped(k, p) /\ Holds(k, p)
    BY <2>4 DEF Shaped, Holds
  <2>7. k \in Staged
    BY DEF Staged
  <2>8. StageFits(k, p, Of(p))
    BY <2>4, <2>6, <2>7 DEF StageFits
  <2> QED
    BY <1>1, <2>3, <2>4, <2>5, <2>6, <2>8 DEF StageGood
<1> QED
  BY <1>2, <1>3

LEMMA StartAgainSays ==
  ASSUME StageInv, NEW a \in Versions("sapproval"), NEW r \in Versions("ready"), NEW d \in Versions("dryrun"),
         NEW p \in Versions("rplan"), NEW x \in Versions("xapproval"), RunnerStart(a, r, d, p, x)
  PROVE  StageSays("started") /\ extra' \in 0 .. MaxExtra
<1> DEFINE has == [sapproval |-> a, ready |-> r, dryrun |-> d, rplan |-> p, xapproval |-> x]
           codes == StartApproved(a, r) \union ReadyUsable(r) \union StartReadyLinks(r, d, p, x)
                    \union ReadyPlan(p) \union StartExecutionApproved(x, p) \union StartDryRun(d, p, x)
                    \union When(torn, "controlled_runner_start_audit_append_failed")
<1>1. Reply("started", codes, Accepted("review_controlled_runner_start", has, 0, "started"), RunnerStartTable, "inspect_controlled_runner_start_blockers")
  BY DEF RunnerStart
<1>2. DOMAIN has = Five /\ \A j \in DOMAIN has : j \in AllKinds /\ has[j] \in Versions(j)
  BY DEF Five, AllKinds, RunnerKinds
<1> HIDE DEF has, codes
<1>3. PICK q : q = Accepted("review_controlled_runner_start", has, 0, "started")
  OBVIOUS
<1>4. q.ok = TRUE /\ q.has = has /\ q.line = Lineage(has)
  BY <1>3 DEF Accepted
<1>5. q.ok \in BOOLEAN /\ Refers(q) /\ StageLined("started", q) /\ Holds("started", q)
  BY <1>2, <1>4 DEF Refers, StageLined, Holds, Five
<1>6. StageFits("started", q, Of(q))
  BY <1>2, <1>4 DEF StageFits, StageLinks, Staged, StageKinds, RetryKinds
<1>7. StageGood("started", q)
  BY <1>5, <1>6 DEF StageGood
<1> QED
  BY <1>1, <1>3, <1>7, AgainReplies

LEMMA StageAgainSays ==
  ASSUME StageInv, NEW s \in Versions("started"), NEW p \in Versions("rplan"), NEW d \in Versions("dryrun"),
         NextStage(s, p, d)
  PROVE  StageSays("stage") /\ extra' \in 0 .. MaxExtra
<1> DEFINE has == [started |-> s, rplan |-> p, dryrun |-> d]
           codes == NextStageChain(s, p, d)
<1>1. Reply("stage", codes, Accepted("review_controlled_runner_next_stage", has, 1, "selected"), NextStageTable, "inspect_controlled_runner_next_stage_blockers")
  BY DEF NextStage, Says
<1>2. DOMAIN has = Base /\ \A j \in DOMAIN has : j \in AllKinds /\ has[j] \in Versions(j)
  BY DEF Base, AllKinds, RunnerKinds
<1> HIDE DEF has, codes
<1>3. PICK q : q = Accepted("review_controlled_runner_next_stage", has, 1, "selected")
  OBVIOUS
<1>4. q.ok = TRUE /\ q.has = has /\ q.epoch = 1 /\ q.line = Lineage(has)
  BY <1>3 DEF Accepted
<1>5. q.ok \in BOOLEAN /\ Refers(q) /\ StageLined("stage", q) /\ Holds("stage", q)
  BY <1>2, <1>4 DEF Refers, StageLined, Holds, Five
<1>6. Shaped("stage", q)
  BY <1>2, <1>4, TotalAssumption DEF Shaped, StageGives, Stages
<1>7. StageFits("stage", q, Of(q))
  BY <1>6 DEF StageFits, StageLinks, Staged
<1>8. StageGood("stage", q)
  BY <1>5, <1>7 DEF StageGood
<1> QED
  BY <1>1, <1>3, <1>8, AgainReplies

LEMMA AgainKeeps ==
  ASSUME StageInv, Again, UNCHANGED stagesOnly
  PROVE  StageInv'
<1>k. {"started", "stage"} \subseteq AllKinds \ Five
  BY DEF AllKinds, RunnerKinds, Five
<1>u. UNCHANGED <<busy, printed, starter, reserved, retried, there>>
  BY DEF stagesOnly, kept
<1>1. ASSUME NEW a \in Versions("sapproval"), NEW r \in Versions("ready"), NEW d \in Versions("dryrun"),
             NEW p \in Versions("rplan"), NEW x \in Versions("xapproval"), RunnerStart(a, r, d, p, x)
      PROVE  StageInv'
  <2>1. StageSays("started") /\ extra' \in 0 .. MaxExtra
    BY <1>1, StartAgainSays
  <2>2. UNCHANGED <<lapsed, torn>> /\ (audit' = audit \/ audit' = audit \union {<<"started", Len(shelf["started"]) + 1>>})
    BY <1>1 DEF RunnerStart, Started
  <2>3. StageHolds'
    BY <1>k, <1>u, <2>1, <2>2, QuietKeeps DEF StageInv
  <2> QED
    BY <2>1, <2>3 DEF StageInv
<1>2. ASSUME NEW s \in Versions("started"), NEW p \in Versions("rplan"), NEW d \in Versions("dryrun"),
             NextStage(s, p, d)
      PROVE  StageInv'
  <2>1. StageSays("stage") /\ extra' \in 0 .. MaxExtra
    BY <1>2, StageAgainSays
  <2>2. UNCHANGED <<lapsed, audit, torn>>
    BY <1>2 DEF NextStage, Says
  <2>3. StageHolds'
    BY <1>k, <1>u, <2>1, <2>2, QuietKeeps DEF StageInv
  <2> QED
    BY <2>1, <2>3 DEF StageInv
<1> QED
  BY <1>1, <1>2 DEF Again

LEMMA SignsKeep ==
  ASSUME StageInv, NEW kind \in {"xready", "retryplan", "exec"}, NEW n \in Versions(kind), Sign(kind, n),
         UNCHANGED stagesOnly
  PROVE  StageInv'
<1>1. extra' \in 0 .. MaxExtra
  BY SignInBound DEF StageInv
<1>2. PICK p : p = Accepted("", Signs1(kind, n), 0, "signed") /\ shelf' = Place("sign", p)
  BY DEF Sign, Signs1
<1>3. p.ok = TRUE /\ p.has = Signs1(kind, n) /\ p.line = Lineage(p.has)
  BY <1>2 DEF Accepted
<1>4. kind \in AllKinds \ {"sign"} /\ "sign" \in AllKinds \ Five /\ "sign" \in Staged
  BY DEF AllKinds, StageKinds, RetryKinds, RunnerKinds, Five, Staged
<1>5. DOMAIN p.has = {kind} /\ p.has = Signs1(kind, p.has[kind]) /\ p.has[kind] = n
  BY <1>3 DEF Signs1
<1>6. p.ok \in BOOLEAN /\ Refers(p) /\ StageLined("sign", p) /\ Holds("sign", p)
  BY <1>3, <1>4, <1>5 DEF Refers, StageLined, Holds, Five
<1>7. StageFits("sign", p, Of(p))
  BY <1>4, <1>5 DEF StageFits, StageLinks, StageKinds, RetryKinds
<1>8. StageSays("sign")
  BY <1>2, <1>6, <1>7 DEF StageSays, StageGood
<1>9. UNCHANGED <<lapsed, audit, torn, busy, printed, starter, reserved, retried, there>>
  BY DEF Sign, stagesOnly, kept
<1>10. StageHolds'
  BY <1>4, <1>8, <1>9, QuietKeeps DEF StageInv
<1> QED
  BY <1>1, <1>10 DEF StageInv

LEMMA TroublesKeep ==
  ASSUME StageInv, Lapse \/ TearLog, UNCHANGED stagesOnly
  PROVE  StageInv'
<1> USE DEF StageInv
<1>1. extra' \in 0 .. MaxExtra
  BY ExtraAssumption DEF Lapse, TearLog
<1>2. shelf' = shelf /\ lapsed' \subseteq lapsed \union Versions("sign") /\ audit' = audit
  BY DEF Lapse, TearLog
<1>3. UNCHANGED <<busy, printed, starter, reserved, retried, there>>
  BY DEF stagesOnly, kept
<1>4. Reserves'
  BY <1>3 DEF StageHolds, Reserves
<1>5. StageHolds'
  BY <1>2, <1>3, <1>4, RestKeeps
<1> QED
  BY <1>1, <1>5

LEMMA BesideKeeps ==
  ASSUME StageInv, Again \/ Signs \/ Lapse \/ TearLog, UNCHANGED stagesOnly
  PROVE  StageInv'
<1>1. CASE Again
  BY <1>1, AgainKeeps
<1>2. CASE Signs
  BY <1>2, SignsKeep DEF Signs
<1>3. CASE Lapse \/ TearLog
  BY <1>3, TroublesKeep
<1> QED
  BY <1>1, <1>2, <1>3

------------------------------------------------------------------------------
(* What each part leaves alone                                              *)

\* The first part prints packets of a run only.
LEMMA RunFrame ==
  ASSUME DOMAIN shelf = AllKinds, [RunNext]_cvars
  PROVE  DOMAIN shelf' = AllKinds /\ \A k \in AllKinds \ Kinds : shelf'[k] = shelf[k]
<1>p. ASSUME NEW k \in Kinds, NEW p, shelf' = Place(k, p)
      PROVE  DOMAIN shelf' = AllKinds /\ \A j \in AllKinds \ Kinds : shelf'[j] = shelf[j]
  BY <1>p DEF Place
<1>r. {"real", "result", "closeout", "gitplan"} \subseteq Kinds
  BY DEF Kinds
<1>1. CASE \/ \E p \in Versions("run_plan") : StartRun(p)
           \/ \E s \in Versions("start") : GetReady(s)
           \/ \E r \in Versions("readiness") : Plan(r)
           \/ Snapshot \/ GitPlan \/ RunPlan
  <2>1. PICK k \in Kinds : \E p : Issue(k, p)
    BY <1>1 DEF StartRun, GetReady, Plan, Snapshot, GitPlan, RunPlan, Kinds
  <2> QED
    BY <2>1, <1>p DEF Issue
<1>2. CASE \/ \E n \in Versions("plan") : Run(n)
           \/ \E i \in Versions("real") : Rewrite(i)
  BY <1>2, <1>r DEF Run, Rewrite
<1>3. CASE \E i \in Versions("real"), w \in Versions("snapshot"), status \in Statuses, emit \in BOOLEAN :
             Close(i, w, status, emit)
  <2>1. PICK i, status, emit, w : Close(i, w, status, emit)
    BY <1>3
  <2>2. PICK made, q, v, git : shelf' = [shelf EXCEPT
          !["closeout"] = Append(@, made), !["real"][i].status = status, !["real"][i].bound = v,
          !["gitplan"] = IF git = {} THEN @ ELSE Append(@, q)]
    BY <2>1 DEF Close
  <2> QED
    BY <1>r, <2>2
<1>4. CASE FailEpoch \/ Tear \/ UNCHANGED cvars
  BY <1>4 DEF FailEpoch, Tear, cvars
<1>5. CASE Controlled /\ ~RunPlan
  <2>1. PICK k \in Kinds : \E codes, accepted, table, other : Answer(k, codes, accepted, table, other)
    BY <1>5 DEF Controlled, ControlledStart, ControlledPlan, ControlledReal, ControlledCloseout,
                ControlledTick, RunSummary, OutcomePlan, Kinds
  <2>2. PICK p : Issue(k, p)
    BY <2>1 DEF Answer, Reply
  <2> QED
    BY <2>2, <1>p DEF Issue
<1> QED
  BY <1>1, <1>2, <1>3, <1>4, <1>5 DEF RunNext, Real

\* The runner is started by its start command only ...
Unstarted == shelf'["started"] = shelf["started"]

LEMMA PlacedElsewhere ==
  ASSUME Stocked, NEW k \in AllKinds \ {"started"}, NEW p, shelf' = Place(k, p)
  PROVE  Unstarted
<1>1. "started" \in AllKinds
  BY DEF AllKinds, RunnerKinds
<1> QED
  BY <1>1 DEF Unstarted, Place, Stocked

LEMMA RunnerFrame ==
  ASSUME Stocked, RunnerNext
  PROVE  \/ Unstarted
         \/ \E a \in Versions("sapproval"), r \in Versions("ready"), d \in Versions("dryrun"),
               p \in Versions("rplan"), x \in Versions("xapproval") : RunnerStart(a, r, d, p, x)
<1> DEFINE Elsewhere == \E k \in RunnerKinds \ {"started"} : \E p : shelf' = Place(k, p)
<1>0. ASSUME Elsewhere PROVE Unstarted
  BY <1>0, PlacedElsewhere DEF AllKinds
<1>1. CASE Finish
  BY <1>0, <1>1 DEF Finish, RunClosed, RunTicked, RunSummed, RunPlanned, Issue, RunnerKinds
<1>2. CASE Lapse \/ TearLog
  BY <1>2 DEF Lapse, TearLog, Unstarted
<1>3. CASE \E kind \in {"manifest", "rplan", "ready"} : \E n \in Versions(kind) : Sign(kind, n)
  BY <1>0, <1>3 DEF Sign, RunnerKinds
<1>s. ASSUME NEW k \in RunnerKinds \ {"started"}, NEW codes, NEW accepted, NEW table, NEW other,
             Says(k, codes, accepted, table, other)
      PROVE  Unstarted
  <2>1. PICK p : shelf' = Place(k, p)
    BY <1>s DEF Says, Reply, Issue
  <2> QED
    BY <1>0, <2>1
<1>4. CASE \/ \E s \in Versions("summary"), c \in Versions("cclose"), t \in Versions("tick"),
                 o \in Versions("outcome") : ManifestPlan(s, c, t, o)
           \/ \E m \in Versions("manifest"), n \in Versions("sign") : ManifestApproval(m, n)
           \/ \E m \in Versions("manifest"), a \in Versions("mapproval") : RunnerPlan(m, a)
           \/ \E p \in Versions("rplan"), n \in Versions("sign") : ExecutionApproval(p, n)
           \/ \E p \in Versions("rplan"), x \in Versions("xapproval") : DryRun(p, x)
           \/ \E d \in Versions("dryrun"), p \in Versions("rplan"), x \in Versions("xapproval") :
                StartReadiness(d, p, x)
           \/ \E r \in Versions("ready"), n \in Versions("sign") : StartApproval(r, n)
           \/ \E s \in Versions("started"), p \in Versions("rplan"), d \in Versions("dryrun") : NextStage(s, p, d)
  <2>1. PICK k \in RunnerKinds \ {"started"} : \E codes, accepted, table, other : Says(k, codes, accepted, table, other)
    BY <1>4 DEF ManifestPlan, ManifestApproval, RunnerPlan, ExecutionApproval, DryRun, StartReadiness,
                StartApproval, NextStage, RunnerKinds
  <2> QED
    BY <1>s, <2>1
<1> QED
  BY <1>1, <1>2, <1>3, <1>4 DEF RunnerNext

\* ... and processes are run by the two commands that execute.
Idle == Unstarted /\ busy' \subseteq busy

\* A process is run for the files of a stage, or of its retry.
Executes(ev, n) ==
  /\ n \in 1 .. Total
  /\ \/ Named(ev, Bounded(n)) /\ StageExecute(ev, n)
     \/ Named(ev, RetryBounded(n)) /\ RetryExecute(ev, n)

LEMMA StageFrame ==
  ASSUME StageInv, RetryNext
  PROVE  \/ Idle
         \/ Unstarted /\ \E ev, n : Executes(ev, n)
<1>s. Stocked /\ StageShelf
  BY DEF StageInv, StageHolds
<1> DEFINE Staging == StageKinds \union RetryKinds
<1>k. Staging \subseteq AllKinds \ {"started"}
  BY DEF AllKinds, StageKinds, RetryKinds
<1>i. ASSUME NEW k \in Staging, NEW n, NEW p, StageIssue(k, n, p), busy' = busy PROVE Idle
  BY <1>s, <1>k, <1>i, PlacedElsewhere DEF StageIssue, Idle
<1>r. ASSUME NEW k \in Staging, NEW n, NEW codes, NEW accepted, NEW table, NEW other,
             StageReply(k, n, codes, accepted, table, other)
      PROVE  Idle
  <2>1. PICK p : StageIssue(k, n, p)
    BY <1>r DEF StageReply
  <2> QED
    BY <1>r, <1>i, <2>1 DEF StageReply
<1>d. ASSUME NEW job, NEW exit, NEW epoch, NEW kind \in {"exec", "rexec"}, NEW written,
             Done(job, exit, epoch, kind, written)
      PROVE  Idle
  <2>1. PICK p : shelf' = Place(kind, p)
    BY <1>d DEF Done
  <2> QED
    BY <1>s, <1>d, <1>k, <2>1, PlacedElsewhere DEF Done, Idle, StageKinds, RetryKinds
<1>1. CASE \/ \E kind \in {"stage", "bind"} : \E f \in Files(kind, "xready", Source) : StageReadiness(f.ev, f.n)
           \/ \E f \in Files("xready", "stapproval", Source), sign \in Versions("sign"),
                 m \in {0} \union Versions("sign") : (f.n = 1 <=> m = 0) /\ StageApproval(f.ev, f.n, sign, m)
           \/ \E f \in Files("stapproval", "bdry", Readied) : InvocationBoundary(f.ev, f.n)
           \/ \E f \in Files("close", "souto", Executed) : StageOutcome(f.ev, f.n)
  <2>1. PICK k \in Staging : \E n, codes, accepted, table, other : StageReply(k, n, codes, accepted, table, other)
    <3>1. {"xready", "stapproval", "bdry", "souto"} \subseteq Staging
      BY DEF StageKinds
    <3> QED
      BY <1>1, <3>1 DEF StageReadiness, StageApproval, InvocationBoundary, StageOutcome
  <2> QED
    BY <1>r, <2>1
<1>2. CASE \E f \in Files("exec", "close", Bounded), mistaken \in BOOLEAN : StageCloseout(f.ev, f.n, mistaken)
  <2>1. PICK n, p : StageIssue("close", n, p) /\ busy' = busy
    BY <1>2 DEF StageCloseout
  <2>2. "close" \in Staging
    BY DEF StageKinds
  <2> QED
    BY <1>i, <2>1, <2>2
<1>3. CASE \E b \in Versions("bdry") : \E ev \in Given("bdry", b, Approved(StageOf("bdry", b))) :
             StageExecute(ev, StageOf("bdry", b))
  <2>1. PICK b \in Versions("bdry") : \E ev \in Given("bdry", b, Approved(StageOf("bdry", b))) :
          StageExecute(ev, StageOf("bdry", b))
    BY <1>3
  <2>2. PICK n : n = At("bdry", b).epoch
    OBVIOUS
  <2>3. PICK ev \in Given("bdry", b, Approved(At("bdry", b).epoch)) : StageExecute(ev, At("bdry", b).epoch)
    BY <2>1 DEF StageOf
  <2>4. At("bdry", b).epoch \in 1 .. Total /\ Named(ev, Bounded(At("bdry", b).epoch))
    BY <1>s, <2>3, FilesBdry
  <2>5. Executes(ev, n)
    BY <2>2, <2>3, <2>4 DEF Executes
  <2>6. Unstarted
    BY <2>3 DEF StageExecute, Runs, Unstarted
  <2> QED
    BY <2>5, <2>6
<1>4. CASE \E job \in busy, epoch \in BOOLEAN : Dies(job, epoch) \/ \E exit \in Exits : StageDone(job, exit, epoch)
  BY <1>4, <1>d DEF Dies, StageDone, Idle, Unstarted
<1>5. CASE OutputLost
  BY <1>5 DEF OutputLost, Idle, Unstarted
<1>6. CASE \/ \E f \in Files("souto", "cont", Settled) :
                f.n < Total /\ Continuation(Only(f.ev, RetrySource(1)), f.n)
           \/ \E f \in Files("souto", "done", Settled) : Completion(f.ev, f.n)
           \/ \E f \in Files("souto", "retryplan", Settled) : RetryPlan(f.ev, f.n)
           \/ \E f \in Files("cont", "bind", RetrySource) : InputBinding(f.ev, f.n)
           \/ \E f \in Files("retryplan", "rapproval", RetrySource), sign \in Versions("sign") :
                RetryApproval(f.ev, f.n, sign)
           \/ \E f \in Files("rapproval", "rbdry", RetryBounded), file \in RetryFiles, terms \in RetryTerms :
                RetryBoundary(f.ev, f.n, file, terms)
           \/ \E f \in Files("rexec", "rclose", RetryBounded) : RetryCloseout(f.ev, f.n)
           \/ \E f \in Files("rclose", "routcome", RetryExecuted) : RetryOutcome(f.ev, f.n)
           \/ \E f \in Files("routcome", "cont", RetryEnded) : f.n < Total /\ ContinuationFromRetry(f.ev, f.n)
           \/ \E f \in Files("routcome", "done", RetryEnded) : CompletionFromRetry(f.ev, f.n)
  <2>1. PICK k \in Staging : \E n, codes, accepted, table, other : StageReply(k, n, codes, accepted, table, other)
    <3>1. {"cont", "done", "retryplan", "bind", "rapproval", "rbdry", "rclose", "routcome"} \subseteq Staging
      BY DEF StageKinds, RetryKinds
    <3> QED
      BY <1>6, <3>1 DEF Continuation, Completion, RetryPlan, InputBinding, RetryApproval, RetryBoundary,
                        RetryCloseout, RetryOutcome, ContinuationFromRetry, CompletionFromRetry, RetryReply
  <2> QED
    BY <1>r, <2>1
<1>7. CASE \E b \in Versions("rbdry") : \E ev \in Given("rbdry", b, RetryBounded(StageOf("rbdry", b))) :
             RetryExecute(ev, StageOf("rbdry", b))
  <2>1. PICK b \in Versions("rbdry") : \E ev \in Given("rbdry", b, RetryBounded(StageOf("rbdry", b))) :
          RetryExecute(ev, StageOf("rbdry", b))
    BY <1>7
  <2>2. PICK n : n = At("rbdry", b).epoch
    OBVIOUS
  <2>3. PICK ev \in Given("rbdry", b, RetryBounded(At("rbdry", b).epoch)) : RetryExecute(ev, At("rbdry", b).epoch)
    BY <2>1 DEF StageOf
  <2>4. At("rbdry", b).epoch \in 1 .. Total /\ Named(ev, RetryBounded(At("rbdry", b).epoch))
    BY <1>s, <2>3, FilesRbdry
  <2>5. Executes(ev, n)
    BY <2>2, <2>3, <2>4 DEF Executes
  <2>6. Unstarted
    BY <2>3 DEF RetryExecute, Runs, Unstarted
  <2> QED
    BY <2>5, <2>6
<1>8. CASE \E job \in busy :
             \/ RetryNotStarted(job)
             \/ \E exit \in Exits, epoch \in BOOLEAN : RetryDone(job, exit, epoch)
  BY <1>8, <1>d DEF RetryNotStarted, RetryDone, Idle, Unstarted
<1>9. CASE \E file \in there : RetryOutputRemoved(file)
  BY <1>9 DEF RetryOutputRemoved, Idle, Unstarted
<1> QED
  BY <1>1, <1>2, <1>3, <1>4, <1>5, <1>6, <1>7, <1>8, <1>9 DEF RetryNext, StageNext

LEMMA BesideFrame ==
  ASSUME Stocked, Again \/ Signs \/ Lapse \/ TearLog, UNCHANGED stagesOnly
  PROVE  /\ busy' = busy
         /\ \/ Unstarted
            \/ \E a \in Versions("sapproval"), r \in Versions("ready"), d \in Versions("dryrun"),
                  p \in Versions("rplan"), x \in Versions("xapproval") : RunnerStart(a, r, d, p, x)
<1>0. busy' = busy
  BY DEF stagesOnly
<1>k. {"stage", "sign"} \subseteq AllKinds \ {"started"}
  BY DEF AllKinds, RunnerKinds
<1>1. ASSUME NEW s, NEW p, NEW d, NextStage(s, p, d) PROVE Unstarted
  <2>1. PICK q : shelf' = Place("stage", q)
    BY <1>1 DEF NextStage, Says, Reply, Issue
  <2> QED
    BY <1>k, <2>1, PlacedElsewhere
<1>2. ASSUME NEW kind, NEW n, Sign(kind, n) PROVE Unstarted
  <2>1. PICK q : shelf' = Place("sign", q)
    BY <1>2 DEF Sign
  <2> QED
    BY <1>k, <2>1, PlacedElsewhere
<1>3. CASE Lapse \/ TearLog
  BY <1>0, <1>3 DEF Lapse, TearLog, Unstarted
<1> QED
  BY <1>0, <1>1, <1>2, <1>3 DEF Again, Signs

------------------------------------------------------------------------------
(* The three parts together                                                 *)

NoStages == busy = {} /\ printed = {} /\ reserved = {} /\ retried = {} /\ there = {}
NoRunner == lapsed = {} /\ audit = {} /\ NoStages
RunDone == active = 0 /\ ends = <<"completed">>

LoopInv ==
  /\ part \in {"run", "runner", "stages"}
  /\ part = "run" => RunInv /\ DOMAIN shelf = AllKinds /\ (\A k \in AllKinds \ Kinds : shelf[k] = <<>>) /\ NoRunner
  /\ part = "runner" => RunnerInv /\ RunDone /\ NoStages
  /\ part = "stages" => StageInv /\ RunDone

\* A shelf as it is found: nothing on it, or what a started runner has printed.
LEMMA ShelfFound ==
  ASSUME NEW packets
  PROVE  DOMAIN Shelf(packets) = AllKinds
         /\ \A k \in AllKinds : Shelf(packets)[k] = IF k \in DOMAIN packets THEN packets[k] ELSE <<>>
BY DEF Shelf, AllKinds

LEMMA BlankList == IsList(<<>>) /\ DOMAIN <<>> = {}
BY DEF IsList

LEMMA OneFirst ==
  ASSUME NEW s, NEW p, s = <<p>>
  PROVE  IsList(s) /\ DOMAIN s = {1} /\ s[1] = p
BY DEF IsList

LEMMA TwoFirst ==
  ASSUME NEW s, NEW p, NEW q, s = <<p, q>>
  PROVE  IsList(s) /\ DOMAIN s = {1, 2} /\ s[1] = p /\ s[2] = q
BY DEF IsList

\* What each packet of a runner that has just been started names.
FirstHas(k, v) ==
  CASE k = "rplan" -> {}
    [] k = "xapproval" -> {"rplan", "sign"}
    [] k = "dryrun" -> {"rplan", "xapproval"}
    [] k = "ready" -> {"dryrun", "rplan", "xapproval"}
    [] k = "sapproval" -> {"ready", "sign"}
    [] k = "started" -> Five
    [] k = "sign" -> IF v = 1 THEN {"rplan"} ELSE {"ready"}

LEMMA StartedShelf ==
  ASSUME shelf = Shelf(Started1)
  PROVE  /\ Stocked
         /\ \A k \in Five \union {"started"} : Versions(k) = {1}
         /\ Versions("sign") = {1, 2}
         /\ \A k \in (AllKinds \ Five) \ {"started", "sign"} : Versions(k) = {}
         /\ \A k \in AllKinds : \A v \in Versions(k) :
              LET p == At(k, v) IN
              /\ p.ok = TRUE /\ p.line = Firsts /\ k \in Five \union {"started", "sign"}
              /\ DOMAIN p.has = FirstHas(k, v)
              /\ \A j \in DOMAIN p.has : p.has[j] \in (IF j = "sign" THEN {1, 2} ELSE {1})
              /\ k = "sign" => p.has \in {Signs1("rplan", 1), Signs1("ready", 1)}
<1> DEFINE Firstly == Five \union {"started"}
<1>f. Firstly = {"rplan", "xapproval", "dryrun", "ready", "sapproval", "started"} /\ "sign" \notin Firstly
  BY DEF Five
<1>k. Firstly \union {"sign"} \subseteq AllKinds /\ DOMAIN Started1 = Firstly \union {"sign"}
  BY DEF AllKinds, RunnerKinds, Five, Started1
<1>s. /\ DOMAIN shelf = AllKinds
      /\ \A k \in Firstly \union {"sign"} : shelf[k] = Started1[k]
      /\ \A k \in (AllKinds \ Firstly) \ {"sign"} : shelf[k] = <<>>
  BY <1>k, ShelfFound
<1>1. ASSUME NEW k \in Firstly
      PROVE  \E p : /\ Started1[k] = <<p>> /\ p.ok = TRUE /\ p.line = Firsts
                    /\ DOMAIN p.has = FirstHas(k, 1)
                    /\ \A j \in DOMAIN p.has : p.has[j] \in (IF j = "sign" THEN {1, 2} ELSE {1})
  <2> DEFINE Right(p, K) == /\ p.ok = TRUE /\ p.line = Firsts /\ DOMAIN p.has = K
                            /\ \A j \in DOMAIN p.has : p.has[j] \in (IF j = "sign" THEN {1, 2} ELSE {1})
  <2>0. ASSUME NEW next, NEW has, NEW K, DOMAIN has = K,
               \A j \in DOMAIN has : has[j] \in (IF j = "sign" THEN {1, 2} ELSE {1})
        PROVE  Right(First(next, has), K)
    <3>1. PICK p : p = First(next, has)
      OBVIOUS
    <3>2. p.ok = TRUE /\ p.line = Firsts /\ p.has = has
      BY <3>1 DEF First, Firsts, Five
    <3>3. Right(p, K)
      BY <2>0, <3>2
    <3> QED
      BY <3>1, <3>3
  <2> HIDE DEF Right
  <2>1. ASSUME k = "rplan" PROVE \E p : Started1[k] = <<p>> /\ Right(p, FirstHas(k, 1))
    <3>0. PICK has : has = <<>> /\ DOMAIN has = {}
      OBVIOUS
    <3>1. Started1["rplan"] = << First("review_controlled_runner_plan", has) >>
      BY <3>0 DEF Started1
    <3>2. Right(First("review_controlled_runner_plan", has), {})
      BY <3>0, <2>0
    <3> QED
      BY <2>1, <3>1, <3>2 DEF FirstHas
  <2>2. ASSUME k = "xapproval" PROVE \E p : Started1[k] = <<p>> /\ Right(p, FirstHas(k, 1))
    <3> DEFINE has == [rplan |-> 1, sign |-> 1]
    <3>1. Started1["xapproval"] = << First("review_controlled_runner_execution_approval", has) >>
      BY DEF Started1
    <3>2. Right(First("review_controlled_runner_execution_approval", has), {"rplan", "sign"})
      BY <2>0
    <3> QED
      BY <2>2, <3>1, <3>2 DEF FirstHas
  <2>3. ASSUME k = "dryrun" PROVE \E p : Started1[k] = <<p>> /\ Right(p, FirstHas(k, 1))
    <3> DEFINE has == [rplan |-> 1, xapproval |-> 1]
    <3>1. Started1["dryrun"] = << First("review_controlled_runner_dry_run", has) >>
      BY DEF Started1
    <3>2. Right(First("review_controlled_runner_dry_run", has), {"rplan", "xapproval"})
      BY <2>0
    <3> QED
      BY <2>3, <3>1, <3>2 DEF FirstHas
  <2>4. ASSUME k = "ready" PROVE \E p : Started1[k] = <<p>> /\ Right(p, FirstHas(k, 1))
    <3> DEFINE has == [dryrun |-> 1, rplan |-> 1, xapproval |-> 1]
    <3>1. Started1["ready"] = << First("review_controlled_runner_start_readiness", has) >>
      BY DEF Started1
    <3>2. Right(First("review_controlled_runner_start_readiness", has), {"dryrun", "rplan", "xapproval"})
      BY <2>0
    <3> QED
      BY <2>4, <3>1, <3>2 DEF FirstHas
  <2>5. ASSUME k = "sapproval" PROVE \E p : Started1[k] = <<p>> /\ Right(p, FirstHas(k, 1))
    <3> DEFINE has == [ready |-> 1, sign |-> 2]
    <3>1. Started1["sapproval"] = << First("review_controlled_runner_start_approval", has) >>
      BY DEF Started1
    <3>2. Right(First("review_controlled_runner_start_approval", has), {"ready", "sign"})
      BY <2>0
    <3> QED
      BY <2>5, <3>1, <3>2 DEF FirstHas
  <2>6. ASSUME k = "started" PROVE \E p : Started1[k] = <<p>> /\ Right(p, FirstHas(k, 1))
    <3> DEFINE has == [sapproval |-> 1, ready |-> 1, dryrun |-> 1, rplan |-> 1, xapproval |-> 1]
    <3>1. Started1["started"] = << First("review_controlled_runner_start", has) >>
      BY DEF Started1
    <3>2. Right(First("review_controlled_runner_start", has), Five)
      BY <2>0 DEF Five
    <3> QED
      BY <2>6, <3>1, <3>2 DEF FirstHas
  <2> QED
    BY <1>f, <2>1, <2>2, <2>3, <2>4, <2>5, <2>6 DEF Right
<1>2. PICK y, z : /\ Started1["sign"] = <<y, z>>
                  /\ y.ok = TRUE /\ y.line = Firsts /\ DOMAIN y.has = {"rplan"} /\ y.has = Signs1("rplan", 1)
                  /\ z.ok = TRUE /\ z.line = Firsts /\ DOMAIN z.has = {"ready"} /\ z.has = Signs1("ready", 1)
  <2> DEFINE has1 == [rplan |-> 1]  has2 == [ready |-> 1]
  <2>1. Started1["sign"] = << First("", has1), First("", has2) >>
    BY DEF Started1
  <2>2. DOMAIN has1 = {"rplan"} /\ has1 = Signs1("rplan", 1) /\ DOMAIN has2 = {"ready"} /\ has2 = Signs1("ready", 1)
    BY DEF Signs1
  <2> HIDE DEF has1, has2
  <2>3. PICK p, q : p = First("", has1) /\ q = First("", has2)
    OBVIOUS
  <2>4. p.ok = TRUE /\ p.line = Firsts /\ p.has = has1
    BY <2>3 DEF First, Firsts, Five
  <2>5. q.ok = TRUE /\ q.line = Firsts /\ q.has = has2
    BY <2>3 DEF First, Firsts, Five
  <2> QED
    BY <2>1, <2>2, <2>3, <2>4, <2>5
<1>3. /\ \A k \in Firstly : IsList(shelf[k]) /\ Versions(k) = {1}
      /\ IsList(shelf["sign"]) /\ Versions("sign") = {1, 2}
      /\ \A k \in (AllKinds \ Firstly) \ {"sign"} : IsList(shelf[k]) /\ Versions(k) = {}
  <2>1. ASSUME NEW k \in Firstly PROVE IsList(shelf[k]) /\ Versions(k) = {1}
    <3>0. shelf[k] = Started1[k]
      BY <1>s
    <3>1. PICK p : shelf[k] = <<p>>
      BY <3>0, <1>1
    <3> QED
      BY <3>1, OneFirst DEF Versions
  <2>2. IsList(shelf["sign"]) /\ Versions("sign") = {1, 2}
    <3>1. shelf["sign"] = <<y, z>>
      BY <1>s, <1>2
    <3> QED
      BY <3>1, TwoFirst DEF Versions
  <2>3. \A k \in (AllKinds \ Firstly) \ {"sign"} : IsList(shelf[k]) /\ Versions(k) = {}
    BY <1>s, BlankList DEF Versions
  <2> QED
    BY <2>1, <2>2, <2>3
<1>4. Stocked
  BY <1>s, <1>3 DEF Stocked
<1>5. ASSUME NEW k \in AllKinds, NEW v \in Versions(k), NEW r, r = At(k, v)
      PROVE  /\ r.ok = TRUE /\ r.line = Firsts /\ k \in Firstly \union {"sign"}
             /\ DOMAIN r.has = FirstHas(k, v)
             /\ \A j \in DOMAIN r.has : r.has[j] \in (IF j = "sign" THEN {1, 2} ELSE {1})
             /\ k = "sign" => r.has \in {Signs1("rplan", 1), Signs1("ready", 1)}
  <2>1. k \in Firstly \union {"sign"}
    BY <1>3, <1>5
  <2>2. CASE k \in Firstly
    <3>1. v = 1
      BY <1>3, <2>2
    <3>2. shelf[k] = Started1[k]
      BY <1>s, <2>2
    <3>3. PICK o : /\ shelf[k] = <<o>> /\ o.ok = TRUE /\ o.line = Firsts /\ DOMAIN o.has = FirstHas(k, v)
                   /\ \A j \in DOMAIN o.has : o.has[j] \in (IF j = "sign" THEN {1, 2} ELSE {1})
      BY <1>1, <2>2, <3>1, <3>2
    <3>4. r = o
      BY <1>5, <3>1, <3>3, OneFirst DEF At
    <3>5. k # "sign"
      BY <1>f, <2>2
    <3> QED
      BY <2>1, <3>3, <3>4, <3>5
  <2>3. CASE k = "sign"
    <3>1. shelf[k] = <<y, z>>
      BY <1>s, <1>2, <2>3
    <3>2. (v = 1 /\ r = y) \/ (v = 2 /\ r = z)
      BY <1>3, <1>5, <2>3, <3>1, TwoFirst DEF At
    <3>3. DOMAIN r.has = FirstHas(k, v) /\ \A j \in DOMAIN r.has : r.has[j] = 1 /\ j # "sign"
      BY <1>2, <2>3, <3>2 DEF FirstHas, Signs1
    <3> QED
      BY <1>2, <2>1, <2>3, <3>2, <3>3
  <2> QED
    BY <2>1, <2>2, <2>3
<1> HIDE DEF Firstly
<1>6. /\ \A k \in Firstly : Versions(k) = {1}
      /\ \A k \in (AllKinds \ Firstly) \ {"sign"} : Versions(k) = {}
  BY <1>3
<1>7. \A k \in AllKinds : \A v \in Versions(k) :
        LET p == At(k, v) IN
        /\ p.ok = TRUE /\ p.line = Firsts /\ k \in Firstly \union {"sign"}
        /\ DOMAIN p.has = FirstHas(k, v)
        /\ \A j \in DOMAIN p.has : p.has[j] \in (IF j = "sign" THEN {1, 2} ELSE {1})
        /\ k = "sign" => p.has \in {Signs1("rplan", 1), Signs1("ready", 1)}
  BY <1>5
<1>8. Versions("sign") = {1, 2}
  BY <1>3
<1>9. (AllKinds \ Five) \ {"started", "sign"} = (AllKinds \ Firstly) \ {"sign"}
      /\ Five \union {"started", "sign"} = Firstly \union {"sign"}
  BY DEF Firstly
<1> QED
  BY <1>4, <1>6, <1>7, <1>8, <1>9 DEF Firstly

LEMMA StagesBegin ==
  ASSUME shelf = Shelf(Started1), lapsed = {}, audit = {<<"started", 1>>}, RetryInit, extra = 0
  PROVE  StageInv
<1>k. "sign" \in AllKinds /\ "started" \in AllKinds /\ Five \subseteq AllKinds
  BY DEF AllKinds, RunnerKinds, Five
<1>0. Stocked /\ (\A k \in Five \union {"started"} : Versions(k) = {1}) /\ Versions("sign") = {1, 2}
      /\ \A k \in (AllKinds \ Five) \ {"started", "sign"} : Versions(k) = {}
  BY StartedShelf
<1>1. ASSUME NEW k \in AllKinds, NEW v \in Versions(k), NEW p, p = At(k, v)
      PROVE  StageGood(k, p)
  <2>1. /\ p.ok = TRUE /\ p.line = Firsts /\ k \in Five \union {"started", "sign"}
        /\ DOMAIN p.has = FirstHas(k, v)
        /\ \A j \in DOMAIN p.has : p.has[j] \in (IF j = "sign" THEN {1, 2} ELSE {1})
    BY <1>1, StartedShelf
  <2>2. /\ DOMAIN p.has \subseteq Five \union {"sign"}
        /\ k = "started" => DOMAIN p.has = Five
        /\ k = "sign" => DOMAIN p.has = {"rplan"} \/ DOMAIN p.has = {"ready"}
    BY <2>1 DEF FirstHas, Five
  <2>3. Refers(p)
    BY <1>0, <1>k, <2>1, <2>2 DEF Refers
  <2>4. StageLined(k, p) /\ Holds(k, p)
    BY <2>1 DEF StageLined, Holds, Five
  <2>5. k \in Staged /\ k \notin StageKinds \union RetryKinds \union {"stage"}
    BY <2>1 DEF Staged, StageKinds, RetryKinds, Five
  <2>6. k = "sign" => \E j \in AllKinds \ {"sign"} : DOMAIN p.has = {j} /\ p.has = Signs1(j, p.has[j])
    <3>1. k = "sign" => p.has \in {Signs1("rplan", 1), Signs1("ready", 1)}
      BY <1>1, StartedShelf
    <3> QED
      BY <3>1 DEF Signs1, AllKinds, RunnerKinds
  <2>7. StageLinks(k, p, Of(p))
    BY <2>5 DEF StageLinks, StageKinds, RetryKinds
  <2>8. StageFits(k, p, Of(p))
    BY <2>2, <2>5, <2>6, <2>7 DEF StageFits, StageKinds
  <2> QED
    BY <2>1, <2>3, <2>4, <2>8 DEF StageGood
<1>2. StageShelf
  BY <1>0, <1>1 DEF StageShelf
<1>3. Noted
  BY <1>0, <1>k DEF Noted
<1>4. Jobs /\ Outputs /\ Reserves
  BY DEF RetryInit, StageInit, Jobs, Outputs, Reserves
<1>5. Starters
  <2>1. {"exec", "rexec"} \subseteq (AllKinds \ Five) \ {"started", "sign"}
    BY DEF AllKinds, StageKinds, RetryKinds, Five
  <2> QED
    BY <1>0, <2>1 DEF Starters
<1> QED
  BY <1>0, <1>2, <1>3, <1>4, <1>5, ExtraAssumption DEF StageInv, StageHolds

LEMMA BlankShelf ==
  ASSUME shelf = Shelf(<<>>)
  PROVE  Stocked /\ \A k \in AllKinds : shelf[k] = <<>> /\ Versions(k) = {}
<1>1. PICK e : e = <<>> /\ DOMAIN e = {}
  OBVIOUS
<1>2. DOMAIN shelf = AllKinds /\ \A k \in AllKinds : shelf[k] = <<>>
  BY <1>1, ShelfFound
<1> QED
  BY <1>2, BlankList DEF Stocked, Versions

LEMMA LoopBegins ==
  ASSUME Init
  PROVE  LoopInv
<1>1. part \in {"run", "runner", "stages"} /\ active = 0 /\ extra = 0 /\ lapsed = {} /\ RetryInit
  BY PartsAssumption DEF Init
<1>2. NoStages
  BY <1>1 DEF RetryInit, StageInit, NoStages
<1>3. ASSUME part = "run"
      PROVE  RunInv /\ DOMAIN shelf = AllKinds /\ (\A k \in AllKinds \ Kinds : shelf[k] = <<>>) /\ NoRunner
  <2>1. shelf = Shelf(<<>>) /\ ends = <<>> /\ audit = {}
    BY <1>3 DEF Init
  <2>2. Stocked /\ \A k \in AllKinds : shelf[k] = <<>>
    BY <2>1, BlankShelf
  <2>3. RunInv
    BY <1>1, <2>1, <2>2, InitFits DEF Stocked, AllKinds
  <2> QED
    BY <1>1, <1>2, <2>1, <2>2, <2>3 DEF Stocked, NoRunner
<1>4. ASSUME part = "runner"
      PROVE  RunnerInv /\ RunDone /\ NoStages
  <2>1. shelf = Shelf(<<>>) /\ ends = <<"completed">> /\ audit = {}
    BY <1>4 DEF Init
  <2>2. Stocked /\ \A k \in AllKinds : Versions(k) = {}
    BY <2>1, BlankShelf
  <2> QED
    BY <1>1, <1>2, <2>1, <2>2, ExtraAssumption DEF RunnerInv, RunnerShelf, Noted, RunDone
<1>5. ASSUME part = "stages"
      PROVE  StageInv /\ RunDone
  <2>1. shelf = Shelf(Started1) /\ ends = <<"completed">> /\ audit = {<<"started", 1>>}
    BY <1>5 DEF Init
  <2> QED
    BY <1>1, <2>1, StagesBegin DEF RunDone
<1> QED
  BY <1>1, <1>3, <1>4, <1>5 DEF LoopInv

LEMMA LoopStays ==
  ASSUME LoopInv, UNCHANGED all
  PROVE  LoopInv'
<1>1. /\ shelf' = shelf /\ extra' = extra /\ active' = active /\ ends' = ends /\ lapsed' = lapsed /\ audit' = audit
      /\ torn' = torn /\ busy' = busy /\ printed' = printed /\ starter' = starter /\ reserved' = reserved
      /\ retried' = retried /\ there' = there /\ part' = part /\ UNCHANGED cvars
  BY DEF all, cvars
<1>2. ASSUME part = "run"
      PROVE  RunInv' /\ DOMAIN shelf' = AllKinds /\ (\A k \in AllKinds \ Kinds : shelf'[k] = <<>>) /\ NoRunner'
  <2>1. RunInv'
    BY <1>1, <1>2, RunStepKeepsInv DEF LoopInv, RunInv
  <2> QED
    BY <1>1, <1>2, <2>1 DEF LoopInv, NoRunner, NoStages
<1>3. ASSUME part = "runner"
      PROVE  RunnerInv' /\ RunDone' /\ NoStages'
  BY <1>1, <1>3, RunnerStays DEF LoopInv, RunDone, NoStages, RunnerInv
<1>4. ASSUME part = "stages"
      PROVE  StageInv' /\ RunDone'
  <2>1. StageHolds /\ Reserves'
    BY <1>1, <1>4 DEF LoopInv, StageInv, StageHolds, Reserves
  <2>2. StageHolds'
    BY <1>1, <2>1, RestKeeps
  <2> QED
    BY <1>1, <1>4, <2>2 DEF LoopInv, StageInv, RunDone
<1> QED
  BY <1>1, <1>2, <1>3, <1>4 DEF LoopInv

LEMMA LoopKeepsInv ==
  ASSUME LoopInv, [Next]_all
  PROVE  LoopInv'
<1>1. CASE part = "run" /\ RunNext /\ UNCHANGED <<lapsed, audit, torn, stagesOnly, part>>
  <2>1. RunInv'
    BY <1>1, RunStepKeepsInv DEF LoopInv, RunInv
  <2>2. DOMAIN shelf' = AllKinds /\ (\A k \in AllKinds \ Kinds : shelf'[k] = <<>>)
    BY <1>1, RunFrame DEF LoopInv
  <2>3. NoRunner'
    BY <1>1 DEF LoopInv, NoRunner, NoStages, stagesOnly, kept
  <2> QED
    BY <1>1, <2>1, <2>2, <2>3 DEF LoopInv
<1>2. CASE part = "runner" /\ RunnerNext /\ UNCHANGED <<runOnly, stagesOnly>>
  <2>1. RunnerInv'
    BY <1>2, RunnerKeepsInv DEF LoopInv
  <2>2. part' = part /\ RunDone' /\ NoStages'
    BY <1>2 DEF LoopInv, RunDone, NoStages, runOnly, stagesOnly, kept
  <2> QED
    BY <1>2, <2>1, <2>2 DEF LoopInv
<1>3. CASE part = "stages" /\ UNCHANGED runOnly /\ (RetryNext \/ ((Again \/ Signs \/ Lapse \/ TearLog) /\ UNCHANGED stagesOnly))
  <2>1. StageInv'
    BY <1>3, RetryKeepsInv, BesideKeeps DEF LoopInv
  <2>2. part' = part /\ RunDone'
    BY <1>3 DEF LoopInv, RunDone, runOnly
  <2> QED
    BY <1>3, <2>1, <2>2 DEF LoopInv
<1>4. CASE UNCHANGED all
  BY <1>4, LoopStays
<1> QED
  BY <1>1, <1>2, <1>3, <1>4 DEF Next

------------------------------------------------------------------------------
(* What the invariant says                                                  *)

LEMMA RunnerPrintsOwn ==
  ASSUME RunnerShelf, NEW k \in AllKinds \ RunnerKinds
  PROVE  Versions(k) = {}
BY DEF RunnerShelf, RunnerGood, RunnerFits

LEMMA StagesPrintOwn ==
  ASSUME StageShelf, NEW k \in AllKinds \ Staged
  PROVE  Versions(k) = {}
BY DEF StageShelf, StageGood, StageFits

LEMMA BlankIsNone ==
  ASSUME NEW k, shelf[k] = <<>>
  PROVE  Versions(k) = {}
BY BlankList DEF Versions

LEMMA FinishGives ==
  /\ RunnerGives["cclose"] = {} /\ RunnerGives["tick"] = {"cclose"}
  /\ RunnerGives["summary"] = {"cclose", "tick"} /\ RunnerGives["outcome"] = {"summary", "cclose", "tick"}
BY DEF RunnerGives

LEMMA FinishLinks ==
  ASSUME NEW h, NEW of
  PROVE  /\ RunnerLinks("summary", h, of) => of["tick"].has["cclose"] = h["cclose"]
         /\ RunnerLinks("outcome", h, of) => \A j \in {"cclose", "tick"} : of["summary"].has[j] = h[j]
BY DEF RunnerLinks

\* A run as Finish leaves it is one run too.
LEMMA FinishIsOne ==
  ASSUME RunnerShelf
  PROVE  OneChain
<1> SUFFICES ASSUME NEW n \in Versions("outcome"), At("outcome", n).ok
             PROVE  OneLine(At("outcome", n))
  BY DEF OneChain
<1>k. Finished \subseteq RunnerKinds \ {"sign"} /\ Finished \subseteq AllKinds
  BY DEF RunnerKinds, AllKinds, Finished
<1>r. ASSUME NEW k \in Finished, NEW v \in Versions(k)
      PROVE  /\ At(k, v).ok /\ DOMAIN At(k, v).has = RunnerGives[k]
             /\ At(k, v).line \subseteq Lineage(At(k, v).has) /\ Refers(At(k, v))
             /\ RunnerLinks(k, At(k, v).has, Of(At(k, v)))
  <2>1. At(k, v).ok
    BY <1>k DEF RunnerShelf, RunnerGood, RunnerFits
  <2> QED
    BY <1>k, <2>1, RunnerReads
<1>f. "cclose" \in Finished /\ "tick" \in Finished /\ "summary" \in Finished /\ "outcome" \in Finished
  BY DEF Finished
<1>1. PICK s \in Versions("summary"), c \in Versions("cclose"), t \in Versions("tick") :
        /\ At("outcome", n).has["summary"] = s /\ At("outcome", n).has["cclose"] = c
        /\ At("outcome", n).has["tick"] = t
        /\ At("summary", s).has["cclose"] = c /\ At("summary", s).has["tick"] = t
  <2>1. PICK p : p = At("outcome", n)
    OBVIOUS
  <2>2. DOMAIN p.has = {"summary", "cclose", "tick"} /\ Refers(p) /\ RunnerLinks("outcome", p.has, Of(p))
    BY <1>f, <1>r, <2>1, FinishGives
  <2>3. \A j \in {"summary", "cclose", "tick"} : p.has[j] \in Versions(j) /\ Of(p)[j] = At(j, p.has[j])
    BY <2>2 DEF Refers, Of
  <2>4. \A j \in {"cclose", "tick"} : Of(p)["summary"].has[j] = p.has[j]
    BY <2>2, FinishLinks
  <2>5. /\ p.has["summary"] \in Versions("summary") /\ p.has["cclose"] \in Versions("cclose")
        /\ p.has["tick"] \in Versions("tick")
        /\ At("summary", p.has["summary"]).has["cclose"] = p.has["cclose"]
        /\ At("summary", p.has["summary"]).has["tick"] = p.has["tick"]
    BY <2>3, <2>4
  <2> QED
    BY <2>1, <2>5
<1>2. At("tick", t).has["cclose"] = c
  <2>1. PICK p : p = At("summary", s)
    OBVIOUS
  <2>2. DOMAIN p.has = {"cclose", "tick"} /\ RunnerLinks("summary", p.has, Of(p))
    BY <1>1, <1>f, <1>r, <2>1, FinishGives
  <2>3. Of(p)["tick"].has["cclose"] = p.has["cclose"] /\ Of(p)["tick"] = At("tick", p.has["tick"])
    BY <2>2, FinishLinks DEF Of
  <2> QED
    BY <1>1, <2>1, <2>3
<1> DEFINE X == {<<"summary", s>>, <<"cclose", c>>, <<"tick", t>>}
<1>x. /\ <<"summary", s>> \in X /\ <<"cclose", c>> \in X /\ <<"tick", t>> \in X
      /\ \A p, q \in X : p[1] = q[1] => p = q
  OBVIOUS
<1> HIDE DEF X
<1>c. ASSUME NEW k \in Finished, NEW v \in Versions(k), <<k, v>> \in X,
             \A j \in RunnerGives[k] : Within(j, At(k, v).has[j], X)
      PROVE  Within(k, v, X)
  BY <1>c, <1>r, <1>k, RunnerClimbs
<1>3. Within("cclose", c, X)
  <2>1. \A j \in RunnerGives["cclose"] : Within(j, At("cclose", c).has[j], X)
    BY FinishGives
  <2> QED
    BY <2>1, <1>1, <1>f, <1>x, <1>c
<1>4. Within("tick", t, X)
  <2>1. \A j \in RunnerGives["tick"] : Within(j, At("tick", t).has[j], X)
    BY <1>2, <1>3, FinishGives
  <2> QED
    BY <2>1, <1>1, <1>f, <1>x, <1>c
<1>5. Within("summary", s, X)
  <2>1. \A j \in RunnerGives["summary"] : Within(j, At("summary", s).has[j], X)
    BY <1>1, <1>3, <1>4, FinishGives
  <2> QED
    BY <2>1, <1>1, <1>f, <1>x, <1>c
<1>6. At("outcome", n).line \subseteq X
  <2>1. DOMAIN At("outcome", n).has = {"summary", "cclose", "tick"} /\ Refers(At("outcome", n))
        /\ At("outcome", n).line \subseteq Lineage(At("outcome", n).has)
    BY <1>r DEF Finished, RunnerGives
  <2> QED
    BY <1>1, <1>3, <1>4, <1>5, <2>1, LinesUp DEF Within, Of
<1> QED
  BY <1>6, <1>x DEF OneLine

LEMMA FinishIsTyped ==
  ASSUME RunnerShelf, RunDone, extra \in 0 .. MaxExtra
  PROVE  ControlledTypeOK /\ OutcomeFitsEpoch
<1>k. Finished \subseteq RunnerKinds \ {"sign"} /\ Finished \subseteq AllKinds /\ Kinds \subseteq AllKinds
      /\ Kinds \intersect RunnerKinds = Finished
  BY DEF RunnerKinds, AllKinds, Finished, Kinds
<1>1. ASSUME NEW k \in Kinds, NEW n \in Versions(k)
      PROVE  /\ At(k, n).ok \in BOOLEAN /\ DOMAIN At(k, n).has \subseteq Kinds
             /\ \A j \in DOMAIN At(k, n).has : At(k, n).has[j] \in Versions(j)
             /\ k = "outcome" => At(k, n).epoch = 1 /\ At(k, n).next = "run_git_pr_plan"
  <2>1. k \in Finished
    BY <1>k, RunnerPrintsOwn
  <2>2. At(k, n).ok /\ At(k, n).ok \in BOOLEAN
    BY <1>k, <2>1 DEF RunnerShelf, RunnerGood, RunnerFits
  <2>3. DOMAIN At(k, n).has = RunnerGives[k] /\ Refers(At(k, n))
    BY <1>k, <2>1, <2>2, RunnerReads
  <2>4. RunnerGives[k] \subseteq Finished
    BY <2>1 DEF RunnerGives, Finished
  <2>5. k = "outcome" => At(k, n).epoch = 1 /\ At(k, n).next = "run_git_pr_plan"
    BY <1>k DEF RunnerShelf, RunnerGood, RunnerFits
  <2> QED
    BY <1>k, <2>2, <2>3, <2>4, <2>5 DEF Refers
<1>2. Len(ends) = 1 /\ ends[1] = "completed" /\ active = 0
  BY DEF RunDone
<1>3. "outcome" \in Kinds
  BY DEF Kinds
<1> QED
  BY <1>1, <1>2, <1>3 DEF ControlledTypeOK, OutcomeFitsEpoch

LEMMA NoRunIsTyped ==
  ASSUME \A k \in Kinds : Versions(k) = {}, RunDone, extra \in 0 .. MaxExtra
  PROVE  ControlledTypeOK /\ OutcomeFitsEpoch /\ OneChain
<1>1. Len(ends) = 1 /\ active = 0
  BY DEF RunDone
<1>2. "outcome" \in Kinds
  BY DEF Kinds
<1> QED
  BY <1>1, <1>2 DEF ControlledTypeOK, OutcomeFitsEpoch, OneChain

\* What the stages print is nothing of the run before them.
LEMMA StagesAreNoRun ==
  ASSUME StageShelf
  PROVE  \A k \in Kinds : Versions(k) = {}
<1>1. Kinds \subseteq AllKinds \ Staged
  BY DEF Kinds, AllKinds, Staged, StageKinds, RetryKinds, Five
<1> QED
  BY <1>1, StagesPrintOwn

\* The start, and its first stage, are of the one runner that there is.
LEMMA StageIsOfOne ==
  ASSUME StageShelf
  PROVE  OneRunner
<1> SUFFICES ASSUME NEW n \in Versions("stage"), At("stage", n).ok
             PROVE  OneLine(At("stage", n))
  BY DEF OneRunner
<1>k. {"stage", "started", "rplan", "dryrun"} \union Five \subseteq AllKinds
  BY DEF AllKinds, RunnerKinds, Five
<1>1. StageGood("stage", At("stage", n))
  BY <1>k DEF StageShelf
<1>2. Shaped("stage", At("stage", n)) /\ Refers(At("stage", n)) /\ StageLined("stage", At("stage", n))
  BY <1>1 DEF StageGood, StageFits
<1>3. DOMAIN At("stage", n).has = Base
  BY <1>2, Gives DEF Shaped
<1>4. PICK s \in Versions("started") : s = At("stage", n).has["started"]
  BY <1>2, <1>3 DEF Refers, Base
<1>5. At("stage", n).has["rplan"] = 1 /\ At("stage", n).has["dryrun"] = 1
  BY <1>2, <1>3 DEF Refers, Base, StageShelf, Five
<1> DEFINE X == Firsts \union {<<"started", s>>}
<1>6. ASSUME NEW k \in Five, NEW v \in Versions(k) PROVE Within(k, v, X)
  <2>1. v = 1 /\ At(k, v).line \subseteq Firsts
    BY <1>6, <1>k DEF StageShelf, StageGood, StageLined
  <2> QED
    BY <2>1 DEF Within, Firsts
<1>7. Within("started", s, X)
  <2>1. /\ Refers(At("started", s)) /\ StageLined("started", At("started", s))
        /\ StageFits("started", At("started", s), Of(At("started", s)))
    BY <1>k DEF StageShelf, StageGood
  <2>2. DOMAIN At("started", s).has \subseteq Five /\ At("started", s).line \subseteq Lineage(At("started", s).has) \union Firsts
    BY <2>1 DEF StageFits, StageLined, Five
  <2>3. \A j \in DOMAIN At("started", s).has : Within(j, At("started", s).has[j], X)
    BY <1>6, <2>1, <2>2 DEF Refers
  <2>4. At("started", s).line \subseteq X
    BY <2>1, <2>2, <2>3, Climbs
  <2> QED
    BY <2>4 DEF Within
<1>8. \A j \in DOMAIN At("stage", n).has : Within(j, At("stage", n).has[j], X)
  <2>1. Within("rplan", 1, X) /\ Within("dryrun", 1, X)
    <3>1. 1 \in Versions("rplan") /\ 1 \in Versions("dryrun")
      BY DEF StageShelf, Five
    <3> QED
      BY <1>6, <3>1 DEF Five
  <2> QED
    BY <1>3, <1>4, <1>5, <1>7, <2>1 DEF Base
<1>9. At("stage", n).line \subseteq X
  <2>1. At("stage", n).line \subseteq Lineage(At("stage", n).has) \union Firsts
    BY <1>2 DEF StageLined, Five
  <2> QED
    BY <1>2, <1>8, <2>1, Climbs
<1>10. \A p, q \in X : p[1] = q[1] => p = q
  BY DEF Firsts, Five
<1> QED
  BY <1>9, <1>10 DEF OneLine

------------------------------------------------------------------------------
(* What the loop does holds                                                 *)

LEMMA StartIsApproved ==
  ASSUME Stocked, NEW a \in Versions("sapproval"), NEW r \in Versions("ready"), NEW d \in Versions("dryrun"),
         NEW p \in Versions("rplan"), NEW x \in Versions("xapproval"), RunnerStart(a, r, d, p, x),
         NEW n \in DOMAIN shelf'["started"] \ Versions("started"), shelf'["started"][n].ok
  PROVE  {At("sapproval", shelf'["started"][n].has["sapproval"]).has["sign"],
          At("xapproval", shelf'["started"][n].has["xapproval"]).has["sign"]} \cap lapsed = {}
<1> DEFINE has == [sapproval |-> a, ready |-> r, dryrun |-> d, rplan |-> p, xapproval |-> x]
           codes == StartApproved(a, r) \union ReadyUsable(r) \union StartReadyLinks(r, d, p, x)
                    \union ReadyPlan(p) \union StartExecutionApproved(x, p) \union StartDryRun(d, p, x)
                    \union When(torn, "controlled_runner_start_audit_append_failed")
<1>1. Reply("started", codes, Accepted("review_controlled_runner_start", has, 0, "started"), RunnerStartTable, "inspect_controlled_runner_start_blockers")
  BY DEF RunnerStart
<1>2. has["sapproval"] = a /\ has["xapproval"] = x
  OBVIOUS
<1>3. ASSUME codes = {}
      PROVE  At("sapproval", a).has["sign"] \notin lapsed /\ At("xapproval", x).has["sign"] \notin lapsed
  <2>1. StartApproved(a, r) = {} /\ StartExecutionApproved(x, p) = {}
    BY <1>3
  <2>2. Verify(At("sapproval", a).has["sign"], "ready", r) = {}
    BY <2>1 DEF StartApproved
  <2>3. Verify(At("xapproval", x).has["sign"], "rplan", p) = {}
    BY <2>1 DEF StartExecutionApproved, StartOperator
  <2> QED
    BY <2>2, <2>3, Verified
<1> HIDE DEF has, codes
<1>4. PICK q : /\ shelf' = Place("started", q)
               /\ codes # {} => ~q.ok
               /\ codes = {} => q.has = has
  <2>1. CASE codes = {}
    BY <1>1, <2>1 DEF Reply, Issue, Accepted
  <2>2. CASE codes # {}
    BY <1>1, <2>2 DEF Reply, Issue, Blocked
  <2> QED
    BY <2>1, <2>2
<1>5. "started" \in AllKinds
  BY DEF AllKinds, RunnerKinds
<1>6. shelf'["started"][n] = q
  <2>1. n = Len(shelf["started"]) + 1
    BY <1>4, <1>5, Shelved DEF Versions
  <2> QED
    BY <1>4, <1>5, <2>1, Shelved
<1> QED
  BY <1>2, <1>3, <1>4, <1>6

\* The task that a second stage is run for was approved.
LEMMA TaskIsApproved ==
  ASSUME NEW ev, NEW n, n # 1, NEW m, At("bind", ev["bind"]).ok, TaskApproved(ev, n, m) = {}
  PROVE  m \notin lapsed
<1>1. Verify(m, "exec", TaskOf(ev)) = {}
  BY DEF TaskApproved
<1> QED
  BY <1>1, Verified

LEMMA ExecuteIsApproved ==
  ASSUME NEW n \in 1 .. Total, NEW ev, Named(ev, Bounded(n)), StageExecute(ev, n), NEW job \in busy' \ busy
  PROVE  job.kind = "exec" /\ SignaturesOn(job) \intersect lapsed = {}
<1>1. job = [kind |-> "exec", n |-> n, files |-> ev, try |-> extra']
  BY DEF StageExecute, Runs
<1>2. job.kind = "exec" /\ job.files = ev /\ job.n = n
  BY <1>1
<1>3. Upstream(ev, n) = {} /\ BoundaryFor(ev, n) = {} /\ ApprovalFor(ev, n) = {} /\ GovernedContext(ev, n) = {}
  BY DEF StageExecute, Upstream
<1>4. At("stapproval", ev["stapproval"]).ok /\ StageOperator(ev) = {}
  BY <1>3 DEF ApprovalFor, ApprovalEnvelope, Usable, When
<1>5. At("stapproval", ev["stapproval"]).has["sign"] \notin lapsed
  BY <1>4, Verified DEF StageOperator
<1>6. ASSUME n # 1 PROVE At("stapproval", ev["stapproval"]).task \notin lapsed
  <2>1. n = 2 /\ DOMAIN ev = Bounded(2)
    BY <1>6, TotalAssumption DEF Named
  <2>2. OnTrail(ev, n)
    BY <1>3, RunsOnTrail
  <2>3. Base \subseteq DOMAIN ev /\ {"cont", "bind"} \subseteq DOMAIN ev
    BY <2>1 DEF Bounded, Approved, Readied, Source
  <2>4. At("bind", ev["bind"]).ok
    BY <2>1, <2>2, <2>3, TrailSelects
  <2>5. TaskApproved(ev, n, At("stapproval", ev["stapproval"]).task) = {}
    BY <1>3, <1>4, <1>6 DEF GovernedContext
  <2> QED
    BY <1>6, <2>4, <2>5, TaskIsApproved
<1>7. StageApprovalOf(job) = At("stapproval", ev["stapproval"])
  BY <1>2 DEF StageApprovalOf
<1> QED
  BY <1>2, <1>5, <1>6, <1>7 DEF SignaturesOn

LEMMA RetryIsApproved ==
  ASSUME StageShelf, NEW n \in 1 .. Total, NEW ev, Named(ev, RetryBounded(n)), RetryExecute(ev, n),
         NEW job \in busy' \ busy
  PROVE  SignaturesOn(job) \intersect lapsed = {} /\ Key(job.files, job.n) \notin reserved
<1>1. job = [kind |-> "rexec", n |-> n, files |-> ev, try |-> Cardinality({j \in busy : j.files = ev})]
  BY DEF RetryExecute, Runs
<1>2. job.kind = "rexec" /\ job.files = ev /\ job.n = n
  BY <1>1
<1>3. /\ RetryApprovalFor(ev, n) = {} /\ AlreadyStarted(ev, n) = {} /\ RetryContext(ev, n) = {}
      /\ RetryUpstream(ev, n) = {} /\ RetryBoundaryFor(ev, n) = {}
  BY DEF RetryExecute, RetryUpstream
<1>4. At("rapproval", ev["rapproval"]).ok /\ RetryOperator(ev) = {}
  BY <1>3 DEF RetryApprovalFor, Usable, When
<1>5. At("rapproval", ev["rapproval"]).has["sign"] \notin lapsed
  BY <1>4, Verified DEF RetryOperator
<1>6. Key(ev, n) \notin reserved
  BY <1>3 DEF AlreadyStarted, When
<1>7. PICK m : m = At("stapproval", At("exec", ev["exec"]).has["stapproval"]).task
  OBVIOUS
<1>8. ASSUME n # 1 PROVE m \notin lapsed
  <2>1. n = 2
    BY <1>8, TotalAssumption
  <2>2. OnRetry(ev, n)
    BY <1>3, RunsOnRetry
  <2>3. PICK o \in Versions("souto") : /\ o = ev["souto"] /\ At("souto", o).ok /\ At("souto", o).epoch = n
                                      /\ \A j \in RetrySource(n) \ {"souto"} : At("souto", o).has[j] = ev[j]
    BY <2>2, RetriesOutcome
  <2>4. PICK t : t = Trail(o)
    OBVIOUS
  <2>5. /\ OnTrail(t, n) /\ DOMAIN At("souto", o).has = Executed(n) \union {"close"}
        /\ DOMAIN At("souto", o).has \subseteq DOMAIN t
        /\ \A j \in DOMAIN At("souto", o).has : t[j] = At("souto", o).has[j]
    BY <2>3, <2>4, OutcomeTrail
  <2>6. Base \subseteq DOMAIN t /\ {"cont", "bind"} \subseteq DOMAIN t /\ "bind" \in Executed(n)
    BY <2>1, <2>5 DEF Executed, Bounded, Approved, Readied, Source
  <2>7. At("bind", t["bind"]).ok
    BY <2>1, <2>5, <2>6, TrailSelects
  <2>8. "bind" \in RetrySource(n) \ {"souto"}
    BY <2>1 DEF RetrySource
  <2>9. t["bind"] = ev["bind"]
    BY <2>3, <2>5, <2>6, <2>8
  <2>10. TaskApproved(ev, n, m) = {}
    BY <1>3, <1>7, <1>8 DEF RetryContext
  <2> QED
    BY <1>8, <2>7, <2>9, <2>10, TaskIsApproved
<1>9. StageApprovalOf(job).task = m
  BY <1>2, <1>7 DEF StageApprovalOf
<1> QED
  BY <1>2, <1>5, <1>6, <1>8, <1>9 DEF SignaturesOn

\* A step starts the runner, or runs a process, or neither.
LEMMA LoopFrame ==
  ASSUME LoopInv, [Next]_all
  PROVE  \/ Idle
         \/ /\ busy' = busy /\ Stocked
            /\ \E a \in Versions("sapproval"), r \in Versions("ready"), d \in Versions("dryrun"),
                  p \in Versions("rplan"), x \in Versions("xapproval") : RunnerStart(a, r, d, p, x)
         \/ /\ Unstarted /\ StageInv
            /\ \E ev, n : Executes(ev, n)
<1>k. "started" \in AllKinds \ Kinds
  BY DEF AllKinds, RunnerKinds, Kinds
<1>1. CASE part = "run" /\ RunNext /\ UNCHANGED <<lapsed, audit, torn, stagesOnly, part>>
  <2>1. Unstarted
    BY <1>k, <1>1, RunFrame DEF LoopInv, Unstarted
  <2> QED
    BY <1>1, <2>1 DEF stagesOnly, Idle
<1>2. CASE part = "runner" /\ RunnerNext /\ UNCHANGED <<runOnly, stagesOnly>>
  <2>1. busy' = busy
    BY <1>2 DEF stagesOnly
  <2>2. Stocked
    BY <1>2 DEF LoopInv, RunnerInv
  <2> QED
    BY <1>2, <2>1, <2>2, RunnerFrame DEF Idle
<1>3. CASE part = "stages" /\ RetryNext /\ UNCHANGED runOnly
  <2>1. StageInv
    BY <1>3 DEF LoopInv
  <2> QED
    BY <1>3, <2>1, StageFrame
<1>4. CASE part = "stages" /\ (Again \/ Signs \/ Lapse \/ TearLog) /\ UNCHANGED <<runOnly, stagesOnly>>
  <2>1. Stocked
    BY <1>4 DEF LoopInv, StageInv, StageHolds
  <2> QED
    BY <1>4, <2>1, BesideFrame DEF Idle
<1>5. CASE UNCHANGED all
  BY <1>5 DEF all, Idle, Unstarted
<1> QED
  BY <1>1, <1>2, <1>3, <1>4, <1>5 DEF Next

LEMMA StepIsApproved ==
  ASSUME LoopInv, [Next]_all
  PROVE  /\ \A n \in DOMAIN shelf'["started"] \ Versions("started") :
              shelf'["started"][n].ok =>
                {At("sapproval", shelf'["started"][n].has["sapproval"]).has["sign"],
                 At("xapproval", shelf'["started"][n].has["xapproval"]).has["sign"]} \cap lapsed = {}
         /\ \A job \in busy' \ busy : SignaturesOn(job) \intersect lapsed = {}
         /\ \A job \in busy' \ busy : job.kind = "rexec" => Key(job.files, job.n) \notin retried
<1>0. ASSUME Unstarted PROVE DOMAIN shelf'["started"] \ Versions("started") = {}
  BY <1>0 DEF Unstarted, Versions
<1>1. CASE Idle
  BY <1>0, <1>1 DEF Idle
<1>2. CASE /\ busy' = busy /\ Stocked
           /\ \E a \in Versions("sapproval"), r \in Versions("ready"), d \in Versions("dryrun"),
                 p \in Versions("rplan"), x \in Versions("xapproval") : RunnerStart(a, r, d, p, x)
  BY <1>2, StartIsApproved
<1>3. CASE Unstarted /\ StageInv /\ \E ev, n : Executes(ev, n)
  <2>1. retried = reserved /\ StageShelf
    BY <1>3 DEF StageInv, StageHolds, Reserves
  <2>2. PICK ev, n : Executes(ev, n)
    BY <1>3
  <2>3. ASSUME NEW job \in busy' \ busy
        PROVE  SignaturesOn(job) \intersect lapsed = {} /\ (job.kind = "rexec" => Key(job.files, job.n) \notin retried)
    <3>0. n \in 1 .. Total
      BY <2>2 DEF Executes
    <3>1. CASE Named(ev, Bounded(n)) /\ StageExecute(ev, n)
      BY <2>3, <3>0, <3>1, ExecuteIsApproved
    <3>2. CASE Named(ev, RetryBounded(n)) /\ RetryExecute(ev, n)
      BY <2>1, <2>3, <3>0, <3>2, RetryIsApproved
    <3> QED
      BY <2>2, <3>1, <3>2 DEF Executes
  <2> QED
    BY <1>0, <1>3, <2>3
<1> QED
  BY <1>1, <1>2, <1>3, LoopFrame

\* Each part of the loop keeps its invariant, whatever its commands are given
\* and whatever is repeated, lost or retried on the way.
THEOREM LoopKeepsToIt == Spec => []LoopInv
<1>1. Init => LoopInv
  BY LoopBegins
<1>2. LoopInv /\ [Next]_all => LoopInv'
  BY LoopKeepsInv
<1> QED
  BY <1>1, <1>2, PTL DEF Spec

\* Where a part prints no such packet there is nothing to show of it.
LEMMA Elsewhere ==
  ASSUME LoopInv
  PROVE  /\ part = "run" => \A k \in {"stage", "done"} : Versions(k) = {}
         /\ part = "runner" => Versions("done") = {}
<1>k. {"stage", "done"} \subseteq AllKinds \ Kinds /\ "done" \in AllKinds \ RunnerKinds
  BY DEF AllKinds, Kinds, RunnerKinds, StageKinds
<1>1. ASSUME part = "run" PROVE \A k \in {"stage", "done"} : Versions(k) = {}
  BY <1>k, <1>1, BlankIsNone DEF LoopInv
<1>2. ASSUME part = "runner" PROVE Versions("done") = {}
  BY <1>k, <1>2, RunnerPrintsOwn DEF LoopInv, RunnerInv
<1> QED
  BY <1>1, <1>2

LEMMA LoopIsTyped ==
  ASSUME LoopInv
  PROVE  TypeOK
<1>1. CASE part = "run"
  <2>1. ControlledTypeOK /\ extra \in 0 .. MaxExtra
    BY <1>1 DEF LoopInv, RunInv, ControlledTypeOK, AllFit, Fits, Epochs
  <2>2. RunnerTypeOK /\ StagesTypeOK
    BY <1>1, <2>1 DEF LoopInv, NoRunner, NoStages, RunnerTypeOK, StagesTypeOK
  <2> QED
    BY <2>1, <2>2 DEF TypeOK
<1>2. CASE part = "runner"
  <2>1. ControlledTypeOK
    BY <1>2, FinishIsTyped DEF LoopInv, RunnerInv
  <2>2. RunnerTypeOK /\ StagesTypeOK
    BY <1>2 DEF LoopInv, RunnerInv, Noted, NoStages, RunnerTypeOK, StagesTypeOK
  <2> QED
    BY <2>1, <2>2 DEF TypeOK
<1>3. CASE part = "stages"
  <2>1. ControlledTypeOK
    BY <1>3, StagesAreNoRun, NoRunIsTyped DEF LoopInv, StageInv, StageHolds
  <2>2. RunnerTypeOK
    BY <1>3 DEF LoopInv, StageInv, StageHolds, Noted, RunnerTypeOK
  <2>3. StagesTypeOK
    BY <1>3 DEF LoopInv, StageInv, StageHolds, Reserves, Jobs, JobFits, Outputs, StagesTypeOK
  <2> QED
    BY <2>1, <2>2, <2>3 DEF TypeOK
<1> QED
  BY <1>1, <1>2, <1>3 DEF LoopInv

\* Every packet names packets that are there, and the log, the processes, the
\* outputs and the reservations are of packets, stages and files that there are
\* (the files of the controlled loop, its audit log and retry reservations, cli.py).
THEOREM LoopTypeCorrect == Spec => []TypeOK
<1>1. LoopInv => TypeOK
  BY LoopIsTyped
<1> QED
  BY <1>1, LoopKeepsToIt, PTL

\* An outcome plan that is valid rests on one version of every packet, in the
\* run that prints it and where the runner is handed it
\* (controlled_loop_start_command to controlled_loop_outcome_plan_command).
THEOREM LoopIsOneChain == Spec => []OneChain
<1>1. ASSUME LoopInv PROVE OneChain
  <2>1. CASE part = "run"
    BY <1>1, <2>1, ChainIsOne DEF LoopInv, RunInv
  <2>2. CASE part = "runner"
    BY <1>1, <2>2, FinishIsOne DEF LoopInv, RunnerInv
  <2>3. CASE part = "stages"
    BY <1>1, <2>3, StagesAreNoRun, NoRunIsTyped DEF LoopInv, StageInv, StageHolds
  <2> QED
    BY <1>1, <2>1, <2>2, <2>3 DEF LoopInv
<1> QED
  BY <1>1, LoopKeepsToIt, PTL

\* ... and what it tells the operator to do fits how its epoch ended
\* (closeout_next_decision, controlled_loop_outcome_recommendation).
THEOREM LoopOutcomeIsOfItsEpoch == Spec => []OutcomeFitsEpoch
<1>1. ASSUME LoopInv PROVE OutcomeFitsEpoch
  <2>1. CASE part = "run"
    BY <1>1, <2>1, OutcomeMeetsItsEpoch DEF LoopInv
  <2>2. CASE part = "runner"
    BY <1>1, <2>2, FinishIsTyped DEF LoopInv, RunnerInv
  <2>3. CASE part = "stages"
    BY <1>1, <2>3, StagesAreNoRun, NoRunIsTyped DEF LoopInv, StageInv, StageHolds
  <2> QED
    BY <1>1, <2>1, <2>2, <2>3 DEF LoopInv
<1> QED
  BY <1>1, LoopKeepsToIt, PTL

\* The first stage that the runner selects rests on one run, one plan and one
\* set of approvals, on whatever way they are reached, also when the runner is
\* started again beside its stages (controlled_loop_run_manifest_plan_command
\* to controlled_loop_runner_next_stage_chain_validation).
THEOREM RunnerIsOneLine == Spec => []OneRunner
<1>1. ASSUME LoopInv PROVE OneRunner
  <2>1. CASE part = "run"
    BY <1>1, <2>1, Elsewhere DEF OneRunner
  <2>2. CASE part = "runner"
    BY <1>1, <2>2, RunnerIsOne DEF LoopInv, RunnerInv
  <2>3. CASE part = "stages"
    BY <1>1, <2>3, StageIsOfOne DEF LoopInv, StageInv, StageHolds
  <2> QED
    BY <1>1, <2>1, <2>2, <2>3 DEF LoopInv
<1> QED
  BY <1>1, LoopKeepsToIt, PTL

\* A runner that completes rests, for each of its stages, on one packet of every
\* kind, whatever was printed again, retried or named from another file
\* (the anchors that the stage commands read, controlled_loop_runner_completion_command).
THEOREM StagesAreOneLine == Spec => []OneStageLine
<1>1. ASSUME LoopInv PROVE OneStageLine
  <2>1. CASE part \in {"run", "runner"}
    BY <1>1, <2>1, Elsewhere DEF OneStageLine
  <2>2. CASE part = "stages"
    BY <1>1, <2>2, StagesAreOne DEF LoopInv, StageInv, StageHolds
  <2> QED
    BY <1>1, <2>1, <2>2 DEF LoopInv
<1> QED
  BY <1>1, LoopKeepsToIt, PTL

\* A runner completes on the very execution that started the epoch, though one
\* that failed or died may have started it (start_governed_execution_command
\* refuses a second epoch; controlled_loop_runner_completion_command).
THEOREM RunnerCompletesOnItsStarter == Spec => []CompletedByStarter
<1>1. ASSUME LoopInv PROVE CompletedByStarter
  <2>1. CASE part \in {"run", "runner"}
    BY <1>1, <2>1, Elsewhere DEF CompletedByStarter
  <2>2. CASE part = "stages"
    BY <1>1, <2>2, CompletedIsStarter DEF LoopInv, StageInv, StageHolds
  <2> QED
    BY <1>1, <2>1, <2>2 DEF LoopInv
<1> QED
  BY <1>1, LoopKeepsToIt, PTL

LEMMA RunsAreOne ==
  ASSUME StageShelf, Jobs
  PROVE  RunsOnOneLine
<1> SUFFICES ASSUME NEW job \in busy PROVE OnePerStage(Lineage(job.files))
  BY DEF RunsOnOneLine
<1>1. PICK t, n : t = job.files /\ n = job.n
  OBVIOUS
<1>2. n \in 1 .. Total /\ (OnTrail(t, n) \/ OnRetry(t, n))
  BY <1>1 DEF Jobs, JobFits
<1>3. PICK X : OnePerStage(X) /\ \A j \in DOMAIN t : Within(j, t[j], X)
  BY <1>2, TrailIsOne, RetryIsOne
<1>4. Lineage(t) \subseteq X
  BY <1>3 DEF Lineage, Within
<1> QED
  BY <1>1, <1>3, <1>4 DEF OnePerStage

\* No stage is run, and none retried, on packets of two lines: what a process is
\* run on is, for every stage, one packet of each kind, and the closeout and the
\* outcome for which a stage is retried are those of the execution that is tried
\* again (the anchors that controlled_loop_runner_stage_execution_command and
\* controlled_loop_runner_stage_retry_execute_command compare).
THEOREM RunsAreOneLine == Spec => []RunsOnOneLine
<1>1. ASSUME LoopInv PROVE RunsOnOneLine
  <2>1. CASE part \in {"run", "runner"}
    BY <1>1, <2>1 DEF LoopInv, NoRunner, NoStages, RunsOnOneLine
  <2>2. CASE part = "stages"
    BY <1>1, <2>2, RunsAreOne DEF LoopInv, StageInv, StageHolds
  <2> QED
    BY <1>1, <2>1, <2>2 DEF LoopInv
<1> QED
  BY <1>1, LoopKeepsToIt, PTL

\* The runner is started, and a stage run or retried, only in a step in which
\* every operator signature on it holds, that on the task of the second stage
\* too, however long ago the packet that accepted it was printed (controlled_loop_runner_start_approval_blockers,
\* controlled_loop_runner_stage_execution_command).
THEOREM LoopActsWhileApproved == Spec => ActedWhileApproved
<1> DEFINE Starting == \A n \in DOMAIN shelf'["started"] \ Versions("started") :
                         shelf'["started"][n].ok =>
                           {At("sapproval", shelf'["started"][n].has["sapproval"]).has["sign"],
                            At("xapproval", shelf'["started"][n].has["xapproval"]).has["sign"]} \cap lapsed = {}
           Running == \A job \in busy' \ busy : SignaturesOn(job) \intersect lapsed = {}
<1>1. LoopInv /\ [Next]_all => [Starting]_rvars
  BY StepIsApproved
<1>2. LoopInv /\ [Next]_all => [Running]_rtvars
  BY StepIsApproved
<1> QED
  BY <1>1, <1>2, LoopKeepsToIt, PTL DEF Spec, ActedWhileApproved, StartedWhileApproved, RunWhileApproved

\* A retry is run at most once by what its boundary says, the output file and all
\* its terms, whoever repeats the command and whether or not the first one lived
\* to record it; by another boundary the stage may be retried again
\* (controlled_loop_runner_stage_retry_execution_acquire_reservation).
THEOREM RetriesRunOnce == Spec => RetriedOnce
<1> DEFINE Once == \A job \in busy' \ busy : job.kind = "rexec" => Key(job.files, job.n) \notin retried
<1>1. LoopInv /\ [Next]_all => [Once]_rtvars
  BY StepIsApproved
<1> QED
  BY <1>1, LoopKeepsToIt, PTL DEF Spec, RetriedOnce
=============================================================================
