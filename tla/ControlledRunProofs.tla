------------------------ MODULE ControlledRunProofs -------------------------
(***************************************************************************)
(* What a controlled run accepts rests on one version of everything, and   *)
(* fits how its epoch ended.  The shelf only grows: what a packet records  *)
(* of another stays true (FitLasts).  So every packet on it keeps the      *)
(* links that its command looked at (Fits), and links that each compare    *)
(* neighbours only leave one choice of version for every kind (ChainIsOne).*)
(***************************************************************************)
EXTENDS ControlledRun, SequenceTheorems, TLAPS

------------------------------------------------------------------------------
(* The shelf only grows                                                     *)

\* A sequence of whatever it holds.
IsList(s) == s \in Seq({s[i] : i \in DOMAIN s})

LEMMA Listed ==
  ASSUME NEW t, NEW n \in Nat, DOMAIN t = 1 .. n, t = [i \in DOMAIN t |-> t[i]]
  PROVE  IsList(t)
<1>1. t \in [1 .. n -> {t[i] : i \in DOMAIN t}]
  OBVIOUS
<1>2. t \in Seq({t[i] : i \in DOMAIN t})
  BY <1>1
<1> QED
  BY <1>2 DEF IsList

LEMMA OneMore ==
  ASSUME NEW S, NEW s \in Seq(S), NEW e \in S
  PROVE  /\ Len(s) \in Nat /\ DOMAIN s = 1 .. Len(s)
         /\ Append(s, e) \in [1 .. Len(s) + 1 -> S]
         /\ \A i \in 1 .. Len(s) : Append(s, e)[i] = s[i]
         /\ Append(s, e)[Len(s) + 1] = e
<1>1. Append(s, e) \in Seq(S) /\ Len(Append(s, e)) = Len(s) + 1 /\ Append(s, e)[Len(s) + 1] = e
  BY AppendProperties
<1>2. \A i \in 1 .. Len(s) : Append(s, e)[i] = s[i]
  BY AppendProperties
<1>3. Len(s) \in Nat /\ DOMAIN s = 1 .. Len(s)
  BY LenProperties
<1>4. Append(s, e) \in [1 .. Len(s) + 1 -> S]
  BY <1>1, LenProperties
<1> QED
  BY <1>1, <1>2, <1>3, <1>4

LEMMA Appended ==
  ASSUME NEW s, IsList(s), NEW e
  PROVE  /\ IsList(Append(s, e)) /\ Len(s) \in Nat
         /\ DOMAIN s = 1 .. Len(s) /\ DOMAIN Append(s, e) = 1 .. Len(s) + 1
         /\ \A i \in DOMAIN s : Append(s, e)[i] = s[i]
         /\ Append(s, e)[Len(s) + 1] = e
<1> DEFINE T == {s[i] : i \in DOMAIN s}
           S == T \union {e}
<1>1. s \in Seq(S) /\ e \in S
  <2>1. s \in Seq(T)
    BY DEF IsList
  <2>2. Len(s) \in Nat /\ s \in [1 .. Len(s) -> T]
    BY <2>1
  <2>3. s \in [1 .. Len(s) -> S]
    BY <2>2
  <2> QED
    BY <2>2, <2>3
<1> HIDE DEF S
<1>2. /\ Len(s) \in Nat /\ DOMAIN s = 1 .. Len(s)
      /\ Append(s, e) \in [1 .. Len(s) + 1 -> S]
      /\ \A i \in 1 .. Len(s) : Append(s, e)[i] = s[i]
      /\ Append(s, e)[Len(s) + 1] = e
  BY <1>1, OneMore
<1> DEFINE t == Append(s, e)
<1>3. t \in [1 .. Len(s) + 1 -> S] /\ Len(s) + 1 \in Nat
  BY <1>2
<1>4. IsList(t)
  <2> HIDE DEF t
  <2>1. DOMAIN t = 1 .. Len(s) + 1 /\ t = [i \in DOMAIN t |-> t[i]]
    BY <1>3
  <2> QED
    BY <1>3, <2>1, Listed
<1> QED
  BY <1>2, <1>4

LEMMA Altered ==
  ASSUME NEW s, IsList(s), NEW t, DOMAIN t = DOMAIN s, t = [i \in DOMAIN t |-> t[i]]
  PROVE  IsList(t)
<1>1. Len(s) \in Nat /\ DOMAIN s = 1 .. Len(s)
  BY DEF IsList
<1> QED
  BY <1>1, Listed

ShelfOK == Kinds \subseteq DOMAIN shelf /\ \A k \in Kinds : IsList(shelf[k])

\* Whatever is on the shelf stays as it is, but that the record of an invocation
\* is rewritten, in what no checksum of it was taken before.
Lasts(k, n) ==
  /\ n \in DOMAIN shelf'[k] /\ shelf'[k][n].ok = shelf[k][n].ok
  /\ shelf'[k][n].has = shelf[k][n].has /\ shelf'[k][n].epoch = shelf[k][n].epoch
  /\ shelf'[k][n].line = shelf[k][n].line /\ shelf'[k][n].next = shelf[k][n].next
  /\ k # "real" => shelf'[k][n].status = shelf[k][n].status
Grows == \A k \in Kinds : \A n \in DOMAIN shelf[k] : Lasts(k, n)

LEMMA Placed ==
  ASSUME ShelfOK, NEW k \in Kinds, NEW p, shelf' = Place(k, p)
  PROVE  /\ ShelfOK' /\ Grows /\ Len(shelf[k]) \in Nat
         /\ \A j \in Kinds : \A n \in DOMAIN shelf'[j] :
              \/ n \in DOMAIN shelf[j] /\ shelf'[j][n] = shelf[j][n]
              \/ j = k /\ n = Len(shelf[k]) + 1 /\ shelf'[j][n] = p
         /\ DOMAIN shelf[k] = 1 .. Len(shelf[k]) /\ DOMAIN shelf'[k] = 1 .. Len(shelf[k]) + 1
         /\ \A j \in Kinds \ {k} : shelf'[j] = shelf[j]
<1>1. /\ DOMAIN shelf' = DOMAIN shelf /\ shelf'[k] = Append(shelf[k], p)
      /\ \A j \in Kinds \ {k} : shelf'[j] = shelf[j]
  BY DEF ShelfOK, Place
<1>2. LET s == shelf[k] t == Append(s, p) IN
      /\ IsList(t) /\ Len(s) \in Nat /\ DOMAIN s = 1 .. Len(s) /\ DOMAIN t = 1 .. Len(s) + 1
      /\ \A i \in DOMAIN s : t[i] = s[i]
      /\ t[Len(s) + 1] = p
  <2>1. IsList(shelf[k])
    BY DEF ShelfOK
  <2> QED
    BY <2>1, Appended
<1>3. ShelfOK'
  BY <1>1, <1>2 DEF ShelfOK
<1>4. Grows
  BY <1>1, <1>2 DEF Grows, Lasts
<1> QED
  BY <1>1, <1>2, <1>3, <1>4

------------------------------------------------------------------------------
(* What every packet that is accepted names, and how that fits together     *)

\* p names packets of these kinds, all of them accepted.
Names(p, kinds) == DOMAIN p.has = kinds /\ \A j \in kinds : At(j, p.has[j]).ok

StartFits(n, p) == Names(p, {"run_plan"}) /\ p.epoch = n
ReadinessFits(p) ==
  /\ Names(p, {"run_plan", "start"}) /\ p.epoch = p.has["start"]
  /\ p.has["run_plan"] = At("start", p.has["start"]).has["run_plan"]
PlanFits(p) == Names(p, {"readiness"}) /\ p.epoch = At("readiness", p.has["readiness"]).epoch
RealFits(p) == Names(p, {"plan", "result"}) /\ p.epoch = At("plan", p.has["plan"]).epoch
CloseoutFits(p) ==
  /\ Names(p, {"real", "snapshot"} \union (DOMAIN p.has \intersect {"gitplan"}))
  /\ p.epoch = At("real", p.has["real"]).epoch
  /\ p.status \in Statuses /\ p.next = NextDecision(p.status)
CstartFits(p) ==
  /\ Names(p, {"run_plan", "start"})
  /\ p.has["run_plan"] = At("start", p.has["start"]).has["run_plan"]
  /\ p.epoch = At("start", p.has["start"]).epoch
CplanFits(p) ==
  LET start == At("cstart", p.has["cstart"]) ready == At("readiness", p.has["readiness"]) IN
  /\ Names(p, {"cstart", "readiness", "plan"})
  /\ ready.has["run_plan"] = start.has["run_plan"] /\ ready.epoch = start.epoch
  /\ At("plan", p.has["plan"]).has["readiness"] = p.has["readiness"] /\ p.epoch = start.epoch
CrealFits(p) ==
  LET plan == At("cplan", p.has["cplan"]) real == At("real", p.has["real"]) IN
  /\ Names(p, {"cplan", "real", "plan", "result"})
  /\ p.has["plan"] = plan.has["plan"] /\ real.has["plan"] = plan.has["plan"]
  /\ p.has["result"] = real.has["result"] /\ p.epoch = plan.epoch
CcloseFits(p) ==
  LET real == At("creal", p.has["creal"]) closeout == At("closeout", p.has["closeout"]) IN
  /\ Names(p, {"creal", "closeout"})
  /\ closeout.has["real"] = real.has["real"] /\ closeout.epoch = real.epoch
  /\ closeout.status \in Terminal /\ p.epoch = real.epoch
TickFits(p) ==
  LET closeout == At("closeout", p.has["closeout"]) IN
  /\ Names(p, {"run_plan", "start", "readiness", "plan", "real", "result", "snapshot", "closeout"}
              \union (DOMAIN p.has \intersect {"gitplan"}))
  /\ closeout.has["real"] = p.has["real"] /\ closeout.has["snapshot"] = p.has["snapshot"]
  /\ "gitplan" \in DOMAIN p.has =>
       "gitplan" \in DOMAIN closeout.has /\ closeout.has["gitplan"] = p.has["gitplan"]
  /\ p.status = closeout.next
SummaryFits(p) ==
  LET start == At("cstart", p.has["cstart"]) plan == At("cplan", p.has["cplan"])
      real == At("creal", p.has["creal"]) close == At("cclose", p.has["cclose"])
      tick == At("tick", p.has["tick"])
  IN
  /\ Names(p, SummaryKinds)
  /\ start.has["run_plan"] = p.has["run_plan"] /\ plan.has["cstart"] = p.has["cstart"]
  /\ real.has["cplan"] = p.has["cplan"] /\ close.has["creal"] = p.has["creal"]
  /\ tick.has["run_plan"] = p.has["run_plan"] /\ tick.has["start"] = start.has["start"]
  /\ tick.has["readiness"] = plan.has["readiness"] /\ tick.has["plan"] = plan.has["plan"]
  /\ tick.has["result"] = real.has["result"] /\ tick.has["closeout"] = close.has["closeout"]
OutcomeFits(p) ==
  LET close == At("cclose", p.has["cclose"]) tick == At("tick", p.has["tick"])
      summary == At("summary", p.has["summary"])
  IN
  /\ Names(p, {"summary", "cclose", "tick"})
  /\ summary.has["cclose"] = p.has["cclose"] /\ summary.has["tick"] = p.has["tick"]
  /\ p.epoch = close.epoch
  /\ tick.has["closeout"] = close.has["closeout"]
  /\ p.next \in {"run_git_pr_plan", "request_git_pr_materialization_approval"}
       <=> tick.status = "generate_git_pr_plan"

\* The kinds that name no other packet.
Plain == {"run_plan", "result", "snapshot", "gitplan"}
Linked(k, n, p) ==
  /\ k \in Plain => DOMAIN p.has = {}
  /\ k = "start" => StartFits(n, p)
  /\ k = "readiness" => ReadinessFits(p)
  /\ k = "plan" => PlanFits(p)
  /\ k = "real" => RealFits(p)
  /\ k = "closeout" => CloseoutFits(p)
  /\ k = "cstart" => CstartFits(p)
  /\ k = "cplan" => CplanFits(p)
  /\ k = "creal" => CrealFits(p)
  /\ k = "cclose" => CcloseFits(p)
  /\ k = "tick" => TickFits(p)
  /\ k = "summary" => SummaryFits(p)
  /\ k = "outcome" => OutcomeFits(p)

\* The real files are never blocked packets.
RealFiles == {"start", "readiness", "plan", "result", "real", "snapshot", "gitplan", "closeout"}

\* What p, as version n of kind k, must be.
Fits(k, n, p) ==
  /\ p.ok \in BOOLEAN /\ DOMAIN p.has \subseteq Kinds
  /\ \A j \in DOMAIN p.has : p.has[j] \in Versions(j)
  /\ k \in RealFiles => p.ok
  /\ p.ok => p.line \subseteq Lineage(p.has) /\ Linked(k, n, p)

AllFit == \A k \in Kinds : \A n \in Versions(k) : \A p \in {At(k, n)} : Fits(k, n, p)

\* What a packet names goes on to say the same, so that it goes on to fit.
LEMMA LineageLasts ==
  ASSUME NEW from, \A j \in DOMAIN from : Lasts(j, from[j])
  PROVE  Lineage(from)' = Lineage(from)
<1>1. \A j \in DOMAIN from : shelf'[j][from[j]].line = shelf[j][from[j]].line
  BY DEF Lasts
<1> QED
  BY <1>1 DEF Lineage, At

LEMMA FitLasts ==
  ASSUME Grows, NEW k \in Kinds, NEW n, NEW p, Fits(k, n, p)
  PROVE  Fits(k, n, p)'
<1>1. \A j \in DOMAIN p.has : Lasts(j, p.has[j])
  BY DEF Fits, Grows, Versions
<1>2. /\ p.ok \in BOOLEAN /\ DOMAIN p.has \subseteq Kinds /\ k \in RealFiles => p.ok
      /\ \A j \in DOMAIN p.has : p.has[j] \in Versions(j)'
  BY <1>1 DEF Fits, Lasts, Versions
<1>3. ASSUME p.ok PROVE p.line \subseteq Lineage(p.has)'
  BY <1>1, <1>3, LineageLasts DEF Fits
<1>4. ASSUME p.ok PROVE Linked(k, n, p)'
  <2>0. Linked(k, n, p)
    BY <1>4 DEF Fits
  <2> DEFINE J == DOMAIN p.has
  <2>n. ASSUME NEW kinds, Names(p, kinds)
        PROVE  Names(p, kinds)' /\ DOMAIN p.has = kinds /\ \A j \in kinds : Lasts(j, p.has[j])
    BY <1>1, <2>n DEF Names, Lasts, At
  <2>1. ASSUME k = "start" PROVE StartFits(n, p)'
    <3>1. StartFits(n, p)
      BY <2>0, <2>1 DEF Linked
    <3> QED
      BY <3>1, <2>n DEF StartFits, Lasts, At
  <2>2. ASSUME k = "readiness" PROVE ReadinessFits(p)'
    <3>1. ReadinessFits(p)
      BY <2>0, <2>2 DEF Linked
    <3> QED
      BY <3>1, <2>n DEF ReadinessFits, Lasts, At
  <2>3. ASSUME k = "plan" PROVE PlanFits(p)'
    <3>1. PlanFits(p)
      BY <2>0, <2>3 DEF Linked
    <3> QED
      BY <3>1, <2>n DEF PlanFits, Lasts, At
  <2>4. ASSUME k = "real" PROVE RealFits(p)'
    <3>1. RealFits(p)
      BY <2>0, <2>4 DEF Linked
    <3> QED
      BY <3>1, <2>n DEF RealFits, Lasts, At
  <2>5. ASSUME k = "closeout" PROVE CloseoutFits(p)'
    <3>1. CloseoutFits(p)
      BY <2>0, <2>5 DEF Linked
    <3> QED
      BY <3>1, <2>n DEF CloseoutFits, Lasts, At
  <2>6. ASSUME k = "cstart" PROVE CstartFits(p)'
    <3>1. CstartFits(p)
      BY <2>0, <2>6 DEF Linked
    <3> QED
      BY <3>1, <2>n DEF CstartFits, Lasts, At
  <2>7. ASSUME k = "cplan" PROVE CplanFits(p)'
    <3>1. CplanFits(p)
      BY <2>0, <2>7 DEF Linked
    <3> QED
      BY <3>1, <2>n DEF CplanFits, Lasts, At
  <2>8. ASSUME k = "creal" PROVE CrealFits(p)'
    <3>1. CrealFits(p)
      BY <2>0, <2>8 DEF Linked
    <3> QED
      BY <3>1, <2>n DEF CrealFits, Lasts, At
  <2>9. ASSUME k = "cclose" PROVE CcloseFits(p)'
    <3>1. CcloseFits(p)
      BY <2>0, <2>9 DEF Linked
    <3> QED
      BY <3>1, <2>n DEF CcloseFits, Lasts, At
  <2>10. ASSUME k = "tick" PROVE TickFits(p)'
    <3>1. TickFits(p)
      BY <2>0, <2>10 DEF Linked
    <3> QED
      BY <3>1, <2>n DEF TickFits, Lasts, At
  <2>11. ASSUME k = "summary" PROVE SummaryFits(p)'
    <3>1. SummaryFits(p)
      BY <2>0, <2>11 DEF Linked
    <3> QED
      BY <3>1, <2>n DEF SummaryFits, SummaryKinds, Lasts, At
  <2>12. ASSUME k = "outcome" PROVE OutcomeFits(p)'
    <3>1. OutcomeFits(p)
      BY <2>0, <2>12 DEF Linked
    <3> QED
      BY <3>1, <2>n DEF OutcomeFits, Lasts, At
  <2> QED
    BY <2>0, <2>1, <2>2, <2>3, <2>4, <2>5, <2>6, <2>7, <2>8, <2>9, <2>10, <2>11, <2>12 DEF Linked
<1> QED
  BY <1>2, <1>3, <1>4 DEF Fits

LEMMA PlacedFits ==
  ASSUME ShelfOK, AllFit, NEW k \in Kinds, NEW p, shelf' = Place(k, p),
         Fits(k, Len(shelf[k]) + 1, p)
  PROVE  ShelfOK' /\ AllFit'
<1>1. ShelfOK' /\ Grows
  BY Placed
<1>2. \A j \in Kinds : \A n \in DOMAIN shelf'[j] :
        \/ n \in DOMAIN shelf[j] /\ shelf'[j][n] = shelf[j][n]
        \/ j = k /\ n = Len(shelf[k]) + 1 /\ shelf'[j][n] = p
  BY Placed
<1>3. ASSUME NEW j \in Kinds, NEW n \in DOMAIN shelf'[j], NEW q, q = shelf'[j][n]
      PROVE  Fits(j, n, q)'
  <2>1. Fits(j, n, q)
    BY <1>2, <1>3 DEF AllFit, Versions, At
  <2> QED
    BY <1>1, <2>1, FitLasts
<1> QED
  BY <1>1, <1>3 DEF AllFit, Versions, At

LEMMA BlockedFits ==
  ASSUME NEW k \in Kinds \ RealFiles, NEW n, NEW next
  PROVE  Fits(k, n, Blocked(next))
<1> DEFINE p == Blocked(next)
<1>1. p.ok = FALSE /\ p.has = <<>>
  BY DEF Blocked
<1>2. DOMAIN p.has = {}
  BY <1>1
<1> QED
  BY <1>1, <1>2 DEF Fits

LEMMA Answered ==
  ASSUME ShelfOK, AllFit, NEW k \in Kinds \ RealFiles, NEW codes, NEW accepted, NEW table, NEW other,
         Answer(k, codes, accepted, table, other),
         codes = {} => Fits(k, Len(shelf[k]) + 1, accepted)
  PROVE  ShelfOK' /\ AllFit'
<1>1. PICK p : shelf' = Place(k, p) /\ Fits(k, Len(shelf[k]) + 1, p)
  BY BlockedFits DEF Answer, Reply, Issue
<1> QED
  BY <1>1, PlacedFits

------------------------------------------------------------------------------
(* One chain: what an outcome plan reaches, it reaches in one version       *)

\* All packets on the line are the versions that of gives.
One(line, of) == \A q \in line : q = <<q[1], of[q[1]]>>

LEMMA OnLine ==
  ASSUME AllFit, NEW of, NEW k \in Kinds, NEW n \in Versions(k), At(k, n).ok,
         \A j \in DOMAIN At(k, n).has : At(k, n).has[j] = of[j] /\ One(At(j, of[j]).line, of)
  PROVE  One(At(k, n).line, of)
<1> DEFINE has == At(k, n).has
<1>1. At(k, n).line \subseteq Lineage(has)
  BY DEF AllFit, Fits
<1>2. \A q \in Lineage(has) : \E j \in DOMAIN has : q \in At(j, has[j]).line \/ q = <<j, has[j]>>
  BY DEF Lineage
<1>3. ASSUME NEW q \in Lineage(has) PROVE q = <<q[1], of[q[1]]>>
  BY <1>2, <1>3 DEF One
<1> QED
  BY <1>1, <1>3 DEF One

LEMMA Fitted ==
  ASSUME AllFit, NEW k \in Kinds, NEW n \in Versions(k), At(k, n).ok
  PROVE  /\ Linked(k, n, At(k, n)) /\ DOMAIN At(k, n).has \subseteq Kinds
         /\ \A j \in DOMAIN At(k, n).has : At(k, n).has[j] \in Versions(j)
  BY DEF AllFit, Fits

\* A packet that is accepted is of its kind, and so are those it names.
Accepts(k, n) == n \in Versions(k) /\ At(k, n).ok
LEMMA Reaches ==
  ASSUME AllFit, NEW k \in Kinds, NEW n, Accepts(k, n), NEW kinds, Names(At(k, n), kinds)
  PROVE  \A j \in kinds : Accepts(j, At(k, n).has[j])
  BY Fitted DEF Names, Accepts

LEMMA FitsItsKind ==
  ASSUME AllFit, NEW n
  PROVE  /\ \A k \in Plain : Accepts(k, n) => DOMAIN At(k, n).has = {}
         /\ Accepts("start", n) => StartFits(n, At("start", n))
         /\ Accepts("readiness", n) => ReadinessFits(At("readiness", n))
         /\ Accepts("plan", n) => PlanFits(At("plan", n))
         /\ Accepts("real", n) => RealFits(At("real", n))
         /\ Accepts("closeout", n) => CloseoutFits(At("closeout", n))
         /\ Accepts("cstart", n) => CstartFits(At("cstart", n))
         /\ Accepts("cplan", n) => CplanFits(At("cplan", n))
         /\ Accepts("creal", n) => CrealFits(At("creal", n))
         /\ Accepts("cclose", n) => CcloseFits(At("cclose", n))
         /\ Accepts("tick", n) => TickFits(At("tick", n))
         /\ Accepts("summary", n) => SummaryFits(At("summary", n))
         /\ Accepts("outcome", n) => OutcomeFits(At("outcome", n))
<1>1. \A k \in Kinds : Accepts(k, n) => Linked(k, n, At(k, n))
  BY Fitted DEF Accepts
<1>2. \A k \in Plain : Accepts(k, n) => DOMAIN At(k, n).has = {}
  BY <1>1 DEF Plain, Kinds, Linked
<1>3. Accepts("start", n) => StartFits(n, At("start", n))
  BY <1>1 DEF Kinds, Linked
<1>4. Accepts("readiness", n) => ReadinessFits(At("readiness", n))
  BY <1>1 DEF Kinds, Linked
<1>5. Accepts("plan", n) => PlanFits(At("plan", n))
  BY <1>1 DEF Kinds, Linked
<1>6. Accepts("real", n) => RealFits(At("real", n))
  BY <1>1 DEF Kinds, Linked
<1>7. Accepts("closeout", n) => CloseoutFits(At("closeout", n))
  BY <1>1 DEF Kinds, Linked
<1>8. Accepts("cstart", n) => CstartFits(At("cstart", n))
  BY <1>1 DEF Kinds, Linked
<1>9. Accepts("cplan", n) => CplanFits(At("cplan", n))
  BY <1>1 DEF Kinds, Linked
<1>10. Accepts("creal", n) => CrealFits(At("creal", n))
  BY <1>1 DEF Kinds, Linked
<1>11. Accepts("cclose", n) => CcloseFits(At("cclose", n))
  BY <1>1 DEF Kinds, Linked
<1>12. Accepts("tick", n) => TickFits(At("tick", n))
  BY <1>1 DEF Kinds, Linked
<1>13. Accepts("summary", n) => SummaryFits(At("summary", n))
  BY <1>1 DEF Kinds, Linked
<1>14. Accepts("outcome", n) => OutcomeFits(At("outcome", n))
  BY <1>1 DEF Kinds, Linked
<1> QED
  BY <1>2, <1>3, <1>4, <1>5, <1>6, <1>7, <1>8, <1>9, <1>10, <1>11, <1>12, <1>13, <1>14

LEMMA ChainIsOne ==
  ASSUME AllFit
  PROVE  OneChain
<1> SUFFICES ASSUME NEW n \in Versions("outcome"), At("outcome", n).ok
             PROVE  OneLine(At("outcome", n))
  BY DEF OneChain
<1> DEFINE o == At("outcome", n)
           s == o.has["summary"]
           c == o.has["cclose"]
           t == o.has["tick"]
           R == At("cclose", c).has["creal"]
           K == At("cclose", c).has["closeout"]
           P == At("creal", R).has["cplan"]
           i == At("creal", R).has["real"]
           u == At("creal", R).has["result"]
           S == At("cplan", P).has["cstart"]
           r == At("cplan", P).has["readiness"]
           m == At("cplan", P).has["plan"]
           p == At("cstart", S).has["run_plan"]
           e == At("cstart", S).has["start"]
           w == At("closeout", K).has["snapshot"]
           g == At("closeout", K).has["gitplan"]
<1>n. /\ o.has["summary"] = s /\ o.has["cclose"] = c /\ o.has["tick"] = t
      /\ At("cclose", c).has["creal"] = R /\ At("cclose", c).has["closeout"] = K
      /\ At("creal", R).has["cplan"] = P /\ At("creal", R).has["real"] = i
      /\ At("creal", R).has["result"] = u /\ At("cplan", P).has["cstart"] = S
      /\ At("cplan", P).has["readiness"] = r /\ At("cplan", P).has["plan"] = m
      /\ At("cstart", S).has["run_plan"] = p /\ At("cstart", S).has["start"] = e
      /\ At("closeout", K).has["snapshot"] = w /\ At("closeout", K).has["gitplan"] = g
  OBVIOUS
<1>1. OutcomeFits(o)
  BY FitsItsKind DEF Accepts
<1>2. Accepts("summary", s) /\ Accepts("cclose", c) /\ Accepts("tick", t)
  <2>1. \A j \in {"summary", "cclose", "tick"} : Accepts(j, o.has[j])
    BY <1>1, Reaches DEF OutcomeFits, Kinds, Accepts
  <2> QED
    BY <2>1
<1> HIDE DEF s, c, t, R, K, P, i, u, S, r, m, p, e, w, g
<1>3. SummaryFits(At("summary", s)) /\ CcloseFits(At("cclose", c)) /\ TickFits(At("tick", t))
  BY <1>2, FitsItsKind
<1>4. Accepts("creal", R) /\ Accepts("closeout", K)
  <2>1. \A j \in {"creal", "closeout"} : Accepts(j, At("cclose", c).has[j])
    BY <1>2, <1>3, Reaches DEF CcloseFits, Kinds
  <2> QED
    BY <1>n, <2>1
<1>5. CrealFits(At("creal", R)) /\ CloseoutFits(At("closeout", K))
  BY <1>4, FitsItsKind
<1>6. Accepts("cplan", P) /\ Accepts("real", i) /\ Accepts("result", u)
  <2>1. \A j \in {"cplan", "real", "plan", "result"} : Accepts(j, At("creal", R).has[j])
    BY <1>4, <1>5, Reaches DEF CrealFits, Kinds
  <2> QED
    BY <1>n, <2>1
<1>7. Accepts("snapshot", w) /\ ("gitplan" \in DOMAIN At("closeout", K).has => Accepts("gitplan", g))
  <2>1. \A j \in {"real", "snapshot"} \union (DOMAIN At("closeout", K).has \intersect {"gitplan"}) :
          Accepts(j, At("closeout", K).has[j])
    BY <1>4, <1>5, Reaches DEF CloseoutFits, Kinds
  <2> QED
    BY <1>n, <2>1
<1>8. CplanFits(At("cplan", P)) /\ RealFits(At("real", i))
  BY <1>6, FitsItsKind
<1>9. Accepts("cstart", S) /\ Accepts("readiness", r) /\ Accepts("plan", m)
  <2>1. \A j \in {"cstart", "readiness", "plan"} : Accepts(j, At("cplan", P).has[j])
    BY <1>6, <1>8, Reaches DEF CplanFits, Kinds
  <2> QED
    BY <1>n, <2>1
<1>10. CstartFits(At("cstart", S)) /\ ReadinessFits(At("readiness", r)) /\ PlanFits(At("plan", m))
  BY <1>9, FitsItsKind
<1>11. Accepts("run_plan", p) /\ Accepts("start", e)
  <2>1. \A j \in {"run_plan", "start"} : Accepts(j, At("cstart", S).has[j])
    BY <1>9, <1>10, Reaches DEF CstartFits, Kinds
  <2> QED
    BY <1>n, <2>1
<1>12. StartFits(e, At("start", e))
  BY <1>11, FitsItsKind
<1> DEFINE of == [summary |-> s, cclose |-> c, tick |-> t, creal |-> R, cplan |-> P, cstart |-> S,
                  closeout |-> K, real |-> i, run_plan |-> p, start |-> e, readiness |-> r,
                  plan |-> m, result |-> u, snapshot |-> w, gitplan |-> g]
           Put(k) == One(At(k, of[k]).line, of)
           Apart(k) == \A j \in DOMAIN At(k, of[k]).has : At(k, of[k]).has[j] = of[j] /\ Put(j)
<1>o. /\ of["summary"] = s /\ of["cclose"] = c /\ of["tick"] = t /\ of["creal"] = R
      /\ of["cplan"] = P /\ of["cstart"] = S /\ of["closeout"] = K /\ of["real"] = i
      /\ of["run_plan"] = p /\ of["start"] = e /\ of["readiness"] = r /\ of["plan"] = m
      /\ of["result"] = u /\ of["snapshot"] = w /\ of["gitplan"] = g
  OBVIOUS
<1> HIDE DEF of
<1>p. ASSUME NEW k \in Kinds, Accepts(k, of[k]), Apart(k) PROVE Put(k)
  BY <1>p, OnLine DEF Accepts
<1>x. ASSUME NEW k \in Plain, Accepts(k, of[k]) PROVE Put(k)
  <2>1. k \in Kinds /\ DOMAIN At(k, of[k]).has = {}
    BY <1>x, FitsItsKind DEF Plain, Kinds
  <2> QED
    BY <1>x, <2>1, <1>p
<1>13. Put("run_plan") /\ Put("result") /\ Put("snapshot")
       /\ ("gitplan" \in DOMAIN At("closeout", K).has => Put("gitplan"))
  <2> HIDE DEF Put
  <2> QED
    BY <1>o, <1>x, <1>6, <1>7, <1>11 DEF Plain
<1>14. Put("start")
  <2>1. Apart("start")
    <3> HIDE DEF Put
    <3> QED
      BY <1>n, <1>o, <1>10, <1>12, <1>13 DEF StartFits, CstartFits, Names
  <2> QED
    BY <1>o, <1>p, <1>11, <2>1 DEF Kinds
<1>15. Put("readiness")
  <2>1. Apart("readiness")
    <3> HIDE DEF Put
    <3> QED
      BY <1>n, <1>o, <1>8, <1>10, <1>12, <1>13, <1>14 DEF StartFits, CstartFits, CplanFits, ReadinessFits, Names
  <2> QED
    BY <1>o, <1>p, <1>9, <2>1 DEF Kinds
<1>16. Put("plan")
  <2>1. Apart("plan")
    <3> HIDE DEF Put
    <3> QED
      BY <1>n, <1>o, <1>8, <1>10, <1>15 DEF CplanFits, PlanFits, Names
  <2> QED
    BY <1>o, <1>p, <1>9, <2>1 DEF Kinds
<1>17. Put("real")
  <2>1. Apart("real")
    <3> HIDE DEF Put
    <3> QED
      BY <1>n, <1>o, <1>5, <1>8, <1>13, <1>16 DEF RealFits, CrealFits, Names
  <2> QED
    BY <1>o, <1>p, <1>6, <2>1 DEF Kinds
<1>18. Put("closeout")
  <2>1. Apart("closeout")
    <3> HIDE DEF Put
    <3> QED
      BY <1>n, <1>o, <1>3, <1>5, <1>13, <1>17 DEF CloseoutFits, CcloseFits, Names
  <2> QED
    BY <1>o, <1>p, <1>4, <2>1 DEF Kinds
<1>19. Put("cstart")
  <2>1. Apart("cstart")
    <3> HIDE DEF Put
    <3> QED
      BY <1>n, <1>o, <1>10, <1>13, <1>14 DEF CstartFits, Names
  <2> QED
    BY <1>o, <1>p, <1>9, <2>1 DEF Kinds
<1>20. Put("cplan")
  <2>1. Apart("cplan")
    <3> HIDE DEF Put
    <3> QED
      BY <1>n, <1>o, <1>8, <1>15, <1>16, <1>19 DEF CplanFits, Names
  <2> QED
    BY <1>o, <1>p, <1>6, <2>1 DEF Kinds
<1>21. Put("creal")
  <2>1. Apart("creal")
    <3> HIDE DEF Put
    <3> QED
      BY <1>n, <1>o, <1>5, <1>13, <1>16, <1>17, <1>20 DEF CrealFits, Names
  <2> QED
    BY <1>o, <1>p, <1>4, <2>1 DEF Kinds
<1>22. Put("cclose")
  <2>1. Apart("cclose")
    <3> HIDE DEF Put
    <3> QED
      BY <1>n, <1>o, <1>3, <1>18, <1>21 DEF CcloseFits, Names
  <2> QED
    BY <1>o, <1>p, <1>2, <2>1 DEF Kinds
<1>23. /\ At("summary", s).has["cclose"] = c /\ At("summary", s).has["creal"] = R
       /\ At("summary", s).has["cplan"] = P /\ At("summary", s).has["cstart"] = S
       /\ At("summary", s).has["run_plan"] = p /\ At("summary", s).has["tick"] = t
       /\ At("tick", t).has["run_plan"] = p /\ At("tick", t).has["start"] = e
       /\ At("tick", t).has["readiness"] = r /\ At("tick", t).has["plan"] = m
       /\ At("tick", t).has["result"] = u /\ At("tick", t).has["closeout"] = K
  BY <1>n, <1>1, <1>3 DEF SummaryFits, OutcomeFits
<1>24. Put("tick")
  <2>1. Apart("tick")
    <3>1. /\ At("tick", t).has["real"] = i /\ At("tick", t).has["snapshot"] = w
          /\ "gitplan" \in DOMAIN At("tick", t).has =>
               "gitplan" \in DOMAIN At("closeout", K).has /\ At("tick", t).has["gitplan"] = g
      BY <1>n, <1>3, <1>23 DEF TickFits, CcloseFits
    <3>2. \A j \in DOMAIN At("tick", t).has :
            j \in {"run_plan", "start", "readiness", "plan", "real", "result", "snapshot", "closeout",
                   "gitplan"}
      BY <1>3 DEF TickFits, Names
    <3> HIDE DEF Put
    <3> QED
      BY <1>o, <1>13, <1>14, <1>15, <1>16, <1>17, <1>18, <1>23, <3>1, <3>2
  <2> QED
    BY <1>o, <1>p, <1>2, <2>1 DEF Kinds
<1>25. Put("summary")
  <2>1. Apart("summary")
    <3> HIDE DEF Put
    <3> QED
      BY <1>o, <1>3, <1>13, <1>19, <1>20, <1>21, <1>22, <1>23, <1>24 DEF SummaryFits, SummaryKinds, Names
  <2> QED
    BY <1>o, <1>p, <1>2, <2>1 DEF Kinds
<1>26. One(o.line, of)
  <2>1. \A j \in DOMAIN o.has : o.has[j] = of[j] /\ Put(j)
    <3> HIDE DEF Put
    <3> QED
      BY <1>n, <1>o, <1>1, <1>22, <1>24, <1>25 DEF OutcomeFits, Names
  <2> QED
    BY <2>1, OnLine DEF Kinds
<1> QED
  BY <1>26 DEF One, OneLine

------------------------------------------------------------------------------
(* Every command keeps what fits                                            *)

\* The fields by which a packet fits.
Alike(k, p, q) ==
  /\ q.ok = p.ok /\ q.has = p.has /\ q.epoch = p.epoch /\ q.line = p.line /\ q.next = p.next
  /\ k # "real" => q.status = p.status

LEMMA AlikeFits ==
  ASSUME NEW k \in Kinds, NEW n, NEW p, NEW q, Alike(k, p, q), Fits(k, n, p)'
  PROVE  Fits(k, n, q)'
<1>1. p.ok => Linked(k, n, q)'
  BY DEF Alike, Fits, Linked, Names, StartFits, ReadinessFits, PlanFits, RealFits, CloseoutFits, CstartFits,
         CplanFits, CrealFits, CcloseFits, TickFits, SummaryFits, OutcomeFits
<1> QED
  BY <1>1 DEF Alike, Fits

LEMMA GrowFits ==
  ASSUME AllFit, Kinds \subseteq DOMAIN shelf', \A k \in Kinds : IsList(shelf'[k]), Grows,
         \A k \in Kinds : \A n \in DOMAIN shelf'[k] : \A q :
           q = shelf'[k][n] => (n \in DOMAIN shelf[k] /\ Alike(k, shelf[k][n], q)) \/ Fits(k, n, q)'
  PROVE  ShelfOK' /\ AllFit'
<1>1. ASSUME NEW k \in Kinds, NEW n \in DOMAIN shelf'[k], NEW q, q = shelf'[k][n]
      PROVE  Fits(k, n, q)'
  <2>1. ASSUME NEW p, p = shelf[k][n], n \in DOMAIN shelf[k], Alike(k, p, q) PROVE Fits(k, n, q)'
    <3>1. Fits(k, n, p)
      BY <2>1 DEF AllFit, Versions, At
    <3> QED
      BY <2>1, <3>1, FitLasts, AlikeFits
  <2> QED
    BY <1>1, <2>1
<1> QED
  BY <1>1 DEF ShelfOK, AllFit, Versions, At

LEMMA PlainFits ==
  ASSUME NEW k \in Plain, NEW n, NEW p, p.ok = TRUE, p.has = <<>>, p.line = {}
  PROVE  Fits(k, n, p)
<1>1. DOMAIN p.has = {}
  OBVIOUS
<1> QED
  BY <1>1 DEF Fits, Linked, Plain, Lineage

LEMMA Blank ==
  ASSUME NEW next, NEW epoch, NEW status
  PROVE  LET p == Accepted(next, <<>>, epoch, status)
         IN  p.ok = TRUE /\ p.has = <<>> /\ p.line = {} /\ DOMAIN p.has = {}
<1>1. DOMAIN <<>> = {}
  OBVIOUS
<1>2. Lineage(<<>>) = {}
  BY <1>1 DEF Lineage
<1> QED
  BY <1>1, <1>2 DEF Accepted

LEMMA RunPlanFits ==
  ASSUME ShelfOK, AllFit, RunPlan
  PROVE  ShelfOK' /\ AllFit'
<1>1. PICK next :
        shelf' = Place("run_plan", [Accepted(next, <<>>, 0, "planned") EXCEPT
                                      !.ok = next = "request_operator_approval"])
  BY DEF RunPlan, Issue
<1> DEFINE p == [Accepted(next, <<>>, 0, "planned") EXCEPT !.ok = next = "request_operator_approval"]
<1>2. p.ok \in BOOLEAN /\ p.has = <<>> /\ p.line = {} /\ DOMAIN p.has = {}
  BY Blank DEF Accepted
<1>3. Fits("run_plan", Len(shelf["run_plan"]) + 1, p)
  <2> HIDE DEF p
  <2> QED
    BY <1>2 DEF Fits, Linked, RealFiles, Lineage
<1> QED
  BY <1>1, <1>3, PlacedFits DEF Kinds

LEMMA StartRunFits ==
  ASSUME ShelfOK, AllFit, NEW task \in Versions("run_plan"), StartRun(task)
  PROVE  ShelfOK' /\ AllFit'
<1> DEFINE n == Len(shelf["start"]) + 1
           has == [run_plan |-> task]
           p == Accepted("", has, n, "started")
<1>1. shelf' = Place("start", p)
  BY DEF StartRun, Issue
<1>2. p.ok = TRUE /\ p.has = has /\ p.line = Lineage(has) /\ p.epoch = n
  BY DEF Accepted
<1>3. Fits("start", n, p)
  <2>1. DOMAIN has = {"run_plan"} /\ has["run_plan"] = task
    OBVIOUS
  <2> HIDE DEF p, has
  <2> QED
    BY <1>2, <2>1 DEF Fits, Linked, StartFits, Names, StartRun, Kinds, Plain
<1> QED
  BY <1>1, <1>3, PlacedFits DEF Kinds

LEMMA FileOk ==
  ASSUME AllFit, NEW k \in RealFiles, NEW n \in Versions(k)
  PROVE  Accepts(k, n)
  BY DEF AllFit, Fits, Accepts, RealFiles, Kinds

LEMMA GetReadyFits ==
  ASSUME ShelfOK, AllFit, NEW s \in Versions("start"), GetReady(s)
  PROVE  ShelfOK' /\ AllFit'
<1> DEFINE n == Len(shelf["readiness"]) + 1
           has == [run_plan |-> At("start", s).has["run_plan"], start |-> s]
           p == Accepted("", has, s, "ready")
<1>1. shelf' = Place("readiness", p)
  BY DEF GetReady, Issue
<1>2. p.ok = TRUE /\ p.has = has /\ p.line = Lineage(has) /\ p.epoch = s
  BY DEF Accepted
<1>3. Accepts("start", s)
  BY FileOk DEF RealFiles
<1>4. Accepts("run_plan", At("start", s).has["run_plan"])
  BY <1>3, FitsItsKind, Reaches DEF StartFits, Kinds
<1>5. Fits("readiness", n, p)
  <2>1. DOMAIN has = {"run_plan", "start"} /\ has["start"] = s
        /\ has["run_plan"] = At("start", s).has["run_plan"]
    OBVIOUS
  <2> HIDE DEF p, has
  <2> QED
    BY <1>2, <1>3, <1>4, <2>1 DEF Fits, Linked, ReadinessFits, Names, Accepts, Kinds, Plain
<1> QED
  BY <1>1, <1>5, PlacedFits DEF Kinds

LEMMA PlanKeepsFit ==
  ASSUME ShelfOK, AllFit, NEW r \in Versions("readiness"), Plan(r)
  PROVE  ShelfOK' /\ AllFit'
<1> DEFINE n == Len(shelf["plan"]) + 1
           has == [readiness |-> r]
           p == Accepted("", has, At("readiness", r).epoch, "planned")
<1>1. shelf' = Place("plan", p)
  BY DEF Plan, Issue
<1>2. p.ok = TRUE /\ p.has = has /\ p.line = Lineage(has) /\ p.epoch = At("readiness", r).epoch
  BY DEF Accepted
<1>3. Accepts("readiness", r)
  BY FileOk DEF RealFiles
<1>4. Fits("plan", n, p)
  <2>1. DOMAIN has = {"readiness"} /\ has["readiness"] = r
    OBVIOUS
  <2> HIDE DEF p, has
  <2> QED
    BY <1>2, <1>3, <2>1 DEF Fits, Linked, PlanFits, Names, Accepts, Kinds, Plain
<1> QED
  BY <1>1, <1>4, PlacedFits DEF Kinds

LEMMA SnapshotFits ==
  ASSUME ShelfOK, AllFit, Snapshot \/ GitPlan
  PROVE  ShelfOK' /\ AllFit'
<1>1. PICK k, p : k \in {"snapshot", "gitplan"} /\ shelf' = Place(k, p)
                      /\ p.ok = TRUE /\ p.has = <<>> /\ p.line = {}
  BY Blank DEF Snapshot, GitPlan, Issue
<1>2. Fits(k, Len(shelf[k]) + 1, p)
  BY <1>1, PlainFits DEF Plain
<1> QED
  BY <1>1, <1>2, PlacedFits DEF Kinds

LEMMA RunFits ==
  ASSUME ShelfOK, AllFit, NEW n \in Versions("plan"), Run(n)
  PROVE  ShelfOK' /\ AllFit'
<1>v. PICK v, has, p, q :
        /\ v = Len(shelf["result"]) + 1 /\ has = [plan |-> n, result |-> v]
        /\ p = [ok |-> TRUE, next |-> "bind_real_executor_closeout", has |-> has,
                epoch |-> At("plan", n).epoch, status |-> "pending", now |-> v, bound |-> 0,
                line |-> Lineage([plan |-> n]) \union {<<"result", v>>}]
        /\ q = Accepted("", <<>>, 0, "succeeded")
  OBVIOUS
<1>w. v = Len(shelf["result"]) + 1
  BY <1>v
<1>k. "real" \in Kinds /\ "result" \in Kinds /\ "plan" \in Kinds
  BY DEF Kinds
<1> DEFINE real == Append(shelf["real"], p)
           result == Append(shelf["result"], q)
<1>1. shelf' = [shelf EXCEPT !["real"] = real, !["result"] = result]
  BY <1>v DEF Run
<1>2. /\ IsList(real) /\ Len(shelf["real"]) \in Nat
      /\ DOMAIN shelf["real"] = 1 .. Len(shelf["real"])
      /\ DOMAIN real = 1 .. Len(shelf["real"]) + 1
      /\ \A i \in DOMAIN shelf["real"] : real[i] = shelf["real"][i]
      /\ real[Len(shelf["real"]) + 1] = p
  <2>1. IsList(shelf["real"])
    BY DEF ShelfOK, Kinds
  <2> QED
    BY <2>1, Appended
<1>3. /\ IsList(result) /\ Len(shelf["result"]) \in Nat
      /\ DOMAIN shelf["result"] = 1 .. Len(shelf["result"]) /\ DOMAIN result = 1 .. v
      /\ \A i \in DOMAIN shelf["result"] : result[i] = shelf["result"][i]
      /\ result[v] = q
  <2>1. IsList(shelf["result"])
    BY DEF ShelfOK, Kinds
  <2> QED
    BY <1>w, <2>1, Appended
<1>4. /\ p.ok = TRUE /\ p.has = has /\ p.epoch = At("plan", n).epoch
      /\ p.line = Lineage([plan |-> n]) \union {<<"result", v>>}
      /\ DOMAIN has = {"plan", "result"} /\ has["plan"] = n /\ has["result"] = v
  BY <1>v
<1>5. q.ok = TRUE /\ q.has = <<>> /\ q.line = {} /\ DOMAIN q.has = {}
  BY <1>v, Blank
<1> HIDE DEF real, result
<1>6. /\ Kinds \subseteq DOMAIN shelf' /\ shelf'["real"] = real /\ shelf'["result"] = result
      /\ \A k \in Kinds \ {"real", "result"} : shelf'[k] = shelf[k]
  BY <1>k, <1>1 DEF ShelfOK
<1>7. Grows
  <2>1. ASSUME NEW k \in Kinds, NEW m \in DOMAIN shelf[k] PROVE Lasts(k, m)
    <3>1. CASE k = "real"
      BY <1>2, <1>6, <2>1, <3>1 DEF Lasts
    <3>2. CASE k = "result"
      BY <1>w, <1>3, <1>6, <2>1, <3>2 DEF Lasts
    <3>3. CASE k \notin {"real", "result"}
      BY <1>6, <2>1, <3>3 DEF Lasts
    <3> QED
      BY <3>1, <3>2, <3>3
  <2> QED
    BY <2>1 DEF Grows
<1>8. Accepts("plan", n)
  BY FileOk DEF RealFiles
<1>9. Fits("result", v, q)'
  BY <1>5 DEF Fits, Linked, Plain, Lineage
<1>10. ASSUME NEW m PROVE Fits("real", m, p)'
  <2>1. /\ At("plan", n)' = At("plan", n) /\ n \in Versions("plan")'
        /\ At("result", v)' = q /\ v \in Versions("result")'
    BY <1>k, <1>w, <1>3, <1>6 DEF At, Versions
  <2>2. p.line \subseteq Lineage(has)'
    <3>1. Lineage([plan |-> n]) = At("plan", n).line \union {<<"plan", n>>}
      BY DEF Lineage
    <3>2. Lineage(has)' = UNION {At(k, has[k])'.line \union {<<k, has[k]>>} : k \in {"plan", "result"}}
      BY <1>4 DEF Lineage
    <3> QED
      BY <1>4, <2>1, <3>1, <3>2
  <2>3. RealFits(p)'
    BY <1>4, <1>5, <1>8, <2>1 DEF RealFits, Names, Accepts
  <2> QED
    BY <1>4, <2>1, <2>2, <2>3 DEF Fits, Linked, Kinds, Plain
<1>11. ASSUME NEW k \in Kinds, NEW m \in DOMAIN shelf'[k], NEW x, x = shelf'[k][m]
       PROVE  (m \in DOMAIN shelf[k] /\ Alike(k, shelf[k][m], x)) \/ Fits(k, m, x)'
  <2>1. CASE k = "real" /\ m = Len(shelf["real"]) + 1
    BY <1>2, <1>6, <1>10, <1>11, <2>1
  <2>2. CASE k = "result" /\ m = v
    BY <1>3, <1>6, <1>9, <1>11, <2>2
  <2>3. CASE ~(k = "real" /\ m = Len(shelf["real"]) + 1) /\ ~(k = "result" /\ m = v)
    <3>1. m \in DOMAIN shelf[k] /\ x = shelf[k][m]
      BY <1>w, <1>2, <1>3, <1>6, <1>11, <2>3
    <3> QED
      BY <3>1 DEF Alike
  <2> QED
    BY <2>1, <2>2, <2>3
<1> QED
  BY <1>2, <1>3, <1>6, <1>7, <1>11, GrowFits DEF ShelfOK

LEMMA RewriteFits ==
  ASSUME ShelfOK, AllFit, NEW i \in Versions("real"), Rewrite(i)
  PROVE  ShelfOK' /\ AllFit'
<1>v. PICK v, q : v = Len(shelf["result"]) + 1 /\ q = Accepted("", <<>>, 0, "succeeded")
  OBVIOUS
<1>w. v = Len(shelf["result"]) + 1
  BY <1>v
<1>k. "real" \in Kinds /\ "result" \in Kinds /\ "plan" \in Kinds
  BY DEF Kinds
<1> DEFINE real == [shelf["real"] EXCEPT ![i].now = v]
           result == Append(shelf["result"], q)
<1>1. shelf' = [shelf EXCEPT !["result"] = result, !["real"] = real]
  BY <1>v DEF Rewrite, ShelfOK, Kinds
<1>2. /\ DOMAIN real = DOMAIN shelf["real"] /\ real = [x \in DOMAIN real |-> real[x]]
      /\ \A x \in DOMAIN real : Alike("real", shelf["real"][x], real[x])
  BY DEF Alike
<1>3. /\ IsList(result) /\ Len(shelf["result"]) \in Nat
      /\ DOMAIN shelf["result"] = 1 .. Len(shelf["result"]) /\ DOMAIN result = 1 .. v
      /\ \A x \in DOMAIN shelf["result"] : result[x] = shelf["result"][x]
      /\ result[v] = q
  <2>1. IsList(shelf["result"])
    BY DEF ShelfOK, Kinds
  <2> QED
    BY <1>w, <2>1, Appended
<1>4. q.ok = TRUE /\ q.has = <<>> /\ q.line = {} /\ DOMAIN q.has = {}
  BY <1>v, Blank
<1>5. IsList(real)
  <2>1. IsList(shelf["real"])
    BY DEF ShelfOK, Kinds
  <2> HIDE DEF real
  <2> QED
    BY <1>2, <2>1, Altered
<1> HIDE DEF real, result
<1>6. /\ Kinds \subseteq DOMAIN shelf' /\ shelf'["real"] = real /\ shelf'["result"] = result
      /\ \A k \in Kinds \ {"real", "result"} : shelf'[k] = shelf[k]
  BY <1>k, <1>1 DEF ShelfOK
<1>7. Grows
  <2>1. ASSUME NEW k \in Kinds, NEW m \in DOMAIN shelf[k] PROVE Lasts(k, m)
    <3>1. CASE k = "real"
      BY <1>2, <1>6, <2>1, <3>1 DEF Lasts, Alike
    <3>2. CASE k = "result"
      BY <1>w, <1>3, <1>6, <2>1, <3>2 DEF Lasts
    <3>3. CASE k \notin {"real", "result"}
      BY <1>6, <2>1, <3>3 DEF Lasts
    <3> QED
      BY <3>1, <3>2, <3>3
  <2> QED
    BY <2>1 DEF Grows
<1>8. Fits("result", v, q)'
  BY <1>4 DEF Fits, Linked, Plain, Lineage
<1>9. ASSUME NEW k \in Kinds, NEW m \in DOMAIN shelf'[k], NEW x, x = shelf'[k][m]
      PROVE  (m \in DOMAIN shelf[k] /\ Alike(k, shelf[k][m], x)) \/ Fits(k, m, x)'
  <2>1. CASE k = "real"
    BY <1>2, <1>6, <1>9, <2>1
  <2>2. CASE k = "result" /\ m = v
    BY <1>3, <1>6, <1>8, <1>9, <2>2
  <2>3. CASE k # "real" /\ ~(k = "result" /\ m = v)
    <3>1. m \in DOMAIN shelf[k] /\ x = shelf[k][m]
      BY <1>w, <1>3, <1>6, <1>9, <2>3
    <3> QED
      BY <3>1 DEF Alike
  <2> QED
    BY <2>1, <2>2, <2>3
<1> QED
  BY <1>3, <1>5, <1>6, <1>7, <1>9, GrowFits DEF ShelfOK

LEMMA CloseFits ==
  ASSUME ShelfOK, AllFit, NEW i \in Versions("real"), NEW w \in Versions("snapshot"),
         NEW status \in Statuses, NEW emit \in BOOLEAN, Close(i, w, status, emit)
  PROVE  ShelfOK' /\ AllFit'
<1> DEFINE git == emit /\ status = "completed"
           names == {"real", "snapshot"} \union (IF git THEN {"gitplan"} ELSE {})
<1>1. PICK v, g, p, q :
        /\ v = Len(shelf["closeout"]) + 1 /\ g = Len(shelf["gitplan"]) + 1
        /\ q = Accepted("", <<>>, 0, "ready")
        /\ p.ok = TRUE /\ p.epoch = At("real", i).epoch /\ p.status = status
        /\ p.next = NextDecision(status)
        /\ p.line = Lineage([real |-> i, snapshot |-> w]) \union (IF git THEN {<<"gitplan", g>>} ELSE {})
        /\ DOMAIN p.has = names /\ p.has["real"] = i /\ p.has["snapshot"] = w
        /\ git => p.has["gitplan"] = g
        /\ shelf' = [shelf EXCEPT
             !["closeout"] = Append(@, p), !["real"][i].status = status, !["real"][i].bound = v,
             !["gitplan"] = IF git THEN Append(@, q) ELSE @]
  <2> DEFINE g == Len(shelf["gitplan"]) + 1
             gits == IF git THEN {g} ELSE {}
             seen == [k \in {"real", "snapshot"} \union (IF gits = {} THEN {} ELSE {"gitplan"}) |->
                       CASE k = "real" -> i [] k = "snapshot" -> w
                         [] k = "gitplan" -> CHOOSE x \in gits : TRUE]
             made == [Accepted(NextDecision(status), [real |-> i, snapshot |-> w],
                               At("real", i).epoch, status)
                        EXCEPT !.has = seen, !.line = @ \union {<<"gitplan", x>> : x \in gits}]
             q == Accepted("", <<>>, 0, "ready")
  <2>1. shelf' = [shelf EXCEPT
          !["closeout"] = Append(@, made), !["real"][i].status = status,
          !["real"][i].bound = Len(shelf["closeout"]) + 1,
          !["gitplan"] = IF gits = {} THEN @ ELSE Append(@, q)]
    BY DEF Close
  <2>2. /\ made.ok = TRUE /\ made.epoch = At("real", i).epoch /\ made.status = status
        /\ made.next = NextDecision(status) /\ made.has = seen
        /\ made.line = Lineage([real |-> i, snapshot |-> w]) \union {<<"gitplan", x>> : x \in gits}
    BY DEF Accepted
  <2>3. DOMAIN seen = names /\ seen["real"] = i /\ seen["snapshot"] = w
    OBVIOUS
  <2>4. git => seen["gitplan"] = g
    OBVIOUS
  <2>5. {<<"gitplan", x>> : x \in gits} = IF git THEN {<<"gitplan", g>>} ELSE {}
    OBVIOUS
  <2>6. gits = {} <=> ~git
    OBVIOUS
  <2> HIDE DEF made, seen, gits, git, names, g, q
  <2>7. shelf' = [shelf EXCEPT
          !["closeout"] = Append(@, made), !["real"][i].status = status,
          !["real"][i].bound = Len(shelf["closeout"]) + 1,
          !["gitplan"] = IF git THEN Append(@, q) ELSE @]
    BY <2>1, <2>6
  <2> QED
    BY <2>2, <2>3, <2>4, <2>5, <2>7 DEF g, q
<1>v. v = Len(shelf["closeout"]) + 1
  BY <1>1
<1>g. g = Len(shelf["gitplan"]) + 1
  BY <1>1
<1>k. {"real", "closeout", "gitplan", "snapshot"} \subseteq Kinds
  BY DEF Kinds
<1> DEFINE real == [[shelf["real"] EXCEPT ![i].status = status] EXCEPT ![i].bound = v]
           closeout == Append(shelf["closeout"], p)
           gitplan == IF git THEN Append(shelf["gitplan"], q) ELSE shelf["gitplan"]
<1>2. /\ Kinds \subseteq DOMAIN shelf' /\ shelf'["real"] = real /\ shelf'["closeout"] = closeout
      /\ shelf'["gitplan"] = gitplan
      /\ \A k \in Kinds \ {"real", "closeout", "gitplan"} : shelf'[k] = shelf[k]
  <2>1. shelf' = [shelf EXCEPT
             !["closeout"] = Append(@, p), !["real"][i].status = status, !["real"][i].bound = v,
             !["gitplan"] = IF git THEN Append(@, q) ELSE @]
    BY <1>1
  <2>2. Kinds \subseteq DOMAIN shelf
    BY DEF ShelfOK
  <2> HIDE DEF git
  <2>3. Kinds \subseteq DOMAIN shelf' /\ shelf'["closeout"] = closeout /\ shelf'["gitplan"] = gitplan
    BY <1>k, <2>1, <2>2
  <2>4. shelf'["real"] = real
    BY <1>k, <2>1, <2>2
  <2>5. \A k \in Kinds \ {"real", "closeout", "gitplan"} : shelf'[k] = shelf[k]
    BY <1>k, <2>1, <2>2
  <2> QED
    BY <2>3, <2>4, <2>5
<1>3. /\ DOMAIN real = DOMAIN shelf["real"] /\ real = [x \in DOMAIN real |-> real[x]]
      /\ \A x \in DOMAIN real : Alike("real", shelf["real"][x], real[x])
  BY DEF Alike
<1>4. /\ IsList(closeout) /\ Len(shelf["closeout"]) \in Nat
      /\ DOMAIN shelf["closeout"] = 1 .. Len(shelf["closeout"]) /\ DOMAIN closeout = 1 .. v
      /\ \A x \in DOMAIN shelf["closeout"] : closeout[x] = shelf["closeout"][x]
      /\ closeout[v] = p
  <2>1. IsList(shelf["closeout"])
    BY <1>k DEF ShelfOK
  <2> QED
    BY <1>v, <2>1, Appended
<1>5. /\ IsList(gitplan) /\ Len(shelf["gitplan"]) \in Nat
      /\ DOMAIN shelf["gitplan"] = 1 .. Len(shelf["gitplan"])
      /\ DOMAIN gitplan = IF git THEN 1 .. g ELSE DOMAIN shelf["gitplan"]
      /\ \A x \in DOMAIN shelf["gitplan"] : gitplan[x] = shelf["gitplan"][x]
      /\ git => gitplan[g] = q
  <2>1. IsList(shelf["gitplan"])
    BY <1>k DEF ShelfOK
  <2> HIDE DEF git
  <2> QED
    BY <1>g, <2>1, Appended
<1>6. q.ok = TRUE /\ q.has = <<>> /\ q.line = {} /\ DOMAIN q.has = {}
  BY <1>1, Blank
<1>7. IsList(real)
  <2>1. IsList(shelf["real"])
    BY <1>k DEF ShelfOK
  <2> HIDE DEF real
  <2> QED
    BY <1>3, <2>1, Altered
<1>p. /\ p.ok = TRUE /\ p.epoch = At("real", i).epoch /\ p.status = status
      /\ p.next = NextDecision(status)
      /\ p.line = Lineage([real |-> i, snapshot |-> w]) \union (IF git THEN {<<"gitplan", g>>} ELSE {})
      /\ DOMAIN p.has = names /\ p.has["real"] = i /\ p.has["snapshot"] = w
      /\ git => p.has["gitplan"] = g
  <2> HIDE DEF git, names
  <2> QED
    BY <1>1
<1> HIDE DEF real, closeout, gitplan
<1>9. Grows
  <2>1. ASSUME NEW k \in Kinds, NEW m \in DOMAIN shelf[k] PROVE Lasts(k, m)
    <3>1. CASE k = "real"
      BY <1>3, <1>2, <2>1, <3>1 DEF Lasts, Alike
    <3>2. CASE k = "closeout"
      BY <1>v, <1>4, <1>2, <2>1, <3>2 DEF Lasts
    <3>3. CASE k = "gitplan"
      <4> HIDE DEF git
      <4> QED
        BY <1>g, <1>5, <1>2, <2>1, <3>3 DEF Lasts
    <3>4. CASE k \notin {"real", "closeout", "gitplan"}
      BY <1>2, <2>1, <3>4 DEF Lasts
    <3> QED
      BY <3>1, <3>2, <3>3, <3>4
  <2> QED
    BY <2>1 DEF Grows
<1>10. ASSUME NEW m PROVE Fits("gitplan", m, q)'
  BY <1>6 DEF Fits, Linked, Plain, Lineage
<1>11. Accepts("real", i) /\ Accepts("snapshot", w)
  BY FileOk DEF RealFiles
<1>12. ASSUME NEW m PROVE Fits("closeout", m, p)'
  <2>1. /\ At("real", i).ok' = At("real", i).ok /\ At("real", i).epoch' = At("real", i).epoch
        /\ At("real", i).line' = At("real", i).line
        /\ i \in Versions("real")' /\ w \in Versions("snapshot")'
        /\ At("snapshot", w)' = At("snapshot", w)
    BY <1>k, <1>3, <1>2 DEF At, Versions, Alike
  <2>2. git => At("gitplan", g)' = q /\ g \in Versions("gitplan")'
    <3> HIDE DEF git
    <3> QED
      BY <1>k, <1>g, <1>5, <1>2 DEF At, Versions
  <2>3. p.line \subseteq Lineage(p.has)'
    <3> HIDE DEF git
    <3>1. Lineage([real |-> i, snapshot |-> w])
            = At("real", i).line \union {<<"real", i>>} \union At("snapshot", w).line
              \union {<<"snapshot", w>>}
      BY DEF Lineage
    <3>2. Lineage(p.has)' = UNION {At(k, p.has[k])'.line \union {<<k, p.has[k]>>} : k \in names}
      BY <1>p DEF Lineage
    <3>3. At("real", i)'.line \union {<<"real", i>>} \subseteq Lineage(p.has)'
      BY <1>p, <3>2
    <3>4. At("snapshot", w)'.line \union {<<"snapshot", w>>} \subseteq Lineage(p.has)'
      BY <1>p, <3>2
    <3>5. git => <<"gitplan", g>> \in Lineage(p.has)'
      BY <1>p, <3>2
    <3>6. At("real", i)'.line = At("real", i).line /\ At("snapshot", w)'.line = At("snapshot", w).line
      BY <2>1
    <3> HIDE DEF names
    <3> QED
      BY <1>p, <3>1, <3>3, <3>4, <3>5, <3>6
  <2>4. CloseoutFits(p)'
    BY <1>p, <1>6, <1>11, <2>1, <2>2 DEF CloseoutFits, Names, Accepts
  <2> QED
    BY <1>p, <1>k, <2>1, <2>2, <2>3, <2>4 DEF Fits, Linked, Plain
<1>13. ASSUME NEW k \in Kinds, NEW m \in DOMAIN shelf'[k], NEW x, x = shelf'[k][m]
       PROVE  (m \in DOMAIN shelf[k] /\ Alike(k, shelf[k][m], x)) \/ Fits(k, m, x)'
  <2> HIDE DEF git
  <2>1. CASE k = "real"
    BY <1>3, <1>2, <1>13, <2>1
  <2>2. CASE k = "closeout" /\ m = v
    BY <1>4, <1>2, <1>12, <1>13, <2>2
  <2>3. CASE k = "gitplan" /\ git /\ m = g
    BY <1>5, <1>2, <1>10, <1>13, <2>3
  <2>4. CASE k # "real" /\ ~(k = "closeout" /\ m = v) /\ ~(k = "gitplan" /\ git /\ m = g)
    <3>1. m \in DOMAIN shelf[k] /\ x = shelf[k][m]
      BY <1>v, <1>g, <1>4, <1>5, <1>2, <1>13, <2>4
    <3> QED
      BY <3>1 DEF Alike
  <2> QED
    BY <2>1, <2>2, <2>3, <2>4
<1> QED
  BY <1>4, <1>5, <1>7, <1>2, <1>9, <1>13, GrowFits DEF ShelfOK

\* An accepted packet fits if what it names does.
LEMMA AcceptedFits ==
  ASSUME NEW k \in Kinds \ RealFiles, NEW n, NEW next, NEW has, NEW epoch, NEW status,
         DOMAIN has \subseteq Kinds, \A j \in DOMAIN has : has[j] \in Versions(j),
         Linked(k, n, Accepted(next, has, epoch, status))
  PROVE  Fits(k, n, Accepted(next, has, epoch, status))
  BY DEF Fits, Accepted

LEMMA StartKeepsFit ==
  ASSUME ShelfOK, AllFit, NEW p \in Versions("run_plan"), NEW s \in Versions("start"),
         ControlledStart(p, s)
  PROVE  ShelfOK' /\ AllFit'
<1> DEFINE codes == RunPlanReady(At("run_plan", p)) \union StartBlockers(p, s)
           has == [run_plan |-> p, start |-> s]
           packet == Accepted("plan_executor_invocation", has, At("start", s).epoch, "completed")
           n == Len(shelf["cstart"]) + 1
<1>1. Answer("cstart", codes, packet, StartTable, "inspect_controlled_start_blockers")
  BY DEF ControlledStart
<1>2. ASSUME codes = {} PROVE Fits("cstart", n, packet)
  <2>1. RunPlanReady(At("run_plan", p)) = {} /\ StartBlockers(p, s) = {}
    BY <1>2
  <2>2. Accepts("run_plan", p) /\ Accepts("start", s) /\ At("start", s).has["run_plan"] = p
    BY <2>1 DEF RunPlanReady, StartBlockers, When, Accepts
  <2>3. packet.has = has /\ packet.epoch = At("start", s).epoch
    BY DEF Accepted
  <2>4. DOMAIN has = {"run_plan", "start"} /\ has["run_plan"] = p /\ has["start"] = s
    OBVIOUS
  <2> HIDE DEF has
  <2>5. CstartFits(packet)
    <3> HIDE DEF packet
    <3> QED
      BY <2>2, <2>3, <2>4 DEF CstartFits, Names, Accepts
  <2>6. Linked("cstart", n, packet)
    BY <2>5 DEF Linked, Plain
  <2> QED
    BY <2>2, <2>4, <2>6, AcceptedFits DEF Kinds, RealFiles, Accepts
<1> HIDE DEF codes, packet, n
<1> QED
  BY <1>1, <1>2, Answered DEF Kinds, RealFiles, n

LEMMA PlanPacketFits ==
  ASSUME ShelfOK, AllFit, NEW c \in Versions("cstart"), NEW r \in Versions("readiness"),
         NEW m \in Versions("plan"), ControlledPlan(c, r, m)
  PROVE  ShelfOK' /\ AllFit'
<1> DEFINE start == At("cstart", c)
           ready == At("readiness", r)
           plan == At("plan", m)
           codes == PlanInputs(start, ready, plan) \union StartReadinessBlockers(start, ready)
                    \union PlanReadinessBlockers(plan, r)
           has == [cstart |-> c, readiness |-> r, plan |-> m]
           packet == Accepted("invoke_real_executor", has, start.epoch, "completed")
           n == Len(shelf["cplan"]) + 1
<1>1. Answer("cplan", codes, packet, ControlledPlanTable, "inspect_controlled_invocation_blockers")
  BY DEF ControlledPlan
<1>2. ASSUME codes = {} PROVE Fits("cplan", n, packet)
  <2>1. /\ PlanInputs(start, ready, plan) = {} /\ StartReadinessBlockers(start, ready) = {}
        /\ PlanReadinessBlockers(plan, r) = {}
    BY <1>2
  <2>2. Accepts("cstart", c) /\ Accepts("readiness", r) /\ Accepts("plan", m)
    BY <2>1 DEF PlanInputs, When, Accepts
  <2>3. /\ ready.has["run_plan"] = start.has["run_plan"] /\ ready.epoch = start.epoch
        /\ plan.has["readiness"] = r
    BY <2>1, <2>2 DEF StartReadinessBlockers, PlanReadinessBlockers, When, Accepts
  <2>4. packet.has = has /\ packet.epoch = start.epoch
    BY DEF Accepted
  <2>5. DOMAIN has = {"cstart", "readiness", "plan"}
        /\ has["cstart"] = c /\ has["readiness"] = r /\ has["plan"] = m
    OBVIOUS
  <2> HIDE DEF has
  <2>6. CplanFits(packet)
    <3> HIDE DEF packet
    <3> QED
      BY <2>2, <2>3, <2>4, <2>5 DEF CplanFits, Names, Accepts
  <2>7. Linked("cplan", n, packet)
    BY <2>6 DEF Linked, Plain
  <2> QED
    BY <2>2, <2>5, <2>7, AcceptedFits DEF Kinds, RealFiles, Accepts
<1> HIDE DEF codes, packet, n
<1> QED
  BY <1>1, <1>2, Answered DEF Kinds, RealFiles, n

LEMMA RealPacketFits ==
  ASSUME ShelfOK, AllFit, NEW c \in Versions("cplan"), NEW i \in Versions("real"), ControlledReal(c, i)
  PROVE  ShelfOK' /\ AllFit'
<1> DEFINE plan == At("cplan", c)
           record == At("real", i)
           codes == NestedPlanBlockers(plan) \union RealBlockers(plan, record)
                    \union RealAuditBlockers \union RealResultBlockers(record)
           has == [cplan |-> c, real |-> i, plan |-> record.has["plan"], result |-> record.has["result"]]
           packet == Accepted("closeout_executor_result", has, plan.epoch, "completed")
           n == Len(shelf["creal"]) + 1
<1>1. Answer("creal", codes, packet, ControlledRealTable, "inspect_real_invocation_evidence")
  BY DEF ControlledReal
<1>2. ASSUME codes = {} PROVE Fits("creal", n, packet)
  <2>1. NestedPlanBlockers(plan) = {} /\ RealBlockers(plan, record) = {}
    BY <1>2
  <2>2. Accepts("cplan", c) /\ Accepts("real", i)
    BY <2>1 DEF NestedPlanBlockers, RealBlockers, When, Accepts
  <2>3. record.has["plan"] = plan.has["plan"]
    BY <2>1, <2>2 DEF RealBlockers, When, Accepts
  <2>4. Accepts("plan", record.has["plan"]) /\ Accepts("result", record.has["result"])
    BY <2>2, FitsItsKind, Reaches DEF RealFits, Kinds
  <2>5. packet.has = has /\ packet.epoch = plan.epoch
    BY DEF Accepted
  <2>6. DOMAIN has = {"cplan", "real", "plan", "result"}
        /\ has["cplan"] = c /\ has["real"] = i /\ has["plan"] = record.has["plan"]
        /\ has["result"] = record.has["result"]
    OBVIOUS
  <2> HIDE DEF has
  <2>7. CrealFits(packet)
    <3> HIDE DEF packet
    <3> QED
      BY <2>2, <2>3, <2>4, <2>5, <2>6 DEF CrealFits, Names, Accepts
  <2>8. Linked("creal", n, packet)
    BY <2>7 DEF Linked, Plain
  <2> QED
    BY <2>2, <2>4, <2>6, <2>8, AcceptedFits DEF Kinds, RealFiles, Accepts
<1> HIDE DEF codes, packet, n
<1> QED
  BY <1>1, <1>2, Answered DEF Kinds, RealFiles, n

LEMMA CloseoutPacketFits ==
  ASSUME ShelfOK, AllFit, NEW c \in Versions("creal"), NEW k \in Versions("closeout"),
         ControlledCloseout(c, k)
  PROVE  ShelfOK' /\ AllFit'
<1> DEFINE real == At("creal", c)
           closeout == At("closeout", k)
           first == CloseoutInputs(real, closeout)
                    \union (IF real.ok THEN ControlledGraph(real) \union CloseoutBefore(real, closeout)
                            ELSE {})
           codes == first \union CloseoutAuditLines
                    \union (IF first = {} THEN CloseoutAfter(real, closeout, k) ELSE {})
           has == [creal |-> c, closeout |-> k]
           packet == Accepted("controlled_loop_tick", has, real.epoch, closeout.status)
           n == Len(shelf["cclose"]) + 1
<1>1. Answer("cclose", codes, packet, ControlledCloseoutTable, "inspect_closeout_evidence")
  BY DEF ControlledCloseout
<1>2. ASSUME codes = {} PROVE Fits("cclose", n, packet)
  <2>1. first = {}
    BY <1>2
  <2>2. CloseoutInputs(real, closeout) = {}
    BY <2>1
  <2>3. Accepts("creal", c) /\ Accepts("closeout", k) /\ closeout.status \in Terminal
    BY <2>2 DEF CloseoutInputs, When, Accepts
  <2>4. CloseoutBefore(real, closeout) = {}
    BY <2>1, <2>3 DEF Accepts
  <2>5. closeout.has["real"] = real.has["real"] /\ closeout.epoch = real.epoch
    BY <2>4 DEF CloseoutBefore, When
  <2>6. packet.has = has /\ packet.epoch = real.epoch
    BY DEF Accepted
  <2>7. DOMAIN has = {"creal", "closeout"} /\ has["creal"] = c /\ has["closeout"] = k
    OBVIOUS
  <2> HIDE DEF has
  <2>8. CcloseFits(packet)
    <3> HIDE DEF packet
    <3> QED
      BY <2>3, <2>5, <2>6, <2>7 DEF CcloseFits, Names, Accepts
  <2>9. Linked("cclose", n, packet)
    BY <2>8 DEF Linked, Plain
  <2> QED
    BY <2>3, <2>7, <2>9, AcceptedFits DEF Kinds, RealFiles, Accepts
<1> HIDE DEF codes, packet, n
<1> QED
  BY <1>1, <1>2, Answered DEF Kinds, RealFiles, n

TickInputs == [loop_tick : Versions("run_plan"), task : Versions("run_plan"),
               start : Versions("start"), readiness : Versions("readiness"),
               plan : Versions("plan"), real : Versions("real"), result : Versions("result"),
               snapshot : Versions("snapshot"), closeout : Versions("closeout")]

LEMMA TickPacketFits ==
  ASSUME ShelfOK, AllFit, NEW in \in TickInputs,
         NEW git \in {{}} \union {{g} : g \in Versions("gitplan")}, ControlledTick(in, git)
  PROVE  ShelfOK' /\ AllFit'
<1> DEFINE codes == TickBlockers(in, git) \union When(~clean, "controlled_tick_audit_append_failed")
           has == [k \in {"run_plan"} \union (DOMAIN TickKinds \ {"loop_tick", "task"})
                     \union (IF git = {} THEN {} ELSE {"gitplan"}) |->
                     CASE k = "run_plan" -> in.loop_tick [] k = "gitplan" -> CHOOSE g \in git : TRUE
                       [] OTHER -> in[k]]
           closeout == At("closeout", in.closeout)
           made == Accepted("controlled_tick_complete", has, GivenAs(in, "start").epoch,
                            GivenAs(in, "closeout").next)
           packet == [made EXCEPT !.line = @ \union {<<"run_plan", in.task>>}]
           n == Len(shelf["tick"]) + 1
           plain == {"start", "readiness", "plan", "real", "result", "snapshot", "closeout"}
<1>1. Answer("tick", codes, packet,
             << << {"controlled_tick_audit_append_failed"}, "recover_controlled_tick_audit" >> >>,
             "inspect_controlled_tick_blockers")
  BY DEF ControlledTick
<1>2. ASSUME codes = {} PROVE Fits("tick", n, packet)
  <2>1. /\ TickTaskBlockers(in) = {} /\ TickReadinessBlockers(in) = {} /\ TickRealBlockers(in) = {}
        /\ TickCloseoutBlockers(in) = {} /\ TickGitBlockers(in, git) = {}
    BY <1>2 DEF TickBlockers
  <2>2. /\ GivenAs(in, "loop_tick") = At("run_plan", in.loop_tick)
        /\ GivenAs(in, "start") = At("start", in.start)
        /\ GivenAs(in, "readiness") = At("readiness", in.readiness)
        /\ GivenAs(in, "plan") = At("plan", in.plan) /\ GivenAs(in, "real") = At("real", in.real)
        /\ GivenAs(in, "closeout") = closeout
    BY DEF GivenAs, TickKinds
  <2>3. /\ in.loop_tick \in Versions("run_plan") /\ in.start \in Versions("start")
        /\ in.readiness \in Versions("readiness") /\ in.plan \in Versions("plan")
        /\ in.real \in Versions("real") /\ in.result \in Versions("result")
        /\ in.snapshot \in Versions("snapshot") /\ in.closeout \in Versions("closeout")
    BY DEF TickInputs
  <2>4. Accepts("run_plan", in.loop_tick) /\ in.loop_tick = in.task
    BY <2>1, <2>2, <2>3 DEF TickTaskBlockers, When, Accepts
  <2>5. /\ Accepts("start", in.start) /\ Accepts("readiness", in.readiness) /\ Accepts("plan", in.plan)
        /\ Accepts("real", in.real) /\ Accepts("result", in.result)
        /\ Accepts("snapshot", in.snapshot) /\ Accepts("closeout", in.closeout)
    BY <2>3, FileOk DEF RealFiles
  <2>6. closeout.has["real"] = in.real /\ closeout.has["snapshot"] = in.snapshot
    BY <2>1, <2>2 DEF TickCloseoutBlockers, When
  <2>7. /\ DOMAIN has = {"run_plan"} \union plain \union (IF git = {} THEN {} ELSE {"gitplan"})
        /\ has["run_plan"] = in.loop_tick
    BY DEF TickKinds
  <2>8. \A k \in plain : has[k] = in[k]
    BY DEF TickKinds
  <2>9. git # {} => has["gitplan"] \in git
    BY DEF TickKinds
  <2>10. packet.ok = TRUE /\ packet.has = has /\ packet.status = closeout.next
         /\ packet.line = Lineage(has) \union {<<"run_plan", in.task>>}
    BY <2>2 DEF Accepted
  <2> HIDE DEF has, packet
  <2>11. git # {} => /\ "gitplan" \in DOMAIN closeout.has /\ closeout.has["gitplan"] = has["gitplan"]
                     /\ Accepts("gitplan", has["gitplan"])
    <3> SUFFICES ASSUME git # {}
                 PROVE  /\ "gitplan" \in DOMAIN closeout.has /\ closeout.has["gitplan"] = has["gitplan"]
                        /\ Accepts("gitplan", has["gitplan"])
      OBVIOUS
    <3>1. PICK g \in Versions("gitplan") : git = {g}
      OBVIOUS
    <3>2. has["gitplan"] = g
      BY <2>9, <3>1
    <3>3. "gitplan" \in DOMAIN closeout.has /\ closeout.has["gitplan"] \in git
      BY <2>1, <2>2 DEF TickGitBlockers, When
    <3>4. Accepts("gitplan", g)
      BY FileOk DEF RealFiles
    <3> QED
      BY <3>1, <3>2, <3>3, <3>4
  <2>12. \A j \in DOMAIN has : Accepts(j, has[j])
    BY <2>4, <2>5, <2>7, <2>8, <2>11
  <2>13. "gitplan" \in DOMAIN has <=> git # {}
    BY <2>7
  <2>14. DOMAIN has = plain \union {"run_plan"} \union (DOMAIN has \intersect {"gitplan"})
    BY <2>7
  <2>15. TickFits(packet)
    BY <2>6, <2>7, <2>8, <2>10, <2>11, <2>12, <2>13, <2>14 DEF TickFits, Names, Accepts
  <2>16. packet.line \subseteq Lineage(has)
    <3>1. <<"run_plan", in.task>> \in Lineage(has)
      BY <2>4, <2>7 DEF Lineage
    <3> QED
      BY <2>10, <3>1
  <2> QED
    BY <2>7, <2>10, <2>12, <2>15, <2>16 DEF Fits, Linked, Kinds, RealFiles, Plain, Accepts
<1> HIDE DEF codes, packet, n
<1> QED
  BY <1>1, <1>2, Answered DEF Kinds, RealFiles, n

SummaryGiven == [run_plan : Versions("run_plan"), cstart : Versions("cstart"),
                 cplan : Versions("cplan"), creal : Versions("creal"),
                 cclose : Versions("cclose"), tick : Versions("tick")]

LEMMA SummaryPacketFits ==
  ASSUME ShelfOK, AllFit, NEW in \in SummaryGiven, RunSummary(in)
  PROVE  ShelfOK' /\ AllFit'
<1> DEFINE inputs == SummaryInputs(in)
           codes == IF inputs # {} THEN inputs
                    ELSE SummaryLinks(in) \union SummaryTickLinks(in) \union SummaryEpochs(in)
           packet == Accepted("review_controlled_loop_run", in, At("tick", in["tick"]).epoch,
                              At("tick", in["tick"]).status)
           n == Len(shelf["summary"]) + 1
<1>1. Answer("summary", codes, packet, <<>>, "inspect_controlled_loop_run_blockers")
  BY DEF RunSummary
<1>2. ASSUME codes = {} PROVE Fits("summary", n, packet)
  <2>1. SummaryInputs(in) = {} /\ SummaryLinks(in) = {} /\ SummaryTickLinks(in) = {}
    BY <1>2
  <2>2. \A k \in SummaryKinds : At(k, in[k]).ok
    BY <2>1 DEF SummaryInputs
  <2>3. DOMAIN in = SummaryKinds /\ \A k \in SummaryKinds : in[k] \in Versions(k)
    BY DEF SummaryGiven, SummaryKinds
  <2>4. \A k \in DOMAIN SummaryBefore : At(k, in[k]).has[SummaryBefore[k]] = in[SummaryBefore[k]]
    <3> SUFFICES ASSUME NEW k \in DOMAIN SummaryBefore,
                        At(k, in[k]).has[SummaryBefore[k]] # in[SummaryBefore[k]]
                 PROVE  FALSE
      OBVIOUS
    <3>1. <<k, "checksum_mismatch">> \in SummaryLinks(in)
      BY Zenon DEF SummaryLinks
    <3> QED
      BY <2>1, <3>1
  <2>5. /\ At("cstart", in["cstart"]).has["run_plan"] = in["run_plan"]
        /\ At("cplan", in["cplan"]).has["cstart"] = in["cstart"]
        /\ At("creal", in["creal"]).has["cplan"] = in["cplan"]
        /\ At("cclose", in["cclose"]).has["creal"] = in["creal"]
    BY <2>4 DEF SummaryBefore
  <2>6. LET tick == At("tick", in["tick"]).has
            plan == At("cplan", in["cplan"]).has
        IN  /\ tick["run_plan"] = in["run_plan"]
            /\ tick["start"] = At("cstart", in["cstart"]).has["start"]
            /\ tick["readiness"] = plan["readiness"] /\ tick["plan"] = plan["plan"]
            /\ tick["result"] = At("creal", in["creal"]).has["result"]
            /\ tick["closeout"] = At("cclose", in["cclose"]).has["closeout"]
    BY <2>1 DEF SummaryTickLinks, When
  <2>7. packet.has = in
    BY DEF Accepted
  <2>8. SummaryFits(packet)
    <3> HIDE DEF packet
    <3>1. Names(packet, SummaryKinds)
      BY <2>2, <2>3, <2>7 DEF Names
    <3> QED
      BY <2>5, <2>6, <2>7, <3>1 DEF SummaryFits
  <2>9. Linked("summary", n, packet)
    BY <2>8 DEF Linked, Plain
  <2>10. DOMAIN in \subseteq Kinds /\ \A j \in DOMAIN in : in[j] \in Versions(j)
    BY <2>3 DEF SummaryKinds, Kinds
  <2> QED
    BY <2>9, <2>10, AcceptedFits DEF Kinds, RealFiles
<1> HIDE DEF codes, packet, n
<1> QED
  BY <1>1, <1>2, Answered DEF Kinds, RealFiles, n

LEMMA OutcomePacketFits ==
  ASSUME ShelfOK, AllFit, NEW s \in Versions("summary"), NEW c \in Versions("cclose"),
         NEW t \in Versions("tick"), OutcomePlan(s, c, t)
  PROVE  ShelfOK' /\ AllFit'
<1> DEFINE summary == At("summary", s)
           close == At("cclose", c)
           tick == At("tick", t)
           inputs == OutcomeInputs(summary, close, tick)
           codes == IF inputs # {} THEN inputs
                    ELSE OutcomeLinks(summary, c, t) \union OutcomeCloseout(summary, close, tick)
                         \union OutcomeDecision(tick) \union OutcomeGitPlan(close, tick)
           has == [summary |-> s, cclose |-> c, tick |-> t]
           packet == Accepted(OutcomeNext(close, tick), has, tick.epoch, tick.status)
           accepted == IF codes = {} THEN packet ELSE Blocked("")
           n == Len(shelf["outcome"]) + 1
<1>1. Answer("outcome", codes, accepted, RunOutcomeTable, "inspect_controlled_loop_outcome_blockers")
  BY DEF OutcomePlan
<1>2. ASSUME codes = {} PROVE Fits("outcome", n, packet)
  <2>1. /\ OutcomeInputs(summary, close, tick) = {} /\ OutcomeLinks(summary, c, t) = {}
        /\ OutcomeCloseout(summary, close, tick) = {} /\ OutcomeDecision(tick) = {}
    BY <1>2
  <2>2. Accepts("summary", s) /\ Accepts("cclose", c) /\ Accepts("tick", t)
    BY <2>1 DEF OutcomeInputs, When, Accepts
  <2>3. summary.has["cclose"] = c /\ summary.has["tick"] = t
    BY <2>1 DEF OutcomeLinks, When
  <2>4. tick.has["closeout"] = close.has["closeout"] /\ tick.epoch = close.epoch
    BY <2>1 DEF OutcomeCloseout, When
  <2>5. tick.status \in {"generate_git_pr_plan", "continue", "handoff", "stop"}
    BY <2>1 DEF OutcomeDecision, When
  <2>6. OutcomeNext(close, tick) \in {"run_git_pr_plan", "request_git_pr_materialization_approval"}
          <=> tick.status = "generate_git_pr_plan"
    <3>1. CASE tick.status = "generate_git_pr_plan"
      BY <3>1 DEF OutcomeNext
    <3>2. CASE tick.status = "continue"
      BY <3>2 DEF OutcomeNext
    <3>3. CASE tick.status = "handoff"
      BY <3>3 DEF OutcomeNext
    <3>4. CASE tick.status = "stop"
      BY <3>4 DEF OutcomeNext
    <3> QED
      BY <2>5, <3>1, <3>2, <3>3, <3>4
  <2>7. packet.has = has /\ packet.epoch = tick.epoch /\ packet.next = OutcomeNext(close, tick)
    BY DEF Accepted
  <2>8. DOMAIN has = {"summary", "cclose", "tick"}
        /\ has["summary"] = s /\ has["cclose"] = c /\ has["tick"] = t
    OBVIOUS
  <2> HIDE DEF has
  <2>9. OutcomeFits(packet)
    <3> HIDE DEF packet
    <3> QED
      BY <2>2, <2>3, <2>4, <2>6, <2>7, <2>8 DEF OutcomeFits, Names, Accepts
  <2>10. Linked("outcome", n, packet)
    BY <2>9 DEF Linked, Plain
  <2> QED
    BY <2>2, <2>8, <2>10, AcceptedFits DEF Kinds, RealFiles, Accepts
<1> HIDE DEF codes, packet, n
<1> QED
  BY <1>1, <1>2, Answered DEF Kinds, RealFiles, n

------------------------------------------------------------------------------
(* How the epochs end                                                       *)

\* A terminal closeout has ended its epoch for good.
Ending(status) == IF status = "completed" THEN "completed" ELSE "failed"
Ended(k) ==
  k.status # "task_completed" =>
    k.epoch # active /\ k.epoch \in DOMAIN ends /\ ends[k.epoch] = Ending(k.status)
Epochs ==
  /\ IsList(ends) /\ active \in 0 .. Len(ends) /\ Len(shelf["start"]) = Len(ends)
  /\ extra \in 0 .. MaxExtra
  /\ \A n \in Versions("closeout") : Ended(At("closeout", n))

LEMMA CountsInBound ==
  ASSUME NEW k, Counts(k), extra \in 0 .. MaxExtra
  PROVE  extra' \in 0 .. MaxExtra
<1>1. CASE extra' = extra
  BY <1>1
<1>2. CASE extra < MaxExtra /\ extra' = extra + 1
  BY <1>2, ExtraAssumption
<1> QED
  BY <1>1, <1>2 DEF Counts

LEMMA IssueKeepsEpochs ==
  ASSUME ShelfOK, Epochs, NEW k \in Kinds \ {"start", "closeout"}, NEW p, Issue(k, p),
         UNCHANGED <<active, ends>>
  PROVE  Epochs'
<1>1. \A j \in Kinds \ {k} : shelf'[j] = shelf[j]
  BY Placed DEF Issue
<1>2. shelf'["start"] = shelf["start"] /\ shelf'["closeout"] = shelf["closeout"]
  BY <1>1 DEF Kinds
<1>3. extra' \in 0 .. MaxExtra
  BY CountsInBound DEF Epochs, Issue
<1> QED
  BY <1>2, <1>3 DEF Epochs, Ended, Versions, At

LEMMA AnswerKeepsEpochs ==
  ASSUME ShelfOK, Epochs, NEW k \in Kinds \ RealFiles, NEW codes, NEW accepted, NEW table, NEW other,
         Answer(k, codes, accepted, table, other)
  PROVE  Epochs'
<1>1. PICK p : Issue(k, p)
  BY DEF Answer, Reply
<1>2. k \in Kinds \ {"start", "closeout"} /\ UNCHANGED <<active, ends>>
  BY DEF Answer, RealFiles
<1> QED
  BY <1>1, <1>2, IssueKeepsEpochs

LEMMA ControlledKeepsEpochs ==
  ASSUME ShelfOK, Epochs, Controlled
  PROVE  Epochs'
<1>1. CASE RunPlan
  <2>1. PICK p : Issue("run_plan", p)
    BY <1>1 DEF RunPlan
  <2> QED
    BY <1>1, <2>1, IssueKeepsEpochs DEF RunPlan, Kinds
<1>2. CASE ~RunPlan
  <2>1. PICK k \in Kinds \ RealFiles : \E codes, accepted, table, other : Answer(k, codes, accepted, table, other)
    BY <1>2 DEF Controlled, ControlledStart, ControlledPlan, ControlledReal, ControlledCloseout,
                ControlledTick, RunSummary, OutcomePlan, Kinds, RealFiles
  <2> QED
    BY <2>1, AnswerKeepsEpochs
<1> QED
  BY <1>1, <1>2

LEMMA StartRunKeepsEpochs ==
  ASSUME ShelfOK, Epochs, NEW task \in Versions("run_plan"), StartRun(task)
  PROVE  Epochs'
<1> DEFINE n == Len(shelf["start"]) + 1
<1>1. PICK p : shelf' = Place("start", p) /\ Counts("start")
  BY DEF StartRun, Issue
<1>2. active' = n /\ ends' = Append(ends, "active")
  BY DEF StartRun, Begin
<1>3. IsList(ends) /\ Len(shelf["start"]) = Len(ends)
  BY DEF Epochs
<1>4. /\ IsList(ends') /\ Len(ends) \in Nat /\ DOMAIN ends = 1 .. Len(ends)
      /\ DOMAIN ends' = 1 .. Len(ends) + 1 /\ \A e \in DOMAIN ends : ends'[e] = ends[e]
  BY <1>2, <1>3, Appended
<1>5. Len(ends') = Len(ends) + 1
  BY <1>4 DEF IsList
<1>6. /\ "start" \in Kinds /\ "closeout" \in Kinds \ {"start"}
  BY DEF Kinds
<1>7. ShelfOK' /\ DOMAIN shelf'["start"] = 1 .. n /\ shelf'["closeout"] = shelf["closeout"]
  BY <1>1, <1>6, Placed
<1>8. Len(shelf'["start"]) = n
  BY <1>3, <1>4, <1>6, <1>7 DEF ShelfOK, IsList
<1>9. extra' \in 0 .. MaxExtra
  BY <1>1, CountsInBound DEF Epochs
<1>10. ASSUME NEW m \in Versions("closeout")' PROVE Ended(At("closeout", m))'
  <2>1. Ended(At("closeout", m)) /\ At("closeout", m)' = At("closeout", m)
    BY <1>7, <1>10 DEF Epochs, Versions, At
  <2> QED
    BY <1>2, <1>3, <1>4, <2>1 DEF Ended
<1> QED
  BY <1>2, <1>3, <1>4, <1>5, <1>8, <1>9, <1>10 DEF Epochs

\* The epoch of an invocation is one that was started.
LEMMA StartedEpoch ==
  ASSUME ShelfOK, AllFit, Epochs, NEW i \in Versions("real")
  PROVE  At("real", i).epoch \in 1 .. Len(ends)
<1>1. Accepts("real", i)
  BY FileOk DEF RealFiles
<1>2. RealFits(At("real", i))
  BY <1>1, FitsItsKind
<1>3. PICK n : n = At("real", i).has["plan"] /\ Accepts("plan", n) /\ At("real", i).epoch = At("plan", n).epoch
  BY <1>1, <1>2, Reaches DEF RealFits, Kinds
<1>4. PlanFits(At("plan", n))
  BY <1>3, FitsItsKind
<1>5. PICK r : Accepts("readiness", r) /\ At("plan", n).epoch = At("readiness", r).epoch
  BY <1>3, <1>4, Reaches DEF PlanFits, Kinds
<1>6. ReadinessFits(At("readiness", r))
  BY <1>5, FitsItsKind
<1>7. PICK s : Accepts("start", s) /\ At("readiness", r).epoch = s
  BY <1>5, <1>6, Reaches DEF ReadinessFits, Kinds
<1>8. DOMAIN shelf["start"] = 1 .. Len(shelf["start"])
  BY DEF ShelfOK, IsList, Kinds
<1> QED
  BY <1>3, <1>5, <1>7, <1>8 DEF Accepts, Versions, Epochs

LEMMA CloseKeepsEpochs ==
  ASSUME ShelfOK, AllFit, Epochs, NEW i \in Versions("real"), NEW w \in Versions("snapshot"),
         NEW status \in Statuses, NEW emit \in BOOLEAN, Close(i, w, status, emit)
  PROVE  Epochs'
<1>1. PICK e : e = At("real", i).epoch
  OBVIOUS
<1>2. e \in 1 .. Len(ends) /\ active = e
  BY <1>1, StartedEpoch DEF Close
<1>3. PICK p : /\ p.epoch = e /\ p.status = status
               /\ shelf'["closeout"] = Append(shelf["closeout"], p)
               /\ shelf'["start"] = shelf["start"]
  <2> DEFINE git == IF emit /\ status = "completed" THEN {Len(shelf["gitplan"]) + 1} ELSE {}
             seen == [k \in {"real", "snapshot"} \union (IF git = {} THEN {} ELSE {"gitplan"}) |->
                       CASE k = "real" -> i [] k = "snapshot" -> w
                         [] k = "gitplan" -> CHOOSE x \in git : TRUE]
             made == [Accepted(NextDecision(status), [real |-> i, snapshot |-> w],
                               At("real", i).epoch, status)
                        EXCEPT !.has = seen, !.line = @ \union {<<"gitplan", x>> : x \in git}]
  <2>1. made.epoch = e /\ made.status = status
    BY <1>1 DEF Accepted
  <2>2. shelf' = [shelf EXCEPT
          !["closeout"] = Append(@, made), !["real"][i].status = status,
          !["real"][i].bound = Len(shelf["closeout"]) + 1,
          !["gitplan"] = IF git = {} THEN @ ELSE Append(@, Accepted("", <<>>, 0, "ready"))]
    BY DEF Close
  <2>3. "closeout" \in DOMAIN shelf /\ "start" \in DOMAIN shelf
    BY DEF ShelfOK, Kinds
  <2> HIDE DEF made, git
  <2>4. PICK p, v, x : /\ p.epoch = e /\ p.status = status
          /\ shelf' = [shelf EXCEPT !["closeout"] = Append(@, p), !["real"][i].status = status,
                                    !["real"][i].bound = v, !["gitplan"] = x]
    <3>1. PICK y : y = IF git = {} THEN shelf["gitplan"]
                       ELSE Append(shelf["gitplan"], Accepted("", <<>>, 0, "ready"))
      OBVIOUS
    <3>2. shelf' = [shelf EXCEPT
            !["closeout"] = Append(@, made), !["real"][i].status = status,
            !["real"][i].bound = Len(shelf["closeout"]) + 1, !["gitplan"] = y]
      BY <2>2, <3>1
    <3> QED
      BY <2>1, <3>2
  <2>5. shelf'["closeout"] = Append(shelf["closeout"], p) /\ shelf'["start"] = shelf["start"]
    BY <2>3, <2>4
  <2> QED
    BY <2>4, <2>5
<1>4. /\ Len(shelf["closeout"]) \in Nat
      /\ DOMAIN shelf["closeout"] = 1 .. Len(shelf["closeout"])
      /\ DOMAIN shelf'["closeout"] = 1 .. Len(shelf["closeout"]) + 1
      /\ \A x \in DOMAIN shelf["closeout"] : shelf'["closeout"][x] = shelf["closeout"][x]
      /\ shelf'["closeout"][Len(shelf["closeout"]) + 1] = p
  <2>1. IsList(shelf["closeout"])
    BY DEF ShelfOK, Kinds
  <2> QED
    BY <1>3, <2>1, Appended
<1>5. extra' \in 0 .. MaxExtra
  <2>1. Counts("closeout")
    BY DEF Close
  <2> QED
    BY <2>1, CountsInBound DEF Epochs
<1>6. IsList(ends) /\ Len(ends) \in Nat /\ DOMAIN ends = 1 .. Len(ends)
  BY DEF Epochs, IsList
<1>7. CASE status = "task_completed"
  <2>1. active' = active /\ ends' = ends
    BY <1>7 DEF Close
  <2>2. ASSUME NEW m \in Versions("closeout")' PROVE Ended(At("closeout", m))'
    <3>1. CASE m \in Versions("closeout")
      BY <1>4, <2>1, <3>1 DEF Epochs, Ended, Versions, At
    <3>2. CASE m \notin Versions("closeout")
      <4>1. At("closeout", m)' = p
        BY <1>4, <2>2, <3>2 DEF Versions, At
      <4> QED
        BY <1>3, <1>7, <4>1 DEF Ended
    <3> QED
      BY <3>1, <3>2
  <2> QED
    BY <1>3, <1>5, <2>1, <2>2 DEF Epochs
<1>8. CASE status # "task_completed"
  <2>1. active' = 0 /\ ends' = [ends EXCEPT ![e] = Ending(status)]
    BY <1>1, <1>8 DEF Close, Ending
  <2>2. /\ DOMAIN ends' = DOMAIN ends /\ ends' = [x \in DOMAIN ends' |-> ends'[x]]
        /\ ends'[e] = Ending(status) /\ \A x \in DOMAIN ends \ {e} : ends'[x] = ends[x]
    BY <1>2, <1>6, <2>1
  <2>3. IsList(ends')
    BY <1>6, <2>2, Altered
  <2>4. Len(ends') = Len(ends)
    BY <1>6, <2>2, <2>3 DEF IsList
  <2>5. ASSUME NEW m \in Versions("closeout")' PROVE Ended(At("closeout", m))'
    <3>1. CASE m \in Versions("closeout")
      <4>1. At("closeout", m)' = At("closeout", m) /\ Ended(At("closeout", m))
        BY <1>4, <3>1 DEF Epochs, Versions, At
      <4> QED
        BY <1>2, <1>6, <2>1, <2>2, <4>1 DEF Ended
    <3>2. CASE m \notin Versions("closeout")
      <4>1. At("closeout", m)' = p
        BY <1>4, <2>5, <3>2 DEF Versions, At
      <4> QED
        BY <1>2, <1>3, <1>6, <2>1, <2>2, <4>1 DEF Ended
    <3> QED
      BY <3>1, <3>2
  <2> QED
    BY <1>3, <1>5, <1>6, <2>1, <2>3, <2>4, <2>5 DEF Epochs
<1> QED
  BY <1>7, <1>8

LEMMA TroubleKeepsEpochs ==
  ASSUME ShelfOK, Epochs, FailEpoch \/ Tear \/ UNCHANGED cvars
  PROVE  Epochs'
<1>1. CASE FailEpoch
  <2>1. /\ active # 0 /\ active' = 0 /\ ends' = [ends EXCEPT ![active] = "failed"]
        /\ extra < MaxExtra /\ extra' = extra + 1 /\ shelf' = shelf
    BY <1>1 DEF FailEpoch
  <2>2. IsList(ends) /\ Len(ends) \in Nat /\ DOMAIN ends = 1 .. Len(ends)
    BY DEF Epochs, IsList
  <2>3. /\ DOMAIN ends' = DOMAIN ends /\ ends' = [x \in DOMAIN ends' |-> ends'[x]]
        /\ \A x \in DOMAIN ends \ {active} : ends'[x] = ends[x]
    BY <2>1, <2>2
  <2>4. IsList(ends')
    BY <2>2, <2>3, Altered
  <2>5. Len(ends') = Len(ends)
    BY <2>2, <2>3, <2>4 DEF IsList
  <2>6. ASSUME NEW m \in Versions("closeout")' PROVE Ended(At("closeout", m))'
    <3>1. At("closeout", m)' = At("closeout", m) /\ Ended(At("closeout", m))
      BY <2>1, <2>6 DEF Epochs, Versions, At
    <3> QED
      BY <2>1, <2>2, <2>3, <3>1 DEF Ended
  <2> QED
    BY <2>1, <2>2, <2>4, <2>5, <2>6, ExtraAssumption DEF Epochs
<1>2. CASE Tear
  BY <1>2, ExtraAssumption DEF Epochs, Tear, Ended, Versions, At
<1>3. CASE UNCHANGED cvars
  BY <1>3 DEF Epochs, cvars, Ended, Versions, At
<1> QED
  BY <1>1, <1>2, <1>3

LEMMA RealKeepsEpochs ==
  ASSUME ShelfOK, AllFit, Epochs, Real
  PROVE  Epochs'
<1>1. CASE \E p \in Versions("run_plan") : StartRun(p)
  BY <1>1, StartRunKeepsEpochs
<1>2. CASE \/ \E s \in Versions("start") : GetReady(s)
           \/ \E r \in Versions("readiness") : Plan(r)
           \/ Snapshot \/ GitPlan
  <2>1. PICK k \in Kinds \ {"start", "closeout"} : \E p : Issue(k, p)
    BY <1>2 DEF GetReady, Plan, Snapshot, GitPlan, Kinds
  <2>2. UNCHANGED <<active, ends>>
    BY <1>2 DEF GetReady, Plan, Snapshot, GitPlan
  <2> QED
    BY <2>1, <2>2, IssueKeepsEpochs
<1>3. CASE \/ \E n \in Versions("plan") : Run(n)
           \/ \E i \in Versions("real") : Rewrite(i)
  <2>1. shelf'["start"] = shelf["start"] /\ shelf'["closeout"] = shelf["closeout"]
    BY <1>3 DEF Run, Rewrite, ShelfOK, Kinds
  <2>2. UNCHANGED <<active, ends>> /\ extra' \in 0 .. MaxExtra
    <3>1. UNCHANGED <<active, ends>>
      BY <1>3 DEF Run, Rewrite
    <3>2. Counts("real") \/ (extra < MaxExtra /\ extra' = extra + 1)
      BY <1>3 DEF Run, Rewrite
    <3>3. extra \in 0 .. MaxExtra
      BY DEF Epochs
    <3> QED
      BY <3>1, <3>2, <3>3, CountsInBound, ExtraAssumption
  <2> QED
    BY <2>1, <2>2 DEF Epochs, Ended, Versions, At
<1>4. CASE \E i \in Versions("real"), w \in Versions("snapshot"), status \in Statuses,
             emit \in BOOLEAN : Close(i, w, status, emit)
  BY <1>4, CloseKeepsEpochs
<1>5. CASE FailEpoch \/ Tear
  BY <1>5, TroubleKeepsEpochs
<1> QED
  BY <1>1, <1>2, <1>3, <1>4, <1>5 DEF Real

------------------------------------------------------------------------------
(* The invariant                                                            *)

RunInv == ShelfOK /\ AllFit /\ Epochs

LEMMA InitFits ==
  ASSUME Kinds \subseteq DOMAIN shelf, \A k \in Kinds : shelf[k] = <<>>,
         active = 0, ends = <<>>, extra = 0
  PROVE  RunInv
<1>1. IsList(<<>>) /\ Len(<<>>) = 0 /\ DOMAIN <<>> = {}
  BY DEF IsList
<1>3. ShelfOK /\ AllFit
  BY <1>1 DEF ShelfOK, AllFit, Versions
<1>4. Epochs
  BY <1>1, ExtraAssumption DEF Epochs, Versions, Kinds
<1> QED
  BY <1>3, <1>4 DEF RunInv

LEMMA TroubleFits ==
  ASSUME ShelfOK, AllFit, shelf' = shelf
  PROVE  ShelfOK' /\ AllFit'
<1>1. Grows
  BY DEF Grows, Lasts
<1>2. ASSUME NEW k \in Kinds, NEW n \in DOMAIN shelf'[k], NEW p, p = shelf'[k][n]
      PROVE  Fits(k, n, p)'
  <2>1. Fits(k, n, p)
    BY <1>2 DEF AllFit, Versions, At
  <2> QED
    BY <1>1, <2>1, FitLasts
<1>3. AllFit'
  BY <1>2 DEF AllFit, Versions, At
<1> QED
  BY <1>3 DEF ShelfOK

LEMMA RealFitsShelf ==
  ASSUME ShelfOK, AllFit, Real
  PROVE  ShelfOK' /\ AllFit'
<1>1. CASE \E p \in Versions("run_plan") : StartRun(p)
  BY <1>1, StartRunFits
<1>2. CASE \E s \in Versions("start") : GetReady(s)
  BY <1>2, GetReadyFits
<1>3. CASE \E r \in Versions("readiness") : Plan(r)
  BY <1>3, PlanKeepsFit
<1>4. CASE \E n \in Versions("plan") : Run(n)
  BY <1>4, RunFits
<1>5. CASE \E i \in Versions("real") : Rewrite(i)
  BY <1>5, RewriteFits
<1>6. CASE \E i \in Versions("real"), w \in Versions("snapshot"), status \in Statuses,
             emit \in BOOLEAN : Close(i, w, status, emit)
  BY <1>6, CloseFits
<1>7. CASE Snapshot \/ GitPlan
  BY <1>7, SnapshotFits
<1>8. CASE FailEpoch \/ Tear
  BY <1>8, TroubleFits DEF FailEpoch, Tear
<1> QED
  BY <1>1, <1>2, <1>3, <1>4, <1>5, <1>6, <1>7, <1>8 DEF Real

LEMMA ControlledFitsShelf ==
  ASSUME ShelfOK, AllFit, Controlled
  PROVE  ShelfOK' /\ AllFit'
<1>1. CASE RunPlan
  BY <1>1, RunPlanFits
<1>2. CASE \E p \in Versions("run_plan"), s \in Versions("start") : ControlledStart(p, s)
  BY <1>2, StartKeepsFit
<1>3. CASE \E c \in Versions("cstart"), r \in Versions("readiness"), n \in Versions("plan") :
             ControlledPlan(c, r, n)
  BY <1>3, PlanPacketFits
<1>4. CASE \E c \in Versions("cplan"), i \in Versions("real") : ControlledReal(c, i)
  BY <1>4, RealPacketFits
<1>5. CASE \E c \in Versions("creal"), k \in Versions("closeout") : ControlledCloseout(c, k)
  BY <1>5, CloseoutPacketFits
<1>6. CASE \E in \in TickInputs, git \in {{}} \union {{g} : g \in Versions("gitplan")} :
             ControlledTick(in, git)
  BY <1>6, TickPacketFits
<1>7. CASE \E in \in SummaryGiven : RunSummary(in)
  BY <1>7, SummaryPacketFits
<1>8. CASE \E s \in Versions("summary"), c \in Versions("cclose"), t \in Versions("tick") :
             OutcomePlan(s, c, t)
  BY <1>8, OutcomePacketFits
<1> QED
  BY <1>1, <1>2, <1>3, <1>4, <1>5, <1>6, <1>7, <1>8 DEF Controlled, TickInputs, SummaryGiven

LEMMA RunStepKeepsInv ==
  ASSUME ShelfOK, AllFit, Epochs, [RunNext]_cvars
  PROVE  RunInv'
<1>1. CASE Real
  BY <1>1, RealFitsShelf, RealKeepsEpochs DEF RunInv
<1>2. CASE Controlled
  BY <1>2, ControlledFitsShelf, ControlledKeepsEpochs DEF RunInv
<1>3. CASE UNCHANGED cvars
  BY <1>3, TroubleFits, TroubleKeepsEpochs DEF RunInv, cvars
<1> QED
  BY <1>1, <1>2, <1>3 DEF RunNext

\* Whatever the commands are given and in whatever order, the shelf and the
\* epochs fit together.
THEOREM RunKeepsInv == RunSpec => []RunInv
<1>1. RunInit => RunInv
  BY InitFits DEF RunInit
<1>2. RunInv /\ [RunNext]_cvars => RunInv'
  BY RunStepKeepsInv DEF RunInv
<1> QED
  BY <1>1, <1>2, PTL DEF RunSpec

\* Every packet names packets that are there, the active epoch is one that was
\* started (the files of one controlled run, cli.py).
THEOREM RunTypeCorrect == RunSpec => []ControlledTypeOK
<1>1. RunInv => ControlledTypeOK
  BY DEF RunInv, ControlledTypeOK, AllFit, Fits, Epochs
<1> QED
  BY <1>1, RunKeepsInv, PTL

\* Whatever packets the operator gives the commands of a controlled run, an
\* outcome plan that is valid rests on one version of every packet, though each
\* command compares only the checksums of its own neighbours
\* (controlled_loop_start_command to controlled_loop_outcome_plan_command).
THEOREM RunIsOneChain == RunSpec => []OneChain
<1>1. RunInv => OneChain
  BY ChainIsOne DEF RunInv
<1> QED
  BY <1>1, RunKeepsInv, PTL

LEMMA OutcomeMeetsItsEpoch ==
  ASSUME RunInv
  PROVE  OutcomeFitsEpoch
<1> USE DEF RunInv
<1> SUFFICES ASSUME NEW n \in Versions("outcome"), NEW o, o = At("outcome", n), o.ok
             PROVE  /\ ends[o.epoch] \in {"completed", "failed"}
                    /\ (ends[o.epoch] = "completed") <=>
                         (o.next \in {"run_git_pr_plan", "request_git_pr_materialization_approval"})
  BY DEF OutcomeFitsEpoch
<1>1. Accepts("outcome", n) /\ OutcomeFits(o)
  BY FitsItsKind DEF Accepts
<1>2. PICK c, t : /\ Accepts("cclose", c) /\ Accepts("tick", t) /\ o.epoch = At("cclose", c).epoch
                  /\ At("tick", t).has["closeout"] = At("cclose", c).has["closeout"]
                  /\ o.next \in {"run_git_pr_plan", "request_git_pr_materialization_approval"}
                       <=> At("tick", t).status = "generate_git_pr_plan"
  BY <1>1, Reaches DEF OutcomeFits, Kinds
<1>3. CcloseFits(At("cclose", c)) /\ TickFits(At("tick", t))
  BY <1>2, FitsItsKind
<1>4. PICK k : /\ k = At("cclose", c).has["closeout"] /\ Accepts("closeout", k)
               /\ At("closeout", k).epoch = o.epoch /\ At("closeout", k).status \in Terminal
  BY <1>2, <1>3, Reaches DEF CcloseFits, Kinds
<1>5. At("tick", t).status = At("closeout", k).next
  BY <1>2, <1>3, <1>4 DEF TickFits
<1>6. At("closeout", k).next = NextDecision(At("closeout", k).status)
  BY <1>4, FitsItsKind DEF CloseoutFits
<1>7. ends[o.epoch] = Ending(At("closeout", k).status)
  BY <1>4 DEF Epochs, Ended, Accepts, Terminal
<1>8. At("closeout", k).status = "completed" <=> At("tick", t).status = "generate_git_pr_plan"
  BY <1>4, <1>5, <1>6 DEF NextDecision, Terminal
<1> QED
  BY <1>2, <1>7, <1>8 DEF Ending

\* What a valid outcome plan tells the operator to do fits how its epoch ended,
\* also after the epoch was failed by hand or another was started
\* (closeout_next_decision, controlled_loop_outcome_recommendation).
THEOREM OutcomeIsOfItsEpoch == RunSpec => []OutcomeFitsEpoch
<1>1. RunInv => OutcomeFitsEpoch
  BY OutcomeMeetsItsEpoch
<1> QED
  BY <1>1, RunKeepsInv, PTL
=============================================================================
