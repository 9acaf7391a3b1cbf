--------------------------- MODULE SelfCheckProofs ---------------------------
(***************************************************************************)
(* Proofs about the election and the decision of a self-check, for every   *)
(* request the command accepts.                                            *)
(***************************************************************************)
EXTENDS SelfCheckRequests, FiniteSetTheorems, WellFoundedInduction, TLAPS

\* A set of natural numbers that is not empty has a least one.
LEMMA Least ==
  ASSUME NEW T \in SUBSET Nat, T # {}
  PROVE  \E k \in T : \A j \in T : ~(j < k)
<1>1. PICK k \in T : \A j \in T : ~(<<j, k>> \in OpToRel(<, Nat))
  BY NatLessThanWellFounded, WFMin
<1>2. ASSUME NEW j \in T, j < k PROVE FALSE
  <2>1. <<j, k>> \in Nat \X Nat /\ <<j, k>>[1] < <<j, k>>[2]
    BY <1>2
  <2>2. <<j, k>> \in OpToRel(<, Nat)
    BY <2>1 DEF OpToRel
  <2> QED
    BY <1>1, <2>2
<1> QED
  BY <1>2

------------------------------------------------------------------------------
(* The ranking                                                              *)

LEMMA PenaltyType ==
  ASSUME NEW c
  PROVE  ExpansionPenalty(c) \in Int
<1>1. (CASE c.unc = "medium" -> 15 [] c.unc = "high" -> 35 [] OTHER -> 0) \in Int
  OBVIOUS
<1> QED
  BY <1>1 DEF ExpansionPenalty

\* What a list of candidates must be for its ranking to make sense.
IsList(cs) ==
  /\ Len(cs) \in Nat /\ DOMAIN cs = 1..Len(cs)
  /\ \A i \in DOMAIN cs : cs[i].score \in Int

\* The sort key, with the position to settle ties, is a strict total order.
LEMMA RankingIsAnOrder ==
  ASSUME NEW cs, IsList(cs), NEW i \in DOMAIN cs, NEW j \in DOMAIN cs, NEW k \in DOMAIN cs
  PROVE  /\ ~RanksBefore(cs, i, i)
         /\ i # j => RanksBefore(cs, i, j) \/ RanksBefore(cs, j, i)
         /\ RanksBefore(cs, i, j) /\ RanksBefore(cs, j, k) => RanksBefore(cs, i, k)
<1> DEFINE key(m) == cs[m].score - ExpansionPenalty(cs[m])
<1>1. ASSUME NEW m \in DOMAIN cs
      PROVE  m \in Int /\ cs[m].score \in Int /\ key(m) \in Int
  BY PenaltyType DEF IsList
<1>2. ASSUME NEW m, NEW n
      PROVE  RanksBefore(cs, m, n)
               <=> \/ key(m) > key(n)
                   \/ key(m) = key(n) /\ cs[m].score > cs[n].score
                   \/ key(m) = key(n) /\ cs[m].score = cs[n].score /\ m < n
  BY DEF RanksBefore
<1> HIDE DEF key
<1> QED
  BY <1>1, <1>2

Ahead(cs, i) == {j \in ElectablePositions(cs) : RanksBefore(cs, j, i)}

LEMMA PositionsAreFinite ==
  ASSUME NEW cs, IsList(cs)
  PROVE  /\ ElectablePositions(cs) \subseteq DOMAIN cs
         /\ IsFiniteSet(ElectablePositions(cs))
         /\ Cardinality(ElectablePositions(cs)) \in Nat
<1>1. ElectablePositions(cs) \subseteq DOMAIN cs
  BY DEF ElectablePositions
<1>2. IsFiniteSet(DOMAIN cs)
  BY FS_Interval DEF IsList
<1> QED
  BY <1>1, <1>2, FS_Subset, FS_CardinalityType

\* Who ranks later has more candidates ahead of it,
LEMMA AheadGrows ==
  ASSUME NEW cs, IsList(cs), NEW i \in ElectablePositions(cs), NEW j \in ElectablePositions(cs),
         RanksBefore(cs, i, j)
  PROVE  Cardinality(Ahead(cs, i)) < Cardinality(Ahead(cs, j))
<1>1. i \in Ahead(cs, j) /\ i \notin Ahead(cs, i)
  BY PositionsAreFinite, RankingIsAnOrder DEF Ahead
<1>2. Ahead(cs, i) \subseteq Ahead(cs, j)
  BY PositionsAreFinite, RankingIsAnOrder DEF Ahead
<1>3. /\ IsFiniteSet(Ahead(cs, j)) /\ Cardinality(Ahead(cs, j)) \in Nat
      /\ IsFiniteSet(Ahead(cs, i)) /\ Cardinality(Ahead(cs, i)) \in Nat
  <2>1. Ahead(cs, i) \subseteq ElectablePositions(cs) /\ Ahead(cs, j) \subseteq ElectablePositions(cs)
    BY DEF Ahead
  <2> QED
    BY <2>1, PositionsAreFinite, FS_Subset, FS_CardinalityType
<1>4. /\ Cardinality(Ahead(cs, i)) <= Cardinality(Ahead(cs, j))
      /\ Cardinality(Ahead(cs, i)) # Cardinality(Ahead(cs, j))
  BY <1>1, <1>2, <1>3, FS_Subset
<1> QED
  BY <1>3, <1>4

\* and nobody has all of them ahead.
LEMMA AheadBound ==
  ASSUME NEW cs, IsList(cs), NEW i \in ElectablePositions(cs)
  PROVE  Cardinality(Ahead(cs, i)) \in 0..(Cardinality(ElectablePositions(cs)) - 1)
<1>1. Ahead(cs, i) \subseteq ElectablePositions(cs) /\ i \notin Ahead(cs, i)
  BY PositionsAreFinite, RankingIsAnOrder DEF Ahead
<1>2. /\ Cardinality(Ahead(cs, i)) <= Cardinality(ElectablePositions(cs))
      /\ Cardinality(Ahead(cs, i)) # Cardinality(ElectablePositions(cs))
      /\ Cardinality(Ahead(cs, i)) \in Nat
  BY <1>1, PositionsAreFinite, FS_Subset, FS_CardinalityType
<1> QED
  BY <1>2, PositionsAreFinite

\* So each place is taken by exactly one electable candidate.
LEMMA PlaceIsTaken ==
  ASSUME NEW cs, IsList(cs), NEW r \in 1..Cardinality(ElectablePositions(cs))
  PROVE  \E i \in ElectablePositions(cs) : Cardinality(Ahead(cs, i)) = r - 1
<1> DEFINE E == ElectablePositions(cs)
           n == Cardinality(E)
           place == [i \in E |-> Cardinality(Ahead(cs, i)) + 1]
<1>1. IsFiniteSet(E) /\ n \in Nat /\ E \subseteq DOMAIN cs
  BY PositionsAreFinite
<1>2. \A i \in E : Cardinality(Ahead(cs, i)) \in 0..(n - 1)
  BY AheadBound
<1>3. place \in [E -> 1..n]
  BY <1>1, <1>2
<1>4. ASSUME NEW i \in E, NEW j \in E, i # j PROVE place[i] # place[j]
  <2>1. RanksBefore(cs, i, j) \/ RanksBefore(cs, j, i)
    BY <1>1, <1>4, RankingIsAnOrder
  <2>2. Cardinality(Ahead(cs, i)) # Cardinality(Ahead(cs, j))
    BY <1>1, <1>2, <2>1, AheadGrows
  <2> QED
    BY <1>1, <1>2, <2>2
<1>5. place \in Injection(E, 1..n)
  BY <1>3, <1>4 DEF Injection, IsInjective
<1>6. IsFiniteSet(1..n) /\ Cardinality(1..n) = n
  BY <1>1, FS_Interval
<1>7. place \in Surjection(E, 1..n)
  <2> HIDE DEF place
  <2> QED
    BY <1>5, <1>6, FS_Injection
<1>8. PICK i \in E : place[i] = r
  <2> HIDE DEF place
  <2> QED
    BY <1>7 DEF Surjection
<1>9. Cardinality(Ahead(cs, i)) = r - 1
  BY <1>2, <1>8
<1> QED
  BY <1>9

\* Ranked lists the electable positions, every one once, best first.
LEMMA RankedIsSorted ==
  ASSUME NEW cs, IsList(cs)
  PROVE  /\ Ranked(cs) \in [1..Len(Ranked(cs)) -> ElectablePositions(cs)]
         /\ Len(Ranked(cs)) \in Nat
         /\ \A i \in ElectablePositions(cs) : \E r \in 1..Len(Ranked(cs)) : Ranked(cs)[r] = i
         /\ \A k, m \in 1..Len(Ranked(cs)) : RanksBefore(cs, Ranked(cs)[k], Ranked(cs)[m]) <=> k < m
<1> DEFINE E == ElectablePositions(cs)
           n == Cardinality(E)
           taken(i, r) == Cardinality(Ahead(cs, i)) = r - 1
<1>1. IsFiniteSet(E) /\ n \in Nat /\ E \subseteq DOMAIN cs
  BY PositionsAreFinite
<1>2. Ranked(cs) = [r \in 1..n |-> CHOOSE i \in E : taken(i, r)]
  BY DEF Ranked, Ahead
<1>3. ASSUME NEW r \in 1..n PROVE Ranked(cs)[r] \in E /\ taken(Ranked(cs)[r], r)
  <2>1. \E i \in E : taken(i, r)
    BY PlaceIsTaken
  <2> HIDE DEF taken, E
  <2> QED
    BY <1>2, <2>1
<1>4. Ranked(cs) \in [1..n -> E]
  <2> HIDE DEF taken, E, n
  <2> QED
    BY <1>2, <1>3
<1>5. Len(Ranked(cs)) = n
  <2> HIDE DEF n, E
  <2> QED
    BY <1>1, <1>4
<1>6. ASSUME NEW i \in E PROVE \E r \in 1..n : Ranked(cs)[r] = i
  <2> DEFINE r == Cardinality(Ahead(cs, i)) + 1
  <2>1. r \in 1..n /\ taken(i, r)
    BY <1>1, AheadBound
  <2>2. Ranked(cs)[r] \in E /\ taken(Ranked(cs)[r], r)
    BY <1>3, <2>1
  <2>3. Ranked(cs)[r] = i
    <3> SUFFICES ASSUME Ranked(cs)[r] # i PROVE FALSE
      OBVIOUS
    <3>1. RanksBefore(cs, i, Ranked(cs)[r]) \/ RanksBefore(cs, Ranked(cs)[r], i)
      BY <1>1, <2>2, RankingIsAnOrder
    <3>2. /\ Cardinality(Ahead(cs, i)) = Cardinality(Ahead(cs, Ranked(cs)[r]))
          /\ Cardinality(Ahead(cs, i)) \in Int
      BY <2>1, <2>2, AheadBound
    <3> QED
      BY <2>2, <3>1, <3>2, AheadGrows
  <2> QED
    BY <2>1, <2>3
<1>7. ASSUME NEW k \in 1..n, NEW m \in 1..n
      PROVE  RanksBefore(cs, Ranked(cs)[k], Ranked(cs)[m]) <=> k < m
  <2>1. /\ Ranked(cs)[k] \in E /\ Cardinality(Ahead(cs, Ranked(cs)[k])) = k - 1
        /\ Ranked(cs)[m] \in E /\ Cardinality(Ahead(cs, Ranked(cs)[m])) = m - 1
    BY <1>3
  <2>2. RanksBefore(cs, Ranked(cs)[k], Ranked(cs)[m]) => k < m
    BY <2>1, AheadGrows
  <2>3. RanksBefore(cs, Ranked(cs)[m], Ranked(cs)[k]) => m < k
    BY <2>1, AheadGrows
  <2>4. k # m => Ranked(cs)[k] # Ranked(cs)[m]
    BY <2>1
  <2>5. Ranked(cs)[k] # Ranked(cs)[m]
          => RanksBefore(cs, Ranked(cs)[k], Ranked(cs)[m]) \/ RanksBefore(cs, Ranked(cs)[m], Ranked(cs)[k])
    BY <1>1, <2>1, RankingIsAnOrder
  <2> QED
    BY <2>2, <2>3, <2>4, <2>5
<1> QED
  BY <1>1, <1>4, <1>5, <1>6, <1>7

------------------------------------------------------------------------------
(* The rounds of the election                                               *)

\* The function that ElectedAfter defines, for the first n ranked candidates.
Elects(f, n, cs, maxTasks, maxDiscovery) ==
  f = [k \in 0..n |->
         IF k = 0 THEN <<>>
         ELSE Consider(f[k - 1], cs[Ranked(cs)[k]], maxTasks, maxDiscovery)]

\* It exists: one for n rounds goes on to one for n + 1.
LEMMA ElectionExists ==
  ASSUME NEW cs, NEW maxTasks, NEW maxDiscovery, NEW n \in Nat
  PROVE  \E f : Elects(f, n, cs, maxTasks, maxDiscovery)
<1> DEFINE next(s, k) == Consider(s, cs[Ranked(cs)[k]], maxTasks, maxDiscovery)
           good(f, m) == f = [k \in 0..m |-> IF k = 0 THEN <<>> ELSE next(f[k - 1], k)]
           T == {m \in Nat : ~\E f : good(f, m)}
<1> HIDE DEF next
<1>1. SUFFICES ASSUME T # {} PROVE FALSE
  BY Zenon DEF Elects, next
<1>2. PICK m \in T : \A j \in T : ~(j < m)
  <2> HIDE DEF good
  <2> QED
    BY <1>1, Least
<1>3. CASE m = 0
  <2>1. good([k \in 0..0 |-> <<>>], 0)
    OBVIOUS
  <2> QED
    BY <1>2, <1>3, <2>1
<1>4. CASE m # 0
  <2>1. m - 1 \in Nat /\ m - 1 < m
    BY <1>2, <1>4
  <2>2. PICK f : good(f, m - 1)
    BY <1>2, <2>1
  <2> DEFINE g == [k \in 0..m |-> IF k = m THEN next(f[m - 1], m) ELSE f[k]]
  <2>3. ASSUME NEW k \in 0..m PROVE g[k] = IF k = 0 THEN <<>> ELSE next(g[k - 1], k)
    <3>1. CASE k = 0
      BY <1>4, <2>1, <2>2, <3>1
    <3>2. CASE k = m
      BY <1>4, <2>1, <3>2
    <3>3. CASE k # 0 /\ k # m
      <4>1. k \in 0..(m - 1) /\ k - 1 \in 0..m /\ k - 1 # m
        BY <2>1, <3>3
      <4> QED
        BY <2>2, <3>3, <4>1
    <3> QED
      BY <3>1, <3>2, <3>3
  <2>4. g = [k \in 0..m |-> IF k = 0 THEN <<>> ELSE next(g[k - 1], k)]
    <3>1. g = [k \in 0..m |-> g[k]]
      OBVIOUS
    <3> HIDE DEF g
    <3> QED
      BY <2>3, <3>1
  <2>5. good(g, m)
    BY <2>4
  <2> QED
    BY <1>2, <2>5
<1> QED
  BY <1>3, <1>4

\* So each round considers the next candidate with what the rounds before elected.
LEMMA ElectionRounds ==
  ASSUME NEW cs, IsList(cs), NEW maxTasks, NEW maxDiscovery,
         NEW e, e = ElectedAfter(cs, maxTasks, maxDiscovery)
  PROVE  /\ e[0] = <<>>
         /\ \A n \in 1..Len(Ranked(cs)) :
              e[n] = Consider(e[n - 1], cs[Ranked(cs)[n]], maxTasks, maxDiscovery)
<1> DEFINE N == Len(Ranked(cs))
           next(s, k) == Consider(s, cs[Ranked(cs)[k]], maxTasks, maxDiscovery)
<1>1. N \in Nat
  BY RankedIsSorted
<1>2. \E f : Elects(f, N, cs, maxTasks, maxDiscovery)
  BY <1>1, ElectionExists
<1>3. e = [k \in 0..N |-> IF k = 0 THEN <<>> ELSE next(e[k - 1], k)]
  BY <1>2, Zenon DEF Elects, ElectedAfter
<1> HIDE DEF N, next
<1>4. \A k \in 0..N : e[k] = IF k = 0 THEN <<>> ELSE next(e[k - 1], k)
  BY <1>3
<1> QED
  BY <1>1, <1>4 DEF N, next

AsDiscovery(c) == IF c.kind = "discovery" THEN 1 ELSE 0

\* One more candidate adds itself to the count of its kind.
LEMMA DiscoveryCountOfAppend ==
  ASSUME NEW S, NEW s \in Seq(S), NEW c \in S
  PROVE  /\ DiscoveryCount(s) \in Nat
         /\ DiscoveryCount(Append(s, c))
              = DiscoveryCount(s) + AsDiscovery(c)
<1> DEFINE D(q) == {i \in DOMAIN q : q[i].kind = "discovery"}
           a == Append(s, c)
           n == Len(s) + 1
<1>1. /\ Len(s) \in Nat /\ DOMAIN s = 1..Len(s) /\ DOMAIN a = 1..n
      /\ a[n] = c /\ \A i \in 1..Len(s) : a[i] = s[i]
  OBVIOUS
<1>2. IsFiniteSet(D(s)) /\ n \notin D(s)
  <2>1. D(s) \subseteq 1..Len(s) /\ IsFiniteSet(1..Len(s)) /\ n \notin 1..Len(s)
    BY <1>1, FS_Interval
  <2> HIDE DEF D
  <2> QED
    BY <2>1, FS_Subset
<1>3. D(a) = IF c.kind = "discovery" THEN D(s) \union {n} ELSE D(s)
  <2> HIDE DEF a
  <2> QED
    BY <1>1
<1>4. Cardinality(D(s)) \in Nat
      /\ Cardinality(D(s) \union {n}) = Cardinality(D(s)) + 1
  <2> HIDE DEF D
  <2> QED
    BY <1>2, FS_AddElement, FS_CardinalityType
<1>5. DiscoveryCount(s) = Cardinality(D(s)) /\ DiscoveryCount(a) = Cardinality(D(a))
  BY DEF DiscoveryCount
<1> HIDE DEF D, a
<1> QED
  BY <1>3, <1>4, <1>5 DEF a, AsDiscovery

\* The rounds, of the first n, that elected their candidate; those of discovery tasks.
TakenRounds(e, n) == {m \in 1..n : e[m] # e[m - 1]}
DiscoveryRounds(cs, e, n) == {m \in TakenRounds(e, n) : cs[Ranked(cs)[m]].kind = "discovery"}

\* After n rounds what is elected are the candidates of the taken rounds, within the caps.
ElectedSoFar(cs, e, n, maxTasks, maxDiscovery) ==
  /\ e[n] \in Seq({cs[i] : i \in DOMAIN cs})
  /\ Len(e[n]) = Cardinality(TakenRounds(e, n)) /\ Len(e[n]) <= maxTasks
  /\ DiscoveryCount(e[n]) = Cardinality(DiscoveryRounds(cs, e, n))
  /\ DiscoveryCount(e[n]) <= maxDiscovery
  /\ \A k \in DOMAIN e[n] : \E m \in TakenRounds(e, n) : e[n][k] = cs[Ranked(cs)[m]]
  /\ \A m \in TakenRounds(e, n) : \E k \in DOMAIN e[n] : e[n][k] = cs[Ranked(cs)[m]]

LEMMA RoundsAreFinite ==
  ASSUME NEW cs, NEW e, NEW n \in Nat
  PROVE  /\ IsFiniteSet(TakenRounds(e, n)) /\ TakenRounds(e, n) \subseteq 1..n
         /\ IsFiniteSet(DiscoveryRounds(cs, e, n))
         /\ DiscoveryRounds(cs, e, n) \subseteq TakenRounds(e, n)
<1>1. TakenRounds(e, n) \subseteq 1..n /\ DiscoveryRounds(cs, e, n) \subseteq TakenRounds(e, n)
  BY DEF TakenRounds, DiscoveryRounds
<1> QED
  BY <1>1, FS_Interval, FS_Subset

\* A round that refuses its candidate changes nothing.
LEMMA RefusedRound ==
  ASSUME NEW cs, NEW e, NEW n \in Nat \ {0}, e[n] = e[n - 1]
  PROVE  /\ TakenRounds(e, n) = TakenRounds(e, n - 1)
         /\ DiscoveryRounds(cs, e, n) = DiscoveryRounds(cs, e, n - 1)
<1>1. TakenRounds(e, n) = TakenRounds(e, n - 1)
  BY DEF TakenRounds
<1> QED
  BY <1>1 DEF DiscoveryRounds

\* One that elects it is counted.
Counted(cs, e, n) ==
  /\ TakenRounds(e, n) = TakenRounds(e, n - 1) \union {n}
  /\ Cardinality(TakenRounds(e, n)) = Cardinality(TakenRounds(e, n - 1)) + 1
  /\ Cardinality(DiscoveryRounds(cs, e, n))
       = Cardinality(DiscoveryRounds(cs, e, n - 1)) + AsDiscovery(cs[Ranked(cs)[n]])

LEMMA TakenRound ==
  ASSUME NEW cs, NEW e, NEW n \in Nat \ {0}, e[n] # e[n - 1]
  PROVE  Counted(cs, e, n)
<1> DEFINE before == TakenRounds(e, n - 1)
           dBefore == DiscoveryRounds(cs, e, n - 1)
<1>1. TakenRounds(e, n) = before \union {n}
  BY DEF TakenRounds
<1>2. DiscoveryRounds(cs, e, n) = IF cs[Ranked(cs)[n]].kind = "discovery"
                                  THEN dBefore \union {n} ELSE dBefore
  BY <1>1 DEF DiscoveryRounds
<1>3. IsFiniteSet(before) /\ n \notin before /\ IsFiniteSet(dBefore) /\ n \notin dBefore
  <2>1. n - 1 \in Nat /\ n \notin 1..(n - 1)
    OBVIOUS
  <2> HIDE DEF before, dBefore
  <2> QED
    BY <2>1, RoundsAreFinite DEF before, dBefore
<1>4. /\ Cardinality(before \union {n}) = Cardinality(before) + 1
      /\ Cardinality(dBefore \union {n}) = Cardinality(dBefore) + 1
      /\ Cardinality(dBefore) \in Nat
  <2> HIDE DEF before, dBefore
  <2> QED
    BY <1>3, FS_AddElement, FS_CardinalityType
<1> QED
  BY <1>1, <1>2, <1>4 DEF AsDiscovery, Counted

\* Before the first round nothing is elected.
LEMMA NothingElectedYet ==
  ASSUME NEW cs, NEW e, e[0] = <<>>, NEW maxTasks \in Nat, NEW maxDiscovery \in Nat
  PROVE  ElectedSoFar(cs, e, 0, maxTasks, maxDiscovery)
<1>1. TakenRounds(e, 0) = {} /\ DiscoveryRounds(cs, e, 0) = {}
  BY DEF TakenRounds, DiscoveryRounds
<1>2. DiscoveryCount(e[0]) = Cardinality({})
  <2>1. {i \in DOMAIN <<>> : <<>>[i].kind = "discovery"} = {}
    OBVIOUS
  <2> QED
    BY <2>1 DEF DiscoveryCount
<1>3. Cardinality({}) = 0
  BY FS_EmptySet
<1> QED
  BY <1>1, <1>2, <1>3 DEF ElectedSoFar

\* What keeps Consider from electing its candidate.
Refused(c, elected, maxTasks, maxDiscovery) ==
  \/ Len(elected) >= maxTasks
  \/ ConflictsWithElected(c, elected)
  \/ c.kind = "discovery" /\ DiscoveryCount(elected) >= maxDiscovery

LEMMA ConsiderRefuses ==
  ASSUME NEW S, NEW s \in Seq(S), NEW c \in S, NEW maxTasks, NEW maxDiscovery
  PROVE  /\ Refused(c, s, maxTasks, maxDiscovery) => Consider(s, c, maxTasks, maxDiscovery) = s
         /\ ~Refused(c, s, maxTasks, maxDiscovery)
              => /\ Consider(s, c, maxTasks, maxDiscovery) = Append(s, c)
                 /\ Consider(s, c, maxTasks, maxDiscovery) # s
<1>1. Append(s, c) # s
  <2>1. Len(s) \in Nat /\ Len(Append(s, c)) = Len(s) + 1
    OBVIOUS
  <2> QED
    BY <2>1
<1> QED
  BY <1>1 DEF Refused, Consider

\* A round keeps the account.
LEMMA RoundKeepsAccount ==
  ASSUME NEW cs, IsList(cs), NEW maxTasks \in Nat, NEW maxDiscovery \in Nat, NEW e,
         NEW n \in 1..Len(Ranked(cs)),
         e[n] = Consider(e[n - 1], cs[Ranked(cs)[n]], maxTasks, maxDiscovery),
         ElectedSoFar(cs, e, n - 1, maxTasks, maxDiscovery)
  PROVE  ElectedSoFar(cs, e, n, maxTasks, maxDiscovery)
<1> DEFINE S == {cs[i] : i \in DOMAIN cs}
           c == cs[Ranked(cs)[n]]
           s == e[n - 1]
<1>1. n \in Nat \ {0} /\ c \in S
  BY RankedIsSorted, PositionsAreFinite
<1>2. s \in Seq(S)
  BY DEF ElectedSoFar
<1>3. CASE Refused(c, s, maxTasks, maxDiscovery)
  <2>1. e[n] = s
    <3> HIDE DEF S, c, s
    <3> QED
      BY <1>1, <1>2, <1>3, ConsiderRefuses DEF c, s
  <2>2. /\ TakenRounds(e, n) = TakenRounds(e, n - 1)
        /\ DiscoveryRounds(cs, e, n) = DiscoveryRounds(cs, e, n - 1)
    BY <1>1, <2>1, RefusedRound
  <2> QED
    BY <2>1, <2>2 DEF ElectedSoFar
<1>4. CASE ~Refused(c, s, maxTasks, maxDiscovery)
  <2>1. e[n] = Append(s, c) /\ e[n] # s
    <3> HIDE DEF S, c, s
    <3> QED
      BY <1>1, <1>2, <1>4, ConsiderRefuses DEF c, s
  <2>2. /\ TakenRounds(e, n) = TakenRounds(e, n - 1) \union {n}
        /\ Cardinality(TakenRounds(e, n)) = Cardinality(TakenRounds(e, n - 1)) + 1
        /\ Cardinality(DiscoveryRounds(cs, e, n))
             = Cardinality(DiscoveryRounds(cs, e, n - 1)) + AsDiscovery(c)
    <3>1. e[n] # e[n - 1]
      BY <2>1
    <3>2. Counted(cs, e, n)
      <4> HIDE DEF S, c, s
      <4> QED
        BY <1>1, <3>1, TakenRound
    <3> QED
      BY <3>2 DEF Counted
  <2>3. /\ DiscoveryCount(s) \in Nat
        /\ DiscoveryCount(e[n]) = DiscoveryCount(s) + AsDiscovery(c)
    <3> HIDE DEF S, c, s
    <3> QED
      BY <1>1, <1>2, <2>1, DiscoveryCountOfAppend
  <2>4. /\ Len(s) \in Nat /\ Len(e[n]) = Len(s) + 1 /\ e[n] \in Seq(S)
        /\ DOMAIN s = 1..Len(s) /\ DOMAIN e[n] = 1..(Len(s) + 1)
        /\ e[n][Len(s) + 1] = c /\ \A k \in 1..Len(s) : e[n][k] = s[k]
    <3> HIDE DEF S, c, s
    <3> QED
      BY <1>1, <1>2, <2>1
  <2>5. /\ Len(s) = Cardinality(TakenRounds(e, n - 1)) /\ Len(s) < maxTasks
        /\ DiscoveryCount(s) = Cardinality(DiscoveryRounds(cs, e, n - 1))
        /\ DiscoveryCount(s) <= maxDiscovery
        /\ c.kind = "discovery" => DiscoveryCount(s) < maxDiscovery
    BY <1>4, <2>3, <2>4 DEF ElectedSoFar, Refused
  <2>6. /\ \A k \in DOMAIN s : \E m \in TakenRounds(e, n - 1) : s[k] = cs[Ranked(cs)[m]]
        /\ \A m \in TakenRounds(e, n - 1) : \E k \in DOMAIN s : s[k] = cs[Ranked(cs)[m]]
    BY DEF ElectedSoFar
  <2>7. \A k \in DOMAIN e[n] : \E m \in TakenRounds(e, n) : e[n][k] = cs[Ranked(cs)[m]]
    <3> SUFFICES ASSUME NEW k \in DOMAIN e[n]
                 PROVE  \E m \in TakenRounds(e, n) : e[n][k] = cs[Ranked(cs)[m]]
      OBVIOUS
    <3>1. CASE k = Len(s) + 1
      BY <2>2, <2>4, <3>1
    <3>2. CASE k \in 1..Len(s)
      <4>1. e[n][k] = s[k] /\ k \in DOMAIN s
        <5> HIDE DEF s
        <5> QED
          BY <2>4, <3>2
      <4>2. PICK m \in TakenRounds(e, n - 1) : s[k] = cs[Ranked(cs)[m]]
        BY <2>6, <4>1
      <4> QED
        BY <2>2, <4>1, <4>2
    <3> HIDE DEF s
    <3> QED
      BY <2>4, <3>1, <3>2
  <2>8. \A m \in TakenRounds(e, n) : \E k \in DOMAIN e[n] : e[n][k] = cs[Ranked(cs)[m]]
    <3> SUFFICES ASSUME NEW m \in TakenRounds(e, n)
                 PROVE  \E k \in DOMAIN e[n] : e[n][k] = cs[Ranked(cs)[m]]
      OBVIOUS
    <3>1. CASE m = n
      BY <2>4, <3>1
    <3>2. CASE m \in TakenRounds(e, n - 1)
      <4>1. PICK k \in DOMAIN s : s[k] = cs[Ranked(cs)[m]]
        BY <2>6, <3>2
      <4>2. k \in DOMAIN e[n] /\ e[n][k] = s[k]
        <5> HIDE DEF s
        <5> QED
          BY <2>4, <4>1
      <4> QED
        BY <4>1, <4>2
    <3> QED
      BY <2>2, <3>1, <3>2
  <2>9. /\ Len(e[n]) = Cardinality(TakenRounds(e, n)) /\ Len(e[n]) <= maxTasks
        /\ DiscoveryCount(e[n]) = Cardinality(DiscoveryRounds(cs, e, n))
        /\ DiscoveryCount(e[n]) <= maxDiscovery
    <3> HIDE DEF s, c
    <3> QED
      BY <2>2, <2>3, <2>4, <2>5 DEF AsDiscovery
  <2> QED
    BY <2>4, <2>7, <2>8, <2>9 DEF ElectedSoFar
<1> QED
  BY <1>3, <1>4

\* So it is right after every round.
LEMMA AccountIsRight ==
  ASSUME NEW cs, IsList(cs), NEW maxTasks \in Nat, NEW maxDiscovery \in Nat,
         NEW e, e = ElectedAfter(cs, maxTasks, maxDiscovery), NEW n \in 0..Len(Ranked(cs))
  PROVE  ElectedSoFar(cs, e, n, maxTasks, maxDiscovery)
<1> DEFINE N == Len(Ranked(cs))
           T == {k \in 0..N : ~ElectedSoFar(cs, e, k, maxTasks, maxDiscovery)}
<1>0. N \in Nat
  BY RankedIsSorted
<1>1. SUFFICES ASSUME T # {} PROVE FALSE
  OBVIOUS
<1>2. PICK k \in T : \A j \in T : ~(j < k)
  <2>1. T \subseteq Nat
    BY <1>0
  <2> HIDE DEF T
  <2> QED
    BY <1>1, <2>1, Least
<1>3. /\ e[0] = <<>>
      /\ \A j \in 1..N : e[j] = Consider(e[j - 1], cs[Ranked(cs)[j]], maxTasks, maxDiscovery)
  BY ElectionRounds
<1>4. k \in 0..N /\ ~ElectedSoFar(cs, e, k, maxTasks, maxDiscovery)
  BY <1>2
<1>5. k # 0
  BY <1>3, <1>4, NothingElectedYet
<1>6. k - 1 \in 0..N /\ k - 1 < k /\ k \in 1..N
  BY <1>0, <1>4, <1>5
<1>7. ElectedSoFar(cs, e, k - 1, maxTasks, maxDiscovery)
  BY <1>2, <1>6
<1> QED
  BY <1>3, <1>4, <1>6, <1>7, RoundKeepsAccount

------------------------------------------------------------------------------
(* The election is the greedy one                                           *)

Distinct(cs) == \A i, j \in DOMAIN cs : i # j => cs[i] # cs[j]

\* The positions that were elected, as ElectionJustified has them.
Chosen(cs, elected) == {i \in DOMAIN cs : \E k \in DOMAIN elected : elected[k] = cs[i]}

PositionsOf(cs, rounds) == {Ranked(cs)[m] : m \in rounds}

\* Rounds and the positions they consider are one to one.
LEMMA PositionsCount ==
  ASSUME NEW cs, IsList(cs), NEW U \in SUBSET (1..Len(Ranked(cs)))
  PROVE  Cardinality(PositionsOf(cs, U)) = Cardinality(U)
<1> DEFINE P == PositionsOf(cs, U)
           f == [m \in U |-> Ranked(cs)[m]]
<1>1. IsFiniteSet(U) /\ U \subseteq Int
  <2>1. Len(Ranked(cs)) \in Nat
    BY RankedIsSorted
  <2>2. IsFiniteSet(1..Len(Ranked(cs)))
    BY <2>1, FS_Interval
  <2>3. IsFiniteSet(U)
    BY <2>2, FS_Subset
  <2> QED
    BY <2>1, <2>3
<1>2. ASSUME NEW k \in U, NEW m \in U, Ranked(cs)[k] = Ranked(cs)[m] PROVE k = m
  <2>1. Ranked(cs)[k] \in DOMAIN cs
    BY RankedIsSorted, PositionsAreFinite
  <2>2. ~RanksBefore(cs, Ranked(cs)[k], Ranked(cs)[k])
    BY <2>1, RankingIsAnOrder
  <2>3. ~(k < m) /\ ~(m < k)
    BY <1>2, <2>2, RankedIsSorted
  <2> QED
    BY <1>1, <2>3
<1>3. f \in Bijection(U, P)
  <2>1. f \in Injection(U, P)
    BY <1>2 DEF Injection, IsInjective, PositionsOf
  <2>2. f \in Surjection(U, P)
    BY DEF Surjection, PositionsOf
  <2> QED
    BY <2>1, <2>2 DEF Bijection
<1>4. ExistsBijection(U, P)
  BY <1>3 DEF ExistsBijection
<1> QED
  BY <1>1, <1>4, FS_Bijection

\* What a round refuses or elects, it does by the candidates elected before.
LEMMA RoundJudges ==
  ASSUME NEW cs, IsList(cs), NEW maxTasks \in Nat, NEW maxDiscovery \in Nat,
         NEW e, e = ElectedAfter(cs, maxTasks, maxDiscovery), NEW m \in 1..Len(Ranked(cs))
  PROVE  /\ Refused(cs[Ranked(cs)[m]], e[m - 1], maxTasks, maxDiscovery) <=> e[m] = e[m - 1]
         /\ ElectedSoFar(cs, e, m - 1, maxTasks, maxDiscovery)
<1> DEFINE S == {cs[i] : i \in DOMAIN cs}
           c == cs[Ranked(cs)[m]]
           s == e[m - 1]
<1>1. m - 1 \in 0..Len(Ranked(cs)) /\ c \in S
  BY RankedIsSorted, PositionsAreFinite
<1>2. ElectedSoFar(cs, e, m - 1, maxTasks, maxDiscovery)
  BY <1>1, AccountIsRight
<1>3. s \in Seq(S)
  BY <1>2 DEF ElectedSoFar
<1>4. e[m] = Consider(s, c, maxTasks, maxDiscovery)
  BY ElectionRounds
<1>5. Refused(c, s, maxTasks, maxDiscovery) <=> e[m] = s
  <2> HIDE DEF S, c, s
  <2> QED
    BY <1>1, <1>3, <1>4, ConsiderRefuses
<1> QED
  BY <1>2, <1>5

\* The elected positions are those of the taken rounds.
LEMMA ChosenRounds ==
  ASSUME NEW cs, IsList(cs), Distinct(cs), NEW maxTasks \in Nat, NEW maxDiscovery \in Nat,
         NEW e, e = ElectedAfter(cs, maxTasks, maxDiscovery)
  PROVE  Chosen(cs, e[Len(Ranked(cs))]) = PositionsOf(cs, TakenRounds(e, Len(Ranked(cs))))
<1> DEFINE N == Len(Ranked(cs))
           T == TakenRounds(e, N)
<1>1. N \in Nat /\ N \in 0..N
  BY RankedIsSorted
<1>2. /\ \A k \in DOMAIN e[N] : \E m \in T : e[N][k] = cs[Ranked(cs)[m]]
      /\ \A m \in T : \E k \in DOMAIN e[N] : e[N][k] = cs[Ranked(cs)[m]]
  <2>1. ElectedSoFar(cs, e, N, maxTasks, maxDiscovery)
    BY <1>1, AccountIsRight
  <2> QED
    BY <2>1 DEF ElectedSoFar
<1>3. \A m \in T : Ranked(cs)[m] \in DOMAIN cs
  BY <1>1, RoundsAreFinite, RankedIsSorted, PositionsAreFinite
<1> HIDE DEF N, T
<1>4. ASSUME NEW i \in Chosen(cs, e[N]) PROVE i \in PositionsOf(cs, T)
  <2>1. i \in DOMAIN cs
    BY DEF Chosen
  <2>2. PICK k \in DOMAIN e[N] : e[N][k] = cs[i]
    BY DEF Chosen
  <2>3. PICK m \in T : e[N][k] = cs[Ranked(cs)[m]]
    BY <1>2
  <2>4. Ranked(cs)[m] = i
    BY <1>3, <2>1, <2>2, <2>3 DEF Distinct
  <2> QED
    BY <2>4 DEF PositionsOf
<1>5. ASSUME NEW i \in PositionsOf(cs, T) PROVE i \in Chosen(cs, e[N])
  <2>1. PICK m \in T : i = Ranked(cs)[m]
    BY DEF PositionsOf
  <2> QED
    BY <1>2, <1>3, <2>1 DEF Chosen
<1> QED
  BY <1>4, <1>5 DEF N, T

\* Two elected candidates do not exclude each other: the later one was considered
\* with the earlier one elected.
LEMMA ChosenAreCompatible ==
  ASSUME NEW cs, IsList(cs), NEW maxTasks \in Nat, NEW maxDiscovery \in Nat,
         NEW e, e = ElectedAfter(cs, maxTasks, maxDiscovery),
         NEW k \in TakenRounds(e, Len(Ranked(cs))), NEW m \in TakenRounds(e, Len(Ranked(cs))),
         k < m
  PROVE  /\ ~Exclusive(cs[Ranked(cs)[k]], cs[Ranked(cs)[m]])
         /\ ~Exclusive(cs[Ranked(cs)[m]], cs[Ranked(cs)[k]])
<1> DEFINE c == cs[Ranked(cs)[m]]
           s == e[m - 1]
<1>1. /\ m \in 1..Len(Ranked(cs)) /\ e[m] # e[m - 1]
      /\ k \in 1..Len(Ranked(cs)) /\ e[k] # e[k - 1] /\ Len(Ranked(cs)) \in Nat
  BY RankedIsSorted DEF TakenRounds
<1>2. k \in TakenRounds(e, m - 1)
  BY <1>1 DEF TakenRounds
<1>3. /\ ~Refused(c, s, maxTasks, maxDiscovery)
      /\ ElectedSoFar(cs, e, m - 1, maxTasks, maxDiscovery)
  BY <1>1, RoundJudges
<1>4. PICK x \in DOMAIN s : s[x] = cs[Ranked(cs)[k]]
  BY <1>2, <1>3 DEF ElectedSoFar
<1>5. ~Exclusive(c, s[x])
  BY <1>3, <1>4 DEF Refused, ConflictsWithElected
<1> QED
  BY <1>4, <1>5 DEF Exclusive

\* The elected candidates that rank before the one of round m are those of the rounds before.
LEMMA ChosenBefore ==
  ASSUME NEW cs, IsList(cs), NEW e, NEW m \in 1..Len(Ranked(cs))
  PROVE  {j \in PositionsOf(cs, TakenRounds(e, Len(Ranked(cs)))) : RanksBefore(cs, j, Ranked(cs)[m])}
           = PositionsOf(cs, TakenRounds(e, m - 1))
<1> DEFINE N == Len(Ranked(cs))
<1>1. N \in Nat /\ m \in 1..N
  BY RankedIsSorted
<1>2. \A k \in 1..N : RanksBefore(cs, Ranked(cs)[k], Ranked(cs)[m]) <=> k < m
  BY RankedIsSorted
<1>3. \A k \in 1..N : k \in TakenRounds(e, N) /\ k < m <=> k \in TakenRounds(e, m - 1)
  BY <1>1 DEF TakenRounds
<1>4. TakenRounds(e, N) \subseteq 1..N /\ TakenRounds(e, m - 1) \subseteq 1..N
  BY <1>1 DEF TakenRounds
<1> HIDE DEF N
<1>5. {j \in PositionsOf(cs, TakenRounds(e, N)) : RanksBefore(cs, j, Ranked(cs)[m])}
        = PositionsOf(cs, TakenRounds(e, m - 1))
  BY <1>2, <1>3, <1>4 DEF PositionsOf
<1> QED
  BY <1>5 DEF N

\* Who is passed over though electable is refused by elected candidates that rank before.
RefusedByBetter(cs, i, chosen, maxTasks, maxDiscovery) ==
  LET better == {j \in chosen : RanksBefore(cs, j, i)}
  IN  \/ Cardinality(better) >= maxTasks
      \/ \E j \in better : Exclusive(cs[i], cs[j])
      \/ /\ cs[i].kind = "discovery"
         /\ Cardinality({j \in better : cs[j].kind = "discovery"}) >= maxDiscovery

LEMMA PassedOverIsRefused ==
  ASSUME NEW cs, IsList(cs), Distinct(cs), NEW maxTasks \in Nat, NEW maxDiscovery \in Nat,
         NEW e, e = ElectedAfter(cs, maxTasks, maxDiscovery),
         NEW chosen, chosen = Chosen(cs, e[Len(Ranked(cs))]),
         NEW i \in ElectablePositions(cs), i \notin chosen
  PROVE  RefusedByBetter(cs, i, chosen, maxTasks, maxDiscovery)
<1> DEFINE N == Len(Ranked(cs))
           better == {j \in chosen : RanksBefore(cs, j, i)}
           discoveries == {j \in better : cs[j].kind = "discovery"}
<1>1. PICK m \in 1..N : Ranked(cs)[m] = i
  BY RankedIsSorted
<1>2. N \in Nat /\ m - 1 \in Nat /\ m - 1 <= N
  BY RankedIsSorted
<1>3. chosen = PositionsOf(cs, TakenRounds(e, N))
  BY ChosenRounds
<1>4. m \notin TakenRounds(e, N)
  BY <1>1, <1>3 DEF PositionsOf
<1>5. /\ Refused(cs[i], e[m - 1], maxTasks, maxDiscovery)
      /\ ElectedSoFar(cs, e, m - 1, maxTasks, maxDiscovery)
  <2>1. e[m] = e[m - 1]
    BY <1>4 DEF TakenRounds
  <2> QED
    BY <1>1, <2>1, RoundJudges
<1>6. better = PositionsOf(cs, TakenRounds(e, m - 1))
  BY <1>1, <1>3, ChosenBefore
<1>7. discoveries = PositionsOf(cs, DiscoveryRounds(cs, e, m - 1))
  BY <1>6 DEF PositionsOf, DiscoveryRounds
<1>8. /\ TakenRounds(e, m - 1) \subseteq 1..N
      /\ DiscoveryRounds(cs, e, m - 1) \subseteq 1..N
  <2>1. 1..(m - 1) \subseteq 1..N
    BY <1>2
  <2> QED
    BY <1>2, <2>1, RoundsAreFinite
<1>9. /\ Cardinality(better) = Cardinality(TakenRounds(e, m - 1))
      /\ Cardinality(discoveries) = Cardinality(DiscoveryRounds(cs, e, m - 1))
  <2> HIDE DEF better, discoveries
  <2> QED
    BY <1>6, <1>7, <1>8, PositionsCount
<1>10. /\ Cardinality(better) = Len(e[m - 1])
       /\ Cardinality(discoveries) = DiscoveryCount(e[m - 1])
  BY <1>5, <1>9 DEF ElectedSoFar
<1>11. ConflictsWithElected(cs[i], e[m - 1]) => \E j \in better : Exclusive(cs[i], cs[j])
  <2> SUFFICES ASSUME ConflictsWithElected(cs[i], e[m - 1])
               PROVE  \E j \in better : Exclusive(cs[i], cs[j])
    OBVIOUS
  <2>1. PICK x \in DOMAIN e[m - 1] : Exclusive(cs[i], e[m - 1][x])
    BY DEF ConflictsWithElected
  <2>2. PICK k \in TakenRounds(e, m - 1) : e[m - 1][x] = cs[Ranked(cs)[k]]
    BY <1>5 DEF ElectedSoFar
  <2>3. Ranked(cs)[k] \in better
    BY <1>6 DEF PositionsOf
  <2> QED
    BY <2>1, <2>2, <2>3
<1> HIDE DEF better, discoveries
<1>12. \/ Cardinality(better) >= maxTasks
       \/ \E j \in better : Exclusive(cs[i], cs[j])
       \/ cs[i].kind = "discovery" /\ Cardinality(discoveries) >= maxDiscovery
  BY <1>5, <1>10, <1>11 DEF Refused
<1> QED
  BY <1>12 DEF RefusedByBetter, better, discoveries

\* All of it together.
LEMMA ElectionIsGreedy ==
  ASSUME NEW cs, IsList(cs), Distinct(cs), NEW maxTasks \in Nat, NEW maxDiscovery \in Nat,
         NEW elected, elected = ElectCandidates(cs, maxTasks, maxDiscovery),
         NEW chosen, chosen = Chosen(cs, elected)
  PROVE  /\ Cardinality(chosen) = Len(elected) /\ Len(elected) <= maxTasks
         /\ \A i \in chosen : Electable(cs[i])
         /\ \A i, j \in chosen : i # j => ~Exclusive(cs[i], cs[j])
         /\ \A i \in DOMAIN cs \ chosen :
              ~Electable(cs[i]) \/ RefusedByBetter(cs, i, chosen, maxTasks, maxDiscovery)
<1> DEFINE N == Len(Ranked(cs))
           e == ElectedAfter(cs, maxTasks, maxDiscovery)
           T == TakenRounds(e, N)
<1>1. N \in Nat /\ N \in 0..N /\ elected = e[N]
  BY RankedIsSorted DEF ElectCandidates
<1>2. chosen = PositionsOf(cs, T)
  BY <1>1, ChosenRounds
<1>3. T \subseteq 1..N
  BY <1>1, RoundsAreFinite
<1>4. ElectedSoFar(cs, e, N, maxTasks, maxDiscovery)
  BY <1>1, AccountIsRight
<1>5. Cardinality(chosen) = Len(elected) /\ Len(elected) <= maxTasks
  BY <1>1, <1>2, <1>3, <1>4, PositionsCount DEF ElectedSoFar
<1>6. ASSUME NEW i \in chosen PROVE Electable(cs[i])
  BY <1>2, <1>3, RankedIsSorted DEF PositionsOf, ElectablePositions
<1>7. ASSUME NEW i \in chosen, NEW j \in chosen, i # j PROVE ~Exclusive(cs[i], cs[j])
  <2>1. PICK k \in T : i = Ranked(cs)[k]
    BY <1>2 DEF PositionsOf
  <2>2. PICK m \in T : j = Ranked(cs)[m]
    BY <1>2 DEF PositionsOf
  <2>3. k \in Int /\ m \in Int /\ k # m
    BY <1>1, <1>3, <1>7, <2>1, <2>2
  <2>4. CASE k < m
    BY <2>1, <2>2, <2>4, ChosenAreCompatible
  <2>5. CASE m < k
    BY <2>1, <2>2, <2>5, ChosenAreCompatible
  <2> QED
    BY <2>3, <2>4, <2>5
<1>8. ASSUME NEW i \in DOMAIN cs \ chosen, Electable(cs[i])
      PROVE  RefusedByBetter(cs, i, chosen, maxTasks, maxDiscovery)
  <2>1. i \in ElectablePositions(cs)
    BY <1>8 DEF ElectablePositions
  <2> QED
    BY <1>1, <1>8, <2>1, PassedOverIsRefused
<1> QED
  BY <1>5, <1>6, <1>7, <1>8

------------------------------------------------------------------------------
(* The worst value                                                          *)

LEMMA WorstUncertainty ==
  ASSUME NEW vals \in SUBSET (Uncertainties \union {"unset"}), NEW default
  PROVE  /\ "high" \in vals => Worst(vals, UncertaintyRank, default) = "high"
         /\ "high" \notin vals /\ "medium" \in vals
              => Worst(vals, UncertaintyRank, default) = "medium"
         /\ "high" \notin vals /\ "medium" \notin vals /\ "low" \in vals
              => Worst(vals, UncertaintyRank, default) = "low"
         /\ vals \subseteq {"unset"} => Worst(vals, UncertaintyRank, default) = default
<1> DEFINE present == vals \ {"unset"}
           worst(v) == \A w \in present : UncertaintyRank[w] <= UncertaintyRank[v]
<1>1. /\ UncertaintyRank["low"] = 0 /\ UncertaintyRank["medium"] = 1
      /\ UncertaintyRank["high"] = 2 /\ Uncertainties = {"low", "medium", "high"}
  BY DEF UncertaintyRank, Uncertainties
<1>2. Worst(vals, UncertaintyRank, default)
        = IF present = {} THEN default ELSE CHOOSE v \in present : worst(v)
  BY DEF Worst
<1>3. present \subseteq {"low", "medium", "high"}
  BY <1>1
<1>4. ASSUME NEW v \in present
      PROVE  worst(v) <=> \/ v = "high"
                          \/ v = "medium" /\ "high" \notin vals
                          \/ v = "low" /\ "high" \notin vals /\ "medium" \notin vals
  BY <1>1, <1>3
<1> HIDE DEF worst
<1>5. "high" \in vals => (CHOOSE v \in present : worst(v)) = "high"
  BY <1>4
<1>6. "high" \notin vals /\ "medium" \in vals => (CHOOSE v \in present : worst(v)) = "medium"
  BY <1>4
<1>7. "high" \notin vals /\ "medium" \notin vals /\ "low" \in vals
        => (CHOOSE v \in present : worst(v)) = "low"
  BY <1>4
<1> QED
  BY <1>2, <1>5, <1>6, <1>7

\* For confidence only whether it is low matters.
LEMMA WorstConfidence ==
  ASSUME NEW vals \in SUBSET (DOMAIN ConfidenceRank \union {"unset"})
  PROVE  Worst(vals, ConfidenceRank, "high") = "low" <=> "low" \in vals
<1> DEFINE present == vals \ {"unset"}
           worst(v) == \A w \in present : ConfidenceRank[w] <= ConfidenceRank[v]
<1>1. /\ ConfidenceRank["high"] = 0 /\ ConfidenceRank["medium"] = 1
      /\ ConfidenceRank["low"] = 2 /\ DOMAIN ConfidenceRank = {"low", "medium", "high"}
  BY DEF ConfidenceRank
<1>2. Worst(vals, ConfidenceRank, "high")
        = IF present = {} THEN "high" ELSE CHOOSE v \in present : worst(v)
  BY DEF Worst
<1>3. present \subseteq {"low", "medium", "high"}
  BY <1>1
<1>4. ASSUME NEW v \in present PROVE worst(v) /\ "low" \in vals => v = "low"
  BY <1>1, <1>3
<1>5. present # {} => \E v \in present : worst(v)
  <2>1. "low" \in present => worst("low")
    BY <1>1, <1>3
  <2>2. "low" \notin present /\ "medium" \in present => worst("medium")
    BY <1>1, <1>3
  <2>3. "low" \notin present /\ "medium" \notin present /\ "high" \in present => worst("high")
    BY <1>1, <1>3
  <2> HIDE DEF worst, present
  <2> QED
    BY <1>3, <2>1, <2>2, <2>3
<1> HIDE DEF worst
<1>6. present # {} => /\ (CHOOSE v \in present : worst(v)) \in present
                      /\ worst(CHOOSE v \in present : worst(v))
  <2> HIDE DEF present
  <2> QED
    BY <1>5
<1> QED
  BY <1>2, <1>4, <1>6

------------------------------------------------------------------------------
(* The cascade of tests                                                     *)

\* The verdict is that of the first test that holds, and some test does.
LEMMA VerdictIsFirst ==
  ASSUME NEW in
  PROVE  \E i \in 1..18 : /\ Tests(in)[i].holds /\ \A j \in 1..(i - 1) : ~Tests(in)[j].holds
                          /\ Verdict(in) = Tests(in)[i]
<1> DEFINE tests == Tests(in)
           First(i) == tests[i].holds /\ \A j \in 1..(i - 1) : ~tests[j].holds
           first == CHOOSE i \in DOMAIN tests : First(i)
           T == {i \in 1..18 : tests[i].holds}
<1>1. DOMAIN tests = 1..18 /\ tests[18].holds
  BY DEF Tests
<1> HIDE DEF tests
<1>2. PICK x \in T : \A y \in T : ~(y < x)
  <2>1. T \subseteq Nat /\ T # {}
    BY <1>1
  <2> HIDE DEF T
  <2> QED
    BY <2>1, Least
<1>3. x \in 1..18 /\ First(x)
  BY <1>2
<1>4. first \in 1..18 /\ First(first)
  <2> HIDE DEF First
  <2> QED
    BY <1>1, <1>3
<1>5. Verdict(in) = tests[first]
  BY Zenon DEF Verdict, tests, first
<1> HIDE DEF first
<1> QED
  BY <1>4, <1>5 DEF tests

\* What each test asks before the last one, which always holds.
LEMMA TestsHold ==
  ASSUME NEW in
  PROVE  /\ Tests(in)[1].holds <=> Len(in.elected) > in.policy.maxTasks
         /\ Tests(in)[2].holds <=> DiscoveryCount(in.elected) > in.policy.maxDiscovery
         /\ Tests(in)[3].holds <=> in.brake # "DRIVE"
         /\ Tests(in)[4].holds <=> (in.elected # <<>> /\ ~in.grounded)
         /\ Tests(in)[5].holds <=> (in.elected # <<>> /\ ~in.snapGrounded)
         /\ Tests(in)[6].holds <=> in.conf = "low"
         /\ Tests(in)[7].holds <=> EffectiveUncertainty(in.unc, in.elected) = "high"
         /\ Tests(in)[8].holds <=> in.health = "degraded"
         /\ Tests(in)[9].holds <=> in.elected = <<>>
         /\ Tests(in)[10].holds <=> in.late
         /\ Tests(in)[11].holds
              <=> Len(in.elected)
                  > ContinuationTaskLimit(in.policy.maxTasks,
                         EffectiveUncertainty(in.unc, in.elected), in.health)
         /\ Tests(in)[12].holds
              <=> (in.policy.nextRequires = "green_ci_or_explicit_handoff" /\ in.ci # "green")
         /\ Tests(in)[13].holds <=> in.count >= in.policy.maxEpochs
         /\ Tests(in)[14].holds
              <=> /\ \E i \in DOMAIN in.elected : in.elected[i].kind = "discovery"
                  /\ ~in.policy.recursiveDiscovery
         /\ Tests(in)[15].holds
              <=> \E i \in DOMAIN in.elected :
                    in.elected[i].kind = "execution" /\ in.elected[i].selfEvo
         /\ Tests(in)[16].holds
              <=> /\ in.policy.selfEvolution = "disabled"
                  /\ \E i \in DOMAIN in.elected : in.elected[i].selfEvo
         /\ Tests(in)[17].holds <=> \E i \in DOMAIN in.elected : in.elected[i].xl
<1>1. Tests(in)[1].holds <=> Len(in.elected) > in.policy.maxTasks
  BY DEF Tests
<1>2. Tests(in)[2].holds <=> DiscoveryCount(in.elected) > in.policy.maxDiscovery
  BY DEF Tests
<1>3. Tests(in)[3].holds <=> in.brake # "DRIVE"
  BY DEF Tests
<1>4. Tests(in)[4].holds <=> (in.elected # <<>> /\ ~in.grounded)
  BY DEF Tests
<1>5. Tests(in)[5].holds <=> (in.elected # <<>> /\ ~in.snapGrounded)
  BY DEF Tests
<1>6. Tests(in)[6].holds <=> in.conf = "low"
  BY DEF Tests
<1>7. Tests(in)[7].holds <=> EffectiveUncertainty(in.unc, in.elected) = "high"
  BY DEF Tests
<1>8. Tests(in)[8].holds <=> in.health = "degraded"
  BY DEF Tests
<1>9. Tests(in)[9].holds <=> in.elected = <<>>
  BY DEF Tests
<1>10. Tests(in)[10].holds <=> in.late
  BY DEF Tests
<1>11. Tests(in)[11].holds
        <=> Len(in.elected)
            > ContinuationTaskLimit(in.policy.maxTasks,
                   EffectiveUncertainty(in.unc, in.elected), in.health)
  BY DEF Tests
<1>12. Tests(in)[12].holds
         <=> (in.policy.nextRequires = "green_ci_or_explicit_handoff" /\ in.ci # "green")
  BY DEF Tests
<1>13. Tests(in)[13].holds <=> in.count >= in.policy.maxEpochs
  BY DEF Tests
<1>14. Tests(in)[14].holds
        <=> /\ \E i \in DOMAIN in.elected : in.elected[i].kind = "discovery"
            /\ ~in.policy.recursiveDiscovery
  BY DEF Tests
<1>15. Tests(in)[15].holds
        <=> \E i \in DOMAIN in.elected :
              in.elected[i].kind = "execution" /\ in.elected[i].selfEvo
  BY DEF Tests
<1>16. Tests(in)[16].holds
        <=> /\ in.policy.selfEvolution = "disabled"
            /\ \E i \in DOMAIN in.elected : in.elected[i].selfEvo
  BY DEF Tests
<1>17. Tests(in)[17].holds <=> \E i \in DOMAIN in.elected : in.elected[i].xl
  BY DEF Tests
<1> QED
  BY <1>1, <1>2, <1>3, <1>4, <1>5, <1>6, <1>7, <1>8, <1>9,
     <1>10, <1>11, <1>12, <1>13, <1>14, <1>15, <1>16, <1>17

\* Only the last test continues, and only the first, second and eleventh complain of
\* the size of what was elected.
SizeReasons == {"task_count", "discovery_count", "task_limit"}

LEMMA TestsAnswer ==
  ASSUME NEW in, NEW j \in 1..17
  PROVE  /\ Tests(in)[j].decision # "CONTINUE"
         /\ Tests(in)[j].reason \in SizeReasons => j \in {1, 2, 11}
<1>1. CASE j = 1
  BY <1>1 DEF Tests, SizeReasons
<1>2. CASE j = 2
  BY <1>2 DEF Tests, SizeReasons
<1>3. CASE j = 3
  BY <1>3 DEF Tests, SizeReasons
<1>4. CASE j = 4
  BY <1>4 DEF Tests, SizeReasons
<1>5. CASE j = 5
  BY <1>5 DEF Tests, SizeReasons
<1>6. CASE j = 6
  BY <1>6 DEF Tests, SizeReasons
<1>7. CASE j = 7
  BY <1>7 DEF Tests, SizeReasons
<1>8. CASE j = 8
  BY <1>8 DEF Tests, SizeReasons
<1>9. CASE j = 9
  BY <1>9 DEF Tests, SizeReasons
<1>10. CASE j = 10
  BY <1>10 DEF Tests, SizeReasons
<1>11. CASE j = 11
  BY <1>11 DEF Tests, SizeReasons
<1>12. CASE j = 12
  BY <1>12 DEF Tests, SizeReasons
<1>13. CASE j = 13
  BY <1>13 DEF Tests, SizeReasons
<1>14. CASE j = 14
  BY <1>14 DEF Tests, SizeReasons
<1>15. CASE j = 15
  BY <1>15 DEF Tests, SizeReasons
<1>16. CASE j = 16
  BY <1>16 DEF Tests, SizeReasons
<1>17. CASE j = 17
  BY <1>17 DEF Tests, SizeReasons
<1> QED
  BY <1>1, <1>2, <1>3, <1>4, <1>5, <1>6, <1>7, <1>8, <1>9,
     <1>10, <1>11, <1>12, <1>13, <1>14, <1>15, <1>16, <1>17

LEMMA LastTestPasses ==
  ASSUME NEW in
  PROVE  Tests(in)[18].decision = "CONTINUE" /\ Tests(in)[18].reason \notin SizeReasons
  BY DEF Tests, SizeReasons

\* So the answer is CONTINUE when nothing withholds it, and it complains of the size
\* of the election only if one of three tests does.
LEMMA ContinueUnlessWithheld ==
  ASSUME NEW in
  PROVE  /\ SelfCheckDecision(in) = "CONTINUE" <=> \A j \in 1..17 : ~Tests(in)[j].holds
         /\ Verdict(in).reason \in SizeReasons => \E j \in {1, 2, 11} : Tests(in)[j].holds
<1>1. PICK i \in 1..18 : /\ Tests(in)[i].holds /\ \A j \in 1..(i - 1) : ~Tests(in)[j].holds
                         /\ Verdict(in) = Tests(in)[i]
  BY VerdictIsFirst
<1>2. SelfCheckDecision(in) = Tests(in)[i].decision
  BY <1>1 DEF SelfCheckDecision
<1>3. CASE i = 18
  BY <1>1, <1>2, <1>3, TestsAnswer, LastTestPasses
<1>4. CASE i \in 1..17
  BY <1>1, <1>2, <1>4, TestsAnswer
<1> QED
  BY <1>3, <1>4

------------------------------------------------------------------------------
(* The command                                                              *)

UncertaintiesOf(req) ==
  {req.argUnc, req.runUnc, req.growth} \union {req.cands[i].unc : i \in DOMAIN req.cands}
UncertaintyOf(req) == Worst(UncertaintiesOf(req), UncertaintyRank, "low")
Asked(c) == IF c.req.argMaxTasks < c.policy.maxTasks THEN c.req.argMaxTasks ELSE c.policy.maxTasks
LimitOf(c) == ContinuationTaskLimit(Asked(c), UncertaintyOf(c.req), c.req.health)
ElectedOf(c) == ElectCandidates(c.req.cands, LimitOf(c), c.policy.maxDiscovery)

LEMMA PayloadHas ==
  ASSUME NEW c
  PROVE  /\ Payload(c).decision = SelfCheckDecision(Payload(c).in)
         /\ Payload(c).reason = Verdict(Payload(c).in).reason
         /\ Payload(c).in.brake = c.brake
         /\ Payload(c).in.unc = UncertaintyOf(c.req)
         /\ Payload(c).in.health = c.req.health
         /\ Payload(c).in.elected = ElectedOf(c)
         /\ Payload(c).in.policy = c.policy
         /\ Payload(c).in.grounded
         /\ Payload(c).in.snapGrounded <=> c.snap # NoSnap
         /\ Payload(c).in.ci = c.snap.ci
         /\ Payload(c).in.late = c.late
         /\ Payload(c).in.count = c.count
         /\ Payload(c).in.conf
              = Worst({IF c.snap.conf # "unset" THEN c.snap.conf ELSE c.base, c.req.runConf},
                      ConfidenceRank, "high")
  BY DEF Payload, SelfCheckPayload, UncertaintyOf, UncertaintiesOf, ElectedOf, LimitOf, Asked

\* What a case asks to elect under is at most what the epoch allows.
LEMMA LimitBounds ==
  ASSUME NEW c, IsCase(c)
  PROVE  /\ LimitOf(c) \in Nat /\ LimitOf(c) <= c.policy.maxTasks
         /\ LimitOf(c) <= ContinuationTaskLimit(c.policy.maxTasks, UncertaintyOf(c.req), c.req.health)
<1>1. /\ Asked(c) \in Nat /\ c.policy.maxTasks \in Nat /\ Asked(c) <= c.policy.maxTasks
  BY DEF IsCase, IsRequest, IsPolicy, Asked
<1> QED
  BY <1>1 DEF LimitOf, ContinuationTaskLimit

LEMMA CaseHasList ==
  ASSUME NEW c, IsCase(c)
  PROVE  IsList(c.req.cands) /\ Distinct(c.req.cands) /\ c.policy.maxDiscovery \in Nat
  BY DEF IsCase, IsRequest, IsCandidate, IsPolicy, IsList, Distinct

\* What is elected are candidates of the request, within the caps.
LEMMA ElectedWithinCaps ==
  ASSUME NEW c, IsCase(c)
  PROVE  /\ \A k \in DOMAIN ElectedOf(c) : \E i \in DOMAIN c.req.cands :
              ElectedOf(c)[k] = c.req.cands[i]
         /\ Len(ElectedOf(c)) \in Nat /\ Len(ElectedOf(c)) <= LimitOf(c)
         /\ DOMAIN ElectedOf(c) = 1..Len(ElectedOf(c))
         /\ DiscoveryCount(ElectedOf(c)) \in Int
         /\ DiscoveryCount(ElectedOf(c)) <= c.policy.maxDiscovery
         /\ ElectedOf(c) = <<>> <=> DOMAIN ElectedOf(c) = {}
<1> DEFINE cs == c.req.cands
           S == {cs[i] : i \in DOMAIN cs}
           N == Len(Ranked(cs))
           e == ElectedAfter(cs, LimitOf(c), c.policy.maxDiscovery)
           s == ElectedOf(c)
<1>1. IsList(cs) /\ LimitOf(c) \in Nat /\ c.policy.maxDiscovery \in Nat
  BY CaseHasList, LimitBounds
<1>2. N \in 0..N
  BY <1>1, RankedIsSorted
<1>3. ElectedSoFar(cs, e, N, LimitOf(c), c.policy.maxDiscovery)
  BY <1>1, <1>2, AccountIsRight
<1>4. s = e[N]
  BY DEF ElectedOf, ElectCandidates
<1>5. /\ s \in Seq(S) /\ Len(s) <= LimitOf(c) /\ DiscoveryCount(s) <= c.policy.maxDiscovery
      /\ DiscoveryCount(s) = Cardinality(DiscoveryRounds(cs, e, N))
  BY <1>3, <1>4 DEF ElectedSoFar
<1>6. DiscoveryCount(s) \in Nat
  <2>1. N \in Nat
    BY <1>2
  <2> QED
    BY <1>5, <2>1, RoundsAreFinite, FS_CardinalityType
<1> HIDE DEF s, e
<1>7. /\ Len(s) \in Nat /\ DOMAIN s = 1..Len(s) /\ \A k \in DOMAIN s : s[k] \in S
      /\ s = <<>> <=> DOMAIN s = {}
  <2> HIDE DEF S
  <2> QED
    BY <1>5
<1> QED
  BY <1>5, <1>6, <1>7 DEF s

\* The uncertainty of a request is that of the worst it names, so what is elected adds none.
LEMMA UncertaintyIsWorst ==
  ASSUME NEW c, IsCase(c)
  PROVE  /\ UncertaintyOf(c.req) = "high" <=> "high" \in UncertaintiesOf(c.req)
         /\ EffectiveUncertainty(UncertaintyOf(c.req), ElectedOf(c)) = UncertaintyOf(c.req)
<1> DEFINE U == UncertaintiesOf(c.req)
           u == UncertaintyOf(c.req)
           V == {u} \union {ElectedOf(c)[i].unc : i \in DOMAIN ElectedOf(c)}
<1>1. U \subseteq Uncertainties \union {"unset"} /\ c.req.argUnc \in U /\ c.req.argUnc \in Uncertainties
  BY DEF IsCase, IsRequest, IsCandidate, UncertaintiesOf
<1>2. Uncertainties = {"low", "medium", "high"}
  BY DEF Uncertainties, UncertaintyRank
<1>3. {ElectedOf(c)[i].unc : i \in DOMAIN ElectedOf(c)} \subseteq U
  BY ElectedWithinCaps DEF UncertaintiesOf
<1>4. u = Worst(U, UncertaintyRank, "low")
  BY DEF UncertaintyOf
<1>5. EffectiveUncertainty(u, ElectedOf(c)) = Worst(V, UncertaintyRank, u)
  BY DEF EffectiveUncertainty
<1> HIDE DEF U, u
<1>6. /\ "high" \in U => u = "high"
      /\ "high" \notin U /\ "medium" \in U => u = "medium"
      /\ "high" \notin U /\ "medium" \notin U => u = "low"
  BY <1>1, <1>2, <1>4, WorstUncertainty
<1>7. V \subseteq Uncertainties \union {"unset"} /\ u \in V
  BY <1>1, <1>2, <1>3, <1>6
<1>8. "high" \in V => "high" \in U
  BY <1>3, <1>6
<1>9. "medium" \in V => "medium" \in U
  BY <1>3, <1>6
<1> HIDE DEF V
<1>10. Worst(V, UncertaintyRank, u) = u
  BY <1>2, <1>6, <1>7, <1>8, <1>9, WorstUncertainty
<1> QED
  BY <1>5, <1>6, <1>10 DEF U, u

------------------------------------------------------------------------------
(* The theorems                                                             *)

\* A state has a request the command accepts, or none yet.
Accepted == case = NoCase \/ IsCase(case)

LEMMA CaseIsAccepted == Spec => []Accepted
<1>1. Init => Accepted
  BY DEF Init, Accepted
<1>2. Accepted /\ [Next]_case => Accepted'
  BY CasesAssumption DEF Next, Put, Accepted
<1> QED
  BY <1>1, <1>2, PTL DEF Spec

LEMMA SizeNeverWithholds ==
  ASSUME NEW c, IsCase(c), NEW in, in = Payload(c).in
  PROVE  ~Tests(in)[1].holds /\ ~Tests(in)[2].holds /\ ~Tests(in)[11].holds
<1> DEFINE s == ElectedOf(c)
           unc == UncertaintyOf(c.req)
           limit == ContinuationTaskLimit(c.policy.maxTasks, unc, c.req.health)
<1>1. /\ in.elected = s /\ in.policy = c.policy /\ in.unc = unc /\ in.health = c.req.health
  BY PayloadHas
<1>2. /\ Len(s) \in Nat /\ Len(s) <= LimitOf(c)
      /\ DiscoveryCount(s) \in Int /\ DiscoveryCount(s) <= c.policy.maxDiscovery
  BY ElectedWithinCaps
<1>3. LimitOf(c) \in Nat /\ LimitOf(c) <= c.policy.maxTasks /\ LimitOf(c) <= limit
  BY LimitBounds
<1>4. c.policy.maxTasks \in Nat /\ c.policy.maxDiscovery \in Nat /\ limit \in Nat
  BY DEF ContinuationTaskLimit, IsCase, IsPolicy
<1>5. EffectiveUncertainty(unc, s) = unc
  BY UncertaintyIsWorst
<1> HIDE DEF s, unc, limit
<1>6. ~(Len(s) > c.policy.maxTasks) /\ ~(DiscoveryCount(s) > c.policy.maxDiscovery)
      /\ ~(Len(s) > limit)
  BY <1>2, <1>3, <1>4
<1>7. ContinuationTaskLimit(in.policy.maxTasks, EffectiveUncertainty(in.unc, in.elected), in.health)
        = limit
  BY <1>1, <1>5 DEF limit
<1> QED
  BY <1>1, <1>6, <1>7, TestsHold

\* No self-check asks for approval because of the size of its own election, whatever
\* is put to it: what elect_candidates is told (cli.py 1124-1130) never lets it elect
\* more than self_check_decision (epochs.py 1101-1107, 1125) then accepts.
THEOREM ElectionNeverAgainstItself == Spec => []ElectionFitsItsOwnCheck
<1>1. ASSUME IsCase(case) PROVE Payload(case).reason \notin SizeReasons
  <2>1. PICK in : in = Payload(case).in
    OBVIOUS
  <2>2. Payload(case).reason = Verdict(in).reason
    BY <2>1, PayloadHas
  <2> QED
    BY <1>1, <2>1, <2>2, SizeNeverWithholds, ContinueUnlessWithheld
<1>2. Accepted => ElectionFitsItsOwnCheck
  BY <1>1 DEF Accepted, ElectionFitsItsOwnCheck, SizeReasons
<1> QED
  BY <1>2, CaseIsAccepted, PTL

\* Whatever is put to it, the election is the greedy one: sound, compatible, within
\* the caps, and who is passed over is refused by better ones (epochs.py 1011-1049).
THEOREM ElectionIsJustified == Spec => []ElectionJustified
<1>1. ASSUME IsCase(case) PROVE ElectionJustified
  <2> DEFINE cs == case.req.cands
             elected == ElectedOf(case)
             chosen == Chosen(cs, elected)
  <2>1. /\ IsList(cs) /\ Distinct(cs) /\ LimitOf(case) \in Nat
        /\ case.policy.maxDiscovery \in Nat
    BY <1>1, CaseHasList, LimitBounds
  <2>2. elected = ElectCandidates(cs, LimitOf(case), case.policy.maxDiscovery)
    BY DEF ElectedOf
  <2>3. /\ Cardinality(chosen) = Len(elected) /\ Len(elected) <= LimitOf(case)
        /\ \A i \in chosen : Electable(cs[i])
        /\ \A i, j \in chosen : i # j => ~Exclusive(cs[i], cs[j])
        /\ \A i \in DOMAIN cs \ chosen :
             ~Electable(cs[i])
               \/ RefusedByBetter(cs, i, chosen, LimitOf(case), case.policy.maxDiscovery)
    <3> HIDE DEF cs, elected, chosen
    <3> QED
      BY <2>1, <2>2, ElectionIsGreedy DEF chosen
  <2>4. /\ Payload(case).in.elected = elected
        /\ Payload(case).in.unc = UncertaintyOf(case.req)
        /\ Payload(case).in.health = case.req.health
    BY PayloadHas
  <2>5. LimitOf(case) = ContinuationTaskLimit(
                          IF case.req.argMaxTasks < case.policy.maxTasks
                          THEN case.req.argMaxTasks ELSE case.policy.maxTasks,
                          Payload(case).in.unc, Payload(case).in.health)
    BY <2>4 DEF LimitOf, Asked
  <2> DEFINE limit == LimitOf(case)
             before(i) == {j \in chosen : RanksBefore(cs, j, i)}
  <2>6. ASSUME NEW i \in DOMAIN cs \ chosen
        PROVE  \/ ~Electable(cs[i])
               \/ Cardinality(before(i)) >= limit
               \/ \E j \in before(i) : Exclusive(cs[i], cs[j])
               \/ /\ cs[i].kind = "discovery"
                  /\ Cardinality({j \in before(i) : cs[j].kind = "discovery"})
                       >= case.policy.maxDiscovery
    BY <2>3 DEF RefusedByBetter
  <2>7. chosen = {i \in DOMAIN cs : \E k \in DOMAIN Payload(case).in.elected :
                                      Payload(case).in.elected[k] = cs[i]}
    BY <2>4 DEF Chosen
  <2> QED
    BY <2>3, <2>4, <2>5, <2>6, <2>7 DEF ElectionJustified
<1> QED
  <2>1. Accepted => ElectionJustified
    BY <1>1 DEF Accepted, ElectionJustified
  <2> QED
    BY <2>1, CaseIsAccepted, PTL

\* Whatever is put to it, the command continues exactly when everything that
\* docs/protocol.md asks of a continuation holds (epochs.py 1100-1141).
THEOREM ContinuesExactlyWhenGoverned == Spec => []ContinueExactlyWhenGoverned
<1>1. ASSUME IsCase(case) PROVE ContinueExactlyWhenGoverned
  <2> DEFINE s == ElectedOf(case)
             elected == {s[i] : i \in DOMAIN s}
             policy == case.policy
             uncertainties == UncertaintiesOf(case.req)
  <2>1. PICK in : in = Payload(case).in
    OBVIOUS
  <2>2. Payload(case).decision = "CONTINUE" <=> \A j \in 1..17 : ~Tests(in)[j].holds
    BY <2>1, PayloadHas, ContinueUnlessWithheld
  <2>3. ~Tests(in)[1].holds /\ ~Tests(in)[2].holds /\ ~Tests(in)[11].holds
    BY <1>1, <2>1, SizeNeverWithholds
  <2>4. /\ in.elected = s /\ in.policy = policy /\ in.brake = case.brake /\ in.grounded
        /\ in.snapGrounded <=> case.snap # NoSnap
        /\ in.health = case.req.health /\ in.ci = case.snap.ci /\ in.late = case.late
        /\ in.count = case.count
    BY <2>1, PayloadHas
  <2>5. s = <<>> <=> elected = {}
    BY <1>1, ElectedWithinCaps
  <2>6. EffectiveUncertainty(in.unc, s) = "high" <=> "high" \in uncertainties
    BY <1>1, <2>1, PayloadHas, UncertaintyIsWorst
  <2>7. case.snap # NoSnap => (in.conf = "low" <=> "low" \in {case.snap.conf, case.req.runConf})
    <3> SUFFICES ASSUME case.snap # NoSnap
                 PROVE  in.conf = "low" <=> "low" \in {case.snap.conf, case.req.runConf}
      OBVIOUS
    <3>1. /\ case.snap.conf \in DOMAIN ConfidenceRank /\ case.snap.conf # "unset"
          /\ case.req.runConf \in DOMAIN ConfidenceRank \union {"unset"}
      BY <1>1 DEF IsCase, IsRequest, ConfidenceRank
    <3>2. in.conf = Worst({case.snap.conf, case.req.runConf}, ConfidenceRank, "high")
      BY <2>1, <3>1, PayloadHas
    <3> QED
      BY <3>1, <3>2, WorstConfidence
  <2>8. /\ policy.maxEpochs \in Nat /\ case.count \in Nat
        /\ policy.nextRequires \in {"green_ci_or_explicit_handoff", "none"}
        /\ \A x \in elected : x.kind \in {"execution", "discovery"}
    BY <1>1, ElectedWithinCaps DEF IsCase, IsPolicy, IsRequest, IsCandidate
  <2> HIDE DEF s, policy, uncertainties
  <2>9. /\ Tests(in)[3].holds <=> case.brake # "DRIVE"
        /\ Tests(in)[9].holds <=> elected = {}
        /\ Tests(in)[4].holds <=> FALSE
        /\ Tests(in)[5].holds <=> elected # {} /\ case.snap = NoSnap
        /\ Tests(in)[7].holds <=> "high" \in uncertainties
        /\ Tests(in)[8].holds <=> case.req.health = "degraded"
        /\ Tests(in)[10].holds <=> case.late
    BY <2>4, <2>5, <2>6, TestsHold
  <2>10. /\ Tests(in)[12].holds <=> ~(policy.nextRequires = "none" \/ case.snap.ci = "green")
         /\ Tests(in)[13].holds <=> ~(case.count < policy.maxEpochs)
         /\ case.snap # NoSnap
              => (Tests(in)[6].holds <=> "low" \in {case.snap.conf, case.req.runConf})
    BY <2>4, <2>7, <2>8, TestsHold
  <2>11. Tests(in)[14].holds <=> ~\A x \in elected : x.kind = "discovery" => policy.recursiveDiscovery
    BY <2>4, TestsHold
  <2>12. Tests(in)[15].holds \/ Tests(in)[16].holds
           <=> ~\A x \in elected :
                  x.selfEvo => x.kind # "execution" /\ policy.selfEvolution # "disabled"
    <3>1. /\ Tests(in)[15].holds
               <=> \E i \in DOMAIN s : s[i].kind = "execution" /\ s[i].selfEvo
          /\ Tests(in)[16].holds
               <=> policy.selfEvolution = "disabled" /\ \E i \in DOMAIN s : s[i].selfEvo
      BY ONLY <2>4, TestsHold
    <3> QED
      BY <3>1
  <2>13. Tests(in)[17].holds <=> ~\A x \in elected : ~x.xl
    <3>1. Tests(in)[17].holds <=> \E i \in DOMAIN s : s[i].xl
      BY ONLY <2>4, TestsHold
    <3> QED
      BY <3>1
  <2>14. (\A j \in 1..17 : ~Tests(in)[j].holds)
           <=> /\ case.brake = "DRIVE"
               /\ case.snap # NoSnap /\ "low" \notin {case.snap.conf, case.req.runConf}
               /\ "high" \notin uncertainties
               /\ case.req.health # "degraded"
               /\ ~case.late
               /\ case.count < policy.maxEpochs
               /\ policy.nextRequires = "none" \/ case.snap.ci = "green"
               /\ elected # {}
               /\ \A x \in elected :
                    /\ ~x.xl
                    /\ x.kind = "discovery" => policy.recursiveDiscovery
                    /\ x.selfEvo => x.kind # "execution" /\ policy.selfEvolution # "disabled"
    <3>1. (\A j \in 1..17 : ~Tests(in)[j].holds)
            <=> ~ \/ Tests(in)[1].holds \/ Tests(in)[2].holds \/ Tests(in)[3].holds
                  \/ Tests(in)[4].holds \/ Tests(in)[5].holds \/ Tests(in)[6].holds
                  \/ Tests(in)[7].holds \/ Tests(in)[8].holds \/ Tests(in)[9].holds
                  \/ Tests(in)[10].holds \/ Tests(in)[11].holds \/ Tests(in)[12].holds
                  \/ Tests(in)[13].holds \/ Tests(in)[14].holds \/ Tests(in)[15].holds
                  \/ Tests(in)[16].holds \/ Tests(in)[17].holds
      BY SMT
    <3> HIDE DEF elected
    <3> QED
      BY <2>3, <2>9, <2>10, <2>11, <2>12, <2>13, <3>1
  <2>15. /\ elected = {Payload(case).in.elected[i] : i \in DOMAIN Payload(case).in.elected}
         /\ uncertainties = {case.req.argUnc, case.req.runUnc, case.req.growth}
                              \union {case.req.cands[i].unc : i \in DOMAIN case.req.cands}
    BY <2>1, <2>4 DEF uncertainties, UncertaintiesOf
  <2> HIDE DEF elected
  <2> QED
    BY <2>2, <2>14, <2>15 DEF ContinueExactlyWhenGoverned, policy
<1> QED
  <2>1. Accepted => ContinueExactlyWhenGoverned
    BY <1>1 DEF Accepted, ContinueExactlyWhenGoverned
  <2> QED
    BY <2>1, CaseIsAccepted, PTL
==============================================================================
