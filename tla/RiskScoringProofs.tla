-------------------------- MODULE RiskScoringProofs --------------------------
(***************************************************************************)
(* What holds of the scores for every file, URL and output, not only for   *)
(* those the run walks through.                                            *)
(***************************************************************************)
EXTENDS MCRiskScoring, FiniteSetTheorems, SequenceTheorems, TLAPS

LEMMA PointsType ==
  ASSUME NEW finding, NEW points \in Nat
  PROVE  Points(finding, points) \in {0, points}
  BY DEF Points

LEMMA NameRiskType ==
  ASSUME NEW f
  PROVE  nameRisk(f) \in Nat
  <1>1. Points(getExtension(f.name), 25) \in {0, 25}
    BY PointsType
  <1>2. Points(checkDoubleExtension(f.name), 30) \in {0, 30}
    BY PointsType
  <1> QED
    BY <1>1, <1>2 DEF nameRisk

LEMMA ContentRiskType ==
  ASSUME NEW f \in Files
  PROVE  contentRisk(f) \in Nat
  <1>1. f.entropy \in EntropyLevels /\ f.imports \in 0 .. 13
    BY DEF Files
  <1>2. EntropyPoints[f.entropy] \in {0, 10, 20}
    BY <1>1 DEF EntropyPoints, EntropyLevels
  <1>3. AtMost(40, 8 * f.imports) \in 0 .. 40
    BY <1>1 DEF AtMost
  <1>4. Points(f.pe = "parsed", AtMost(40, 8 * f.imports)) \in Nat
    BY <1>3, PointsType
  <1>5. Points(f.pe = "broken", 10) \in {0, 10}
    BY PointsType
  <1> QED
    BY <1>2, <1>4, <1>5 DEF contentRisk

\* The risk score of a file stays within 0 to 100, whatever was found and
\* whether or not it could be downloaded (static-analyzer.worker.ts).
THEOREM StaticRiskInRange ==
  ASSUME NEW f \in Files, NEW downloaded
  PROVE  staticRisk(f, downloaded) \in 0 .. 100
  <1>1. nameRisk(f) \in Nat /\ contentRisk(f) \in Nat
    BY NameRiskType, ContentRiskType
  <1>2. Points(downloaded, contentRisk(f)) \in Nat
    BY <1>1, PointsType
  <1> QED
    BY <1>1, <1>2 DEF staticRisk, AtMost

LEMMA HeuristicRiskType ==
  ASSUME NEW u \in Urls
  PROVE  heuristicRisk(u) \in Nat
  <1>1. AtMost(30, 10 * u.keywords) \in 0 .. 30
    <2>1. u.keywords \in 0 .. 21
      BY DEF Urls
    <2> QED
      BY <2>1 DEF AtMost
  <1>2. /\ Points(u.http, 10) \in {0, 10} /\ Points(u.ip, 25) \in {0, 25}
        /\ Points(u.tld, 20) \in {0, 20} /\ Points(u.deep, 20) \in {0, 20}
        /\ Points(u.port, 15) \in {0, 15} /\ Points(u.long, 10) \in {0, 10}
        /\ Points(u.encoded, 15) \in {0, 15}
    BY PointsType
  <1> QED
    BY <1>1, <1>2 DEF heuristicRisk

\* The same of a URL, valid or not and known to Safe Browsing or not
\* (url-analyzer.worker.ts).
THEOREM UrlRiskInRange ==
  ASSUME NEW u \in Urls, NEW threats
  PROVE  urlRisk(u, threats) \in 0 .. 100
  <1> DEFINE base == IF u.valid THEN heuristicRisk(u) ELSE 30
  <1>1. base \in Nat
    BY HeuristicRiskType
  <1>2. Points(threats, 50) \in {0, 50}
    BY PointsType
  <1>3. urlRisk(u, threats) = AtMost(100, base + Points(threats, 50))
    BY DEF urlRisk
  <1> HIDE DEF base
  <1> QED
    BY <1>1, <1>2, <1>3 DEF AtMost

\* The same of a container's output (sandbox-executor.worker.ts).
THEOREM SandboxRiskInRange ==
  ASSUME NEW found \in Nat
  PROVE  sandboxRisk(found) \in 0 .. 100
  BY DEF sandboxRisk, AtMost

\* A higher score never has a lower severity.
THEOREM SeverityMonotone ==
  ASSUME NEW s \in Int, NEW t \in Int, s <= t
  PROVE  Rank[scoreToSeverity(s)] <= Rank[scoreToSeverity(t)]
  BY DEF Rank, scoreToSeverity

LEMMA SeverityType ==
  ASSUME NEW s \in Int
  PROVE  scoreToSeverity(s) \in Severities
  BY DEF scoreToSeverity, Severities

\* The thresholds that ai-analyzer.worker.ts repeats for its summary agree with
\* those of the severity at every score.
THEOREM SummaryAlwaysAgrees ==
  ASSUME NEW score \in Int
  PROVE  SummaryAgrees(score)
  BY DEF SummaryAgrees, fallbackRiskLevel, fallbackRecommendation, scoreToSeverity

Pick(s) == CHOOSE x \in s : TRUE

IsTotal(f, D) ==
    f = [s \in D |-> IF s = {} THEN 0 ELSE Pick(s).score + f[s \ {Pick(s)}]]

Small(S, n) == {s \in SUBSET S : Cardinality(s) <= n}

\* A nonempty set of natural numbers has a least element.
LEMMA LeastNumber ==
  ASSUME NEW T \in SUBSET Nat, T # {}
  PROVE  \E n \in T : \A m \in T : n <= m
<1>1. PICK top \in T : TRUE
  OBVIOUS
<1> DEFINE Segments == {0 .. m : m \in {k \in T : k <= top}}
<1>2. Segments \subseteq FiniteSubsetsOf(0 .. top) /\ Segments # {}
  <2>1. 0 \in Int /\ top \in Int
    OBVIOUS
  <2>2. IsFiniteSet(0 .. top)
    BY <2>1, FS_Interval
  <2>3. FiniteSubsetsOf(0 .. top) = SUBSET (0 .. top)
    BY <2>2, FS_FiniteSubsetsOfFinite
  <2> QED
    BY <2>3
<1>3. PICK x \in Segments :
        \A y \in Segments : ~(<<y, x>> \in StrictSubsetOrdering(0 .. top))
  BY <1>2, FS_StrictSubsetOrderingWellFounded, WFMin
<1>4. PICK n \in T : n <= top /\ x = 0 .. n
  OBVIOUS
<1>5. ASSUME NEW m \in T, m < n
      PROVE  FALSE
  <2>1. 0 .. m \in Segments
    BY <1>4, <1>5
  <2>2. 0 .. m \subseteq x /\ n \in x /\ n \notin 0 .. m /\ x \subseteq 0 .. top
    BY <1>4, <1>5
  <2>3. <<0 .. m, x>> \in StrictSubsetOrdering(0 .. top)
    BY <2>2 DEF StrictSubsetOrdering
  <2> QED
    BY <1>3, <2>1, <2>3
<1> QED
  BY <1>4, <1>5

LEMMA PickIn == ASSUME NEW s, s # {} PROVE Pick(s) \in s
  BY DEF Pick

LEMMA TotalOnSmall ==
  ASSUME NEW S, IsFiniteSet(S)
  PROVE  \A n \in Nat : \E f : IsTotal(f, Small(S, n))
<1> DEFINE Bad == {n \in Nat : ~\E f : IsTotal(f, Small(S, n))}
<1>1. SUFFICES ASSUME Bad # {} PROVE FALSE
  OBVIOUS
<1>2. PICK n \in Bad : \A m \in Bad : n <= m
  BY <1>1, LeastNumber
<1>3. CASE n = 0
  <2>1. Small(S, 0) = {{}}
    BY FS_EmptySet, FS_Subset, FS_CardinalityType DEF Small
  <2> DEFINE f == [s \in {{}} |-> 0]
  <2>2. f = [s \in {{}} |-> IF s = {} THEN 0 ELSE Pick(s).score + f[s \ {Pick(s)}]]
    OBVIOUS
  <2> QED
    BY <1>2, <1>3, <2>1, <2>2 DEF IsTotal
<1>4. CASE n # 0
  <2>1. n - 1 \in Nat /\ n - 1 \notin Bad
    BY <1>2, <1>4
  <2>2. PICK g : IsTotal(g, Small(S, n - 1))
    BY <2>1
  <2> DEFINE D == Small(S, n - 1)
             E == Small(S, n)
             f == [s \in E |-> IF s = {} THEN 0 ELSE Pick(s).score + g[s \ {Pick(s)}]]
  <2>3. D \subseteq E
    <3>1. \A s \in SUBSET S : Cardinality(s) \in Nat
      BY FS_Subset, FS_CardinalityType
    <3> QED
      BY <1>2, <3>1 DEF Small
  <2>4. ASSUME NEW s \in E, s # {}
        PROVE  s \ {Pick(s)} \in D
    <3>1. IsFiniteSet(s) /\ Cardinality(s) \in Nat /\ Cardinality(s) <= n
      BY FS_Subset, FS_CardinalityType DEF Small
    <3>2. Cardinality(s \ {Pick(s)}) = Cardinality(s) - 1
      BY <2>4, <3>1, PickIn, FS_RemoveElement
    <3> QED
      BY <1>2, <3>1, <3>2 DEF Small
  <2>5. g = [s \in D |-> IF s = {} THEN 0 ELSE Pick(s).score + g[s \ {Pick(s)}]]
    BY <2>2 DEF IsTotal
  <2> HIDE DEF D, E
  <2>6. \A s \in D : f[s] = g[s]
    <3> SUFFICES ASSUME NEW s \in D PROVE f[s] = g[s]
      OBVIOUS
    <3>1. g[s] = IF s = {} THEN 0 ELSE Pick(s).score + g[s \ {Pick(s)}]
      BY <2>5
    <3> QED
      BY <2>3, <3>1
  <2>7. f = [s \in E |-> IF s = {} THEN 0 ELSE Pick(s).score + f[s \ {Pick(s)}]]
    <3> DEFINE h == [s \in E |-> IF s = {} THEN 0 ELSE Pick(s).score + f[s \ {Pick(s)}]]
    <3>1. \A s \in E : f[s] = h[s]
      BY <2>4, <2>6
    <3> QED
      BY <3>1
  <2>8. IsTotal(f, Small(S, n))
    BY <2>7 DEF IsTotal, E
  <2> QED
    BY <1>2, <2>8
<1> QED
  BY <1>3, <1>4

LEMMA TotalExists ==
  ASSUME NEW S, IsFiniteSet(S)
  PROVE  \E f : IsTotal(f, SUBSET S)
<1>1. Cardinality(S) \in Nat
  BY FS_CardinalityType
<1>2. Small(S, Cardinality(S)) = SUBSET S
  BY FS_Subset DEF Small
<1>3. \E f : IsTotal(f, Small(S, Cardinality(S)))
  BY <1>1, TotalOnSmall
<1> QED
  BY <1>2, <1>3

LEMMA SumIsTotal ==
  ASSUME NEW S, IsFiniteSet(S)
  PROVE  \E f : /\ IsTotal(f, SUBSET S)
                /\ MapThenSumSet(LAMBDA r : r.score, S) = f[S]
<1> DEFINE f == CHOOSE f : IsTotal(f, SUBSET S)
<1>1. IsTotal(f, SUBSET S)
  BY TotalExists
<1>2. MapThenSumSet(LAMBDA r : r.score, S) = f[S]
  BY DEF MapThenSumSet, MapThenFoldSet, IsTotal, Pick
<1> QED
  BY <1>1, <1>2

\* The sum of scores, none above a maximum, is at most that maximum for each.
LEMMA TotalBounds ==
  ASSUME NEW S, IsFiniteSet(S), NEW f, IsTotal(f, SUBSET S), NEW top \in Nat,
         \A r \in S : r.score \in 0 .. top
  PROVE  f[S] \in Nat /\ f[S] <= Cardinality(S) * top
<1> DEFINE Bound(s) == f[s] \in Nat /\ f[s] <= Cardinality(s) * top
           Bad == {n \in Nat : \E s \in SUBSET S : Cardinality(s) = n /\ ~Bound(s)}
<1>1. \A s \in SUBSET S : IsFiniteSet(s) /\ Cardinality(s) \in Nat
  BY FS_Subset, FS_CardinalityType
<1>2. ASSUME Bad # {} PROVE FALSE
  <2>1. PICK n \in Bad : \A m \in Bad : n <= m
    BY <1>2, LeastNumber
  <2>2. PICK s \in SUBSET S : Cardinality(s) = n /\ ~Bound(s)
    OBVIOUS
  <2>3. f[s] = IF s = {} THEN 0 ELSE Pick(s).score + f[s \ {Pick(s)}]
    BY DEF IsTotal
  <2>4. CASE s = {}
    <3>1. f[s] = 0 /\ Cardinality(s) = 0
      BY <2>3, <2>4, FS_EmptySet
    <3> QED
      BY <2>2, <3>1
  <2>5. CASE s # {}
    <3> DEFINE x == Pick(s)
               rest == s \ {Pick(s)}
    <3>1. x \in s /\ x.score \in 0 .. top
      BY <2>5, PickIn
    <3>2. Cardinality(rest) = n - 1 /\ n - 1 \in Nat
      <4>1. Cardinality(rest) \in Nat
        BY <1>1
      <4>2. Cardinality(rest) = n - 1
        BY <1>1, <2>2, <3>1, FS_RemoveElement
      <4> QED
        BY <4>1, <4>2
    <3>3. rest \in SUBSET S /\ n - 1 \notin Bad
      BY <2>1, <3>2
    <3>4. f[rest] \in Nat /\ f[rest] <= (n - 1) * top
      BY <3>2, <3>3
    <3>5. f[s] = x.score + f[rest]
      BY <2>3, <2>5
    <3>6. (n - 1) * top + top = n * top /\ (n - 1) * top \in Nat
      BY <3>2
    <3> HIDE DEF x, rest
    <3>7. f[s] \in Nat /\ f[s] <= n * top
      BY <3>1, <3>4, <3>5, <3>6
    <3> QED
      BY <2>2, <3>7
  <2> QED
    BY <2>4, <2>5
<1>3. Bound(S)
  BY <1>1, <1>2
<1> QED
  BY <1>3

LEMMA MeanAtMost ==
  ASSUME NEW n \in Nat \ {0}, NEW total \in Nat, NEW top \in Nat, total <= n * top
  PROVE  (200 * total + n) \div (2 * n) \in 0 .. 100 * top
<1> DEFINE a == 200 * total + n
           b == 2 * n
           q == a \div b
<1>1. a \in Nat /\ b \in Nat \ {0} /\ q \in Int
  OBVIOUS
<1>2. b * q <= a /\ a < b * q + b
  BY <1>1, Z3
<1>3. 0 <= q
  BY <1>1, <1>2, Z3
<1>4. a < b * (100 * top) + b
  OBVIOUS
<1> HIDE DEF a, b, q
<1>5. q < 100 * top + 1
  BY <1>1, <1>2, <1>4, Z3
<1> QED
  BY <1>1, <1>3, <1>5 DEF q, a, b

\* Some result has the highest score of a finite set of them.
LEMMA HighestScore ==
  ASSUME NEW S, IsFiniteSet(S), S # {}, \A r \in S : r.score \in 0 .. 100
  PROVE  \E r \in S : \A q \in S : q.score <= r.score
<1> DEFINE Upper == {m \in Nat : \A r \in S : r.score <= m}
<1>1. 100 \in Upper
  OBVIOUS
<1>2. PICK m \in Upper : \A k \in Upper : m <= k
  BY <1>1, LeastNumber
<1>3. \E r \in S : r.score = m
  <2>1. CASE m = 0
    BY <1>2, <2>1
  <2>2. CASE m # 0
    <3>1. m - 1 \in Nat /\ m - 1 \notin Upper
      BY <1>2, <2>2
    <3>2. PICK r \in S : ~(r.score <= m - 1)
      BY <3>1
    <3>3. r.score \in 0 .. 100 /\ r.score <= m /\ m \in Nat
      BY <1>2
    <3>4. r.score = m
      BY <3>2, <3>3
    <3> QED
      BY <3>4
  <2> QED
    BY <2>1, <2>2
<1> QED
  BY <1>2, <1>3

\* The aggregate score of a submission is the mean of its scores, and so never above
\* the highest of them, however many results there are and however it is rounded
\* (analysis.service.ts aggregateScore).
THEOREM AggregateAtMostHighest ==
  ASSUME NEW results, IsFiniteSet(results),
         \A r \in results : r.score \in 0 .. 100 \cup {NoScore}
  PROVE  \/ aggregateScore(results) = NoScore
         \/ \E r \in Scored(results) : aggregateScore(results) \in 0 .. 100 * r.score
<1> DEFINE S == Scored(results)
           n == Cardinality(S)
           total == MapThenSumSet(LAMBDA r : r.score, S)
<1>1. IsFiniteSet(S) /\ \A r \in S : r.score \in 0 .. 100
  BY FS_Subset DEF Scored
<1>2. n \in Nat /\ (n = 0 <=> S = {})
  BY <1>1, FS_CardinalityType, FS_EmptySet
<1>3. CASE n = 0
  BY <1>3 DEF aggregateScore
<1>4. CASE n # 0
  <2>1. PICK r \in S : \A q \in S : q.score <= r.score
    BY <1>1, <1>2, <1>4, HighestScore
  <2>2. PICK f : IsTotal(f, SUBSET S) /\ total = f[S]
    BY <1>1, SumIsTotal
  <2>3. r.score \in 0 .. 100 /\ \A q \in S : q.score \in 0 .. r.score
    BY <1>1, <2>1
  <2>4. total \in Nat /\ total <= n * r.score
    BY <1>1, <2>2, <2>3, TotalBounds
  <2>5. (200 * total + n) \div (2 * n) \in 0 .. 100 * r.score
    BY <1>2, <1>4, <2>3, <2>4, MeanAtMost, SMTT(30)
  <2>6. aggregateScore(results) = (200 * total + n) \div (2 * n)
    BY <1>4 DEF aggregateScore
  <2> QED
    BY <2>5, <2>6
<1> QED
  BY <1>3, <1>4

\* Some result is the worst of a finite set.
LEMMA WorstSeverity ==
  ASSUME NEW results, results # {}, \A r \in results : r.severity \in Severities
  PROVE  \E r \in results : \A q \in results : Rank[q.severity] <= Rank[r.severity]
<1>1. \A r \in results : Rank[r.severity] \in 0 .. 4
  BY DEF Severities, Rank
<1> DEFINE Upper == {m \in Nat : \A r \in results : Rank[r.severity] <= m}
<1>2. 4 \in Upper
  BY <1>1
<1>3. PICK m \in Upper : \A k \in Upper : m <= k
  BY <1>2, LeastNumber
<1>4. \E r \in results : Rank[r.severity] = m
  <2>1. CASE m = 0
    BY <1>1, <1>3, <2>1
  <2>2. CASE m # 0
    <3>1. m - 1 \in Nat /\ m - 1 \notin Upper
      BY <1>3, <2>2
    <3>2. PICK r \in results : ~(Rank[r.severity] <= m - 1)
      BY <3>1
    <3> QED
      BY <1>1, <1>3, <3>2
  <2> QED
    BY <2>1, <2>2
<1> QED
  BY <1>3, <1>4

\* No result of an answer is worse than its maxSeverity.
LEMMA MaxSeverityBounds ==
  ASSUME NEW results, NEW r \in results, \A q \in results : q.severity \in Severities
  PROVE  Rank[r.severity] <= Rank[maxSeverity(results)]
<1>1. \E w \in results : \A q \in results : Rank[q.severity] <= Rank[w.severity]
  BY WorstSeverity
<1> DEFINE worst == CHOOSE w \in results :
                      \A q \in results : Rank[q.severity] <= Rank[w.severity]
<1>2. worst \in results /\ \A q \in results : Rank[q.severity] <= Rank[worst.severity]
  BY <1>1
<1>3. maxSeverity(results) = worst.severity
  BY DEF maxSeverity
<1> QED
  BY <1>2, <1>3

\* Where a scored result has the severity its score calls for, the aggregate score
\* calls for none above maxSeverity.
THEOREM AggregateSeverity ==
  ASSUME NEW results, IsFiniteSet(results),
         \A r \in results :
            /\ r.score \in 0 .. 100 \cup {NoScore}
            /\ r.severity \in Severities
            /\ r.score # NoScore => r.severity = scoreToSeverity(r.score),
         aggregateScore(results) # NoScore
  PROVE  Rank[scoreToSeverity(aggregateScore(results) \div 100)]
           <= Rank[maxSeverity(results)]
<1>1. PICK r \in Scored(results) : aggregateScore(results) \in 0 .. 100 * r.score
  BY AggregateAtMostHighest
<1>2. r \in results /\ r.score \in 0 .. 100 /\ r.severity = scoreToSeverity(r.score)
  BY DEF Scored
<1>3. aggregateScore(results) \div 100 \in 0 .. r.score
  BY <1>1, <1>2
<1> DEFINE a == aggregateScore(results) \div 100
<1>4. Rank[scoreToSeverity(a)] <= Rank[scoreToSeverity(r.score)]
  BY <1>2, <1>3, SeverityMonotone
<1>5. Rank[r.severity] <= Rank[maxSeverity(results)]
  BY <1>2, MaxSeverityBounds
<1>6. scoreToSeverity(a) \in Severities /\ maxSeverity(results) \in Severities
  <2>1. \E w \in results : \A q \in results : Rank[q.severity] <= Rank[w.severity]
    BY <1>2, WorstSeverity
  <2> QED
    BY <1>2, <1>3, <2>1, SeverityType DEF maxSeverity
<1>7. \A v \in Severities : Rank[v] \in Int
  BY DEF Severities, Rank
<1> QED
  BY <1>2, <1>4, <1>5, <1>6, <1>7

-----------------------------------------------------------------------------
(* One more finding *)

\* The inputs that the walk of MCRiskScoring can reach, and more.
InputsOK ==
  /\ kind \in {"file", "url"}
  /\ file \in Files /\ Len(file.name) = 3
  /\ url \in Urls
  /\ seen \in BOOLEAN

\* Findings are only added.
Grows(finding, found) == finding => found

LEMMA PointsGrow ==
  ASSUME NEW finding, NEW found, Grows(finding, found), NEW m \in Nat, NEW n \in Nat, m <= n
  PROVE  Points(finding, m) \in Nat /\ Points(found, n) \in Nat
         /\ Points(finding, m) <= Points(found, n)
  BY DEF Points, Grows

LEMMA AtMostGrows ==
  ASSUME NEW limit \in Nat, NEW m \in Nat, NEW n \in Nat, m <= n
  PROVE  AtMost(limit, m) \in Nat /\ AtMost(limit, n) \in Nat
         /\ AtMost(limit, m) <= AtMost(limit, n)
  BY DEF AtMost

\* A file with one more suspicious part of its name, a higher entropy or more to say
\* about its PE header never has a lower risk score, nor one that is now downloaded.
LEMMA StaticRiskGrows ==
  ASSUME NEW f \in Files, NEW g \in Files, NEW d \in BOOLEAN, NEW e \in BOOLEAN,
         nameRisk(f) <= nameRisk(g), contentRisk(f) <= contentRisk(g), d => e
  PROVE  staticRisk(f, d) <= staticRisk(g, e)
  <1>1. /\ nameRisk(f) \in Nat /\ nameRisk(g) \in Nat
        /\ contentRisk(f) \in Nat /\ contentRisk(g) \in Nat
    BY NameRiskType, ContentRiskType
  <1>2. /\ Points(d, contentRisk(f)) \in Nat /\ Points(e, contentRisk(g)) \in Nat
        /\ Points(d, contentRisk(f)) <= Points(e, contentRisk(g))
    BY <1>1, PointsGrow DEF Grows
  <1> QED
    BY <1>1, <1>2, AtMostGrows DEF staticRisk

LEMMA WorseNameGrows ==
  ASSUME InputsOK, NEW i \in 1 .. 3
  PROVE  LET f == [file EXCEPT !.name[i] = TRUE]
         IN  /\ f \in Files /\ Len(f.name) = 3
             /\ nameRisk(file) <= nameRisk(f) /\ contentRisk(f) = contentRisk(file)
  <1> DEFINE f == [file EXCEPT !.name[i] = TRUE]
             name == file.name
             worse == [name EXCEPT ![i] = TRUE]
  <1>1. name \in Seq(BOOLEAN) /\ Len(name) = 3
    BY DEF InputsOK, Files
  <1>2. worse \in Seq(BOOLEAN) /\ Len(worse) = 3
    <2> HIDE DEF name
    <2>1. i \in 1 .. Len(name) /\ TRUE \in BOOLEAN
      BY <1>1
    <2>2. worse \in Seq(BOOLEAN) /\ Len(worse) = Len(name)
      <3> HIDE DEF worse
      <3> QED
        BY <1>1, <2>1, ExceptSeq, SMTT(60) DEF worse
    <2> QED
      BY <1>1, <2>2
  <1>3. f.name = worse /\ f \in Files /\ contentRisk(f) = contentRisk(file)
    BY <1>2 DEF InputsOK, Files, contentRisk
  <1>4. name[3] => worse[3]
    BY <1>1
  <1>5. name[2] => worse[2]
    BY <1>1
  <1> HIDE DEF name, worse, f
  <1>6. Grows(getExtension(name), getExtension(worse))
    BY <1>1, <1>2, <1>4 DEF getExtension, Grows
  <1>7. Grows(checkDoubleExtension(name), checkDoubleExtension(worse))
    BY <1>1, <1>2, <1>5 DEF checkDoubleExtension, Grows
  <1>8. nameRisk(file) <= nameRisk(f)
    <2>1. /\ Points(getExtension(name), 25) \in Nat /\ Points(getExtension(worse), 25) \in Nat
          /\ Points(getExtension(name), 25) <= Points(getExtension(worse), 25)
      BY <1>6, PointsGrow
    <2>2. /\ Points(checkDoubleExtension(name), 30) \in Nat
          /\ Points(checkDoubleExtension(worse), 30) \in Nat
          /\ Points(checkDoubleExtension(name), 30) <= Points(checkDoubleExtension(worse), 30)
      BY <1>7, PointsGrow
    <2> QED
      BY <1>3, <2>1, <2>2 DEF nameRisk, name
  <1> QED
    BY <1>2, <1>3, <1>8 DEF f

LEMMA ContentGrows ==
  ASSUME NEW f \in Files, NEW g \in Files,
         EntropyPoints[f.entropy] <= EntropyPoints[g.entropy],
         f.pe = "no" \/ (f.pe = g.pe /\ f.imports <= g.imports)
  PROVE  contentRisk(f) <= contentRisk(g)
  <1> DEFINE I(h) == Points(h.pe = "parsed", AtMost(40, 8 * h.imports))
             B(h) == Points(h.pe = "broken", 10)
  <1>1. /\ f.imports \in Nat /\ g.imports \in Nat
        /\ EntropyPoints[f.entropy] \in Nat /\ EntropyPoints[g.entropy] \in Nat
    BY DEF Files, EntropyPoints, EntropyLevels
  <1>2. \A h \in {f, g} : I(h) \in Nat /\ B(h) \in Nat
    BY <1>1 DEF Points, AtMost
  <1>3. I(f) <= I(g) /\ B(f) <= B(g)
    <2>1. CASE f.pe = "no"
      BY <1>2, <2>1 DEF Points
    <2>2. CASE f.pe = g.pe /\ f.imports <= g.imports
      <3>1. B(f) = B(g)
        BY <2>2
      <3>2. AtMost(40, 8 * f.imports) <= AtMost(40, 8 * g.imports)
        <4>1. /\ 8 * f.imports \in Nat /\ 8 * g.imports \in Nat
              /\ 8 * f.imports <= 8 * g.imports
          BY <1>1, <2>2
        <4> QED
          BY <4>1 DEF AtMost
      <3>3. I(f) <= I(g)
        BY <1>2, <2>2, <3>2 DEF Points
      <3> QED
        BY <1>2, <3>1, <3>3
    <2> QED
      BY <2>1, <2>2
  <1>4. /\ contentRisk(f) = EntropyPoints[f.entropy] + B(f) + I(f)
        /\ contentRisk(g) = EntropyPoints[g.entropy] + B(g) + I(g)
    BY DEF contentRisk
  <1> HIDE DEF I, B
  <1> QED
    BY <1>1, <1>2, <1>3, <1>4

LEMMA WorseContentGrows ==
  ASSUME InputsOK, WorseContent
  PROVE  /\ file' \in Files /\ Len(file'.name) = 3
         /\ nameRisk(file) <= nameRisk(file') /\ contentRisk(file) <= contentRisk(file')
  <1>1. file \in Files /\ Len(file.name) = 3
    BY DEF InputsOK
  <1>2. /\ file' \in Files /\ file'.name = file.name
        /\ EntropyPoints[file.entropy] <= EntropyPoints[file'.entropy]
        /\ file.pe = "no" \/ (file.pe = file'.pe /\ file.imports <= file'.imports)
    <2>1. CASE file.entropy = "low" /\ file' = [file EXCEPT !.entropy = "elevated"]
      BY <1>1, <2>1, SMTT(30) DEF Files, EntropyLevels, EntropyPoints
    <2>2. CASE file.entropy = "elevated" /\ file' = [file EXCEPT !.entropy = "high"]
      BY <1>1, <2>2, SMTT(30) DEF Files, EntropyLevels, EntropyPoints
    <2>3. CASE /\ file.pe = "no"
               /\ \E pe \in {"parsed", "broken"} : file' = [file EXCEPT !.pe = pe]
      <3>1. PICK pe \in {"parsed", "broken"} : file' = [file EXCEPT !.pe = pe]
        BY <2>3
      <3>2. file' \in Files /\ file'.name = file.name /\ file'.entropy = file.entropy
        BY <1>1, <3>1 DEF Files
      <3>3. EntropyPoints[file.entropy] \in Int
        BY <1>1 DEF Files, EntropyLevels, EntropyPoints
      <3> QED
        BY <2>3, <3>2, <3>3
    <2>4. CASE /\ file.pe = "parsed" /\ file.imports < 13
               /\ file' = [file EXCEPT !.imports = @ + 1]
      BY <1>1, <2>4 DEF Files, EntropyLevels, EntropyPoints
    <2> QED
      BY <2>1, <2>2, <2>3, <2>4 DEF WorseContent
  <1>3. nameRisk(file') = nameRisk(file) /\ nameRisk(file) \in Nat
    BY <1>2, NameRiskType DEF nameRisk
  <1> QED
    BY <1>1, <1>2, <1>3, ContentGrows

\* A URL with one more finding, or one that Safe Browsing now knows.
LEMMA UrlRiskGrows ==
  ASSUME NEW u \in Urls, NEW v \in Urls, NEW d \in BOOLEAN, NEW e \in BOOLEAN,
         u.valid = v.valid, heuristicRisk(u) <= heuristicRisk(v), d => e
  PROVE  urlRisk(u, d) <= urlRisk(v, e)
  <1> DEFINE base(w) == IF w.valid THEN heuristicRisk(w) ELSE 30
  <1>1. base(u) \in Nat /\ base(v) \in Nat /\ base(u) <= base(v)
    BY HeuristicRiskType
  <1>2. /\ Points(d, 50) \in Nat /\ Points(e, 50) \in Nat
        /\ Points(d, 50) <= Points(e, 50)
    BY PointsGrow DEF Grows
  <1>3. /\ urlRisk(u, d) = AtMost(100, base(u) + Points(d, 50))
        /\ urlRisk(v, e) = AtMost(100, base(v) + Points(e, 50))
    BY DEF urlRisk
  <1> HIDE DEF base
  <1> QED
    BY <1>1, <1>2, <1>3, AtMostGrows

UrlFindings == {"http", "ip", "tld", "deep", "port", "long", "encoded"}

LEMMA HeuristicGrows ==
  ASSUME NEW u \in Urls, NEW v \in Urls,
         \A finding \in UrlFindings : Grows(u[finding], v[finding]),
         u.keywords <= v.keywords
  PROVE  heuristicRisk(u) <= heuristicRisk(v)
  <1>1. \A finding \in UrlFindings, n \in Nat :
          /\ Points(u[finding], n) \in Nat /\ Points(v[finding], n) \in Nat
          /\ Points(u[finding], n) <= Points(v[finding], n)
    BY PointsGrow
  <1>2. /\ Points(u.http, 10) <= Points(v.http, 10)
        /\ Points(u.ip, 25) <= Points(v.ip, 25)
        /\ Points(u.tld, 20) <= Points(v.tld, 20)
        /\ Points(u.deep, 20) <= Points(v.deep, 20)
        /\ Points(u.port, 15) <= Points(v.port, 15)
        /\ Points(u.long, 10) <= Points(v.long, 10)
        /\ Points(u.encoded, 15) <= Points(v.encoded, 15)
    BY <1>1 DEF UrlFindings
  <1>3. \A w \in {u, v} :
          /\ Points(w.http, 10) \in Nat /\ Points(w.ip, 25) \in Nat
          /\ Points(w.tld, 20) \in Nat /\ Points(w.deep, 20) \in Nat
          /\ Points(w.port, 15) \in Nat /\ Points(w.long, 10) \in Nat
          /\ Points(w.encoded, 15) \in Nat
    BY <1>1 DEF UrlFindings
  <1>4. /\ AtMost(30, 10 * u.keywords) \in Nat /\ AtMost(30, 10 * v.keywords) \in Nat
        /\ AtMost(30, 10 * u.keywords) <= AtMost(30, 10 * v.keywords)
    <2>1. /\ u.keywords \in 0 .. 21 /\ v.keywords \in 0 .. 21
      BY DEF Urls
    <2>2. /\ 10 * u.keywords \in Nat /\ 10 * v.keywords \in Nat
          /\ 10 * u.keywords <= 10 * v.keywords
      BY <2>1
    <2> QED
      BY <2>2 DEF AtMost
  <1> QED
    BY <1>2, <1>3, <1>4 DEF heuristicRisk

LEMMA WorseUrlGrows ==
  ASSUME InputsOK, WorseUrl
  PROVE  /\ url' \in Urls /\ url'.valid = url.valid
         /\ heuristicRisk(url) <= heuristicRisk(url')
  <1>1. url \in Urls
    BY DEF InputsOK
  <1>2. ASSUME NEW finding \in UrlFindings, url' = [url EXCEPT ![finding] = TRUE]
        PROVE  /\ url' \in Urls /\ url'.valid = url.valid
               /\ \A f \in UrlFindings : Grows(url[f], url'[f])
               /\ url.keywords <= url'.keywords
    <2>1. /\ DOMAIN url = UrlFindings \union {"valid", "keywords"}
          /\ url'.valid = url.valid /\ url'.keywords = url.keywords
          /\ url' \in Urls
      BY <1>1, <1>2 DEF Urls, UrlFindings
    <2>2. ASSUME NEW f \in UrlFindings, url[f]
          PROVE  url'[f]
      <3>1. CASE f = finding
        BY <1>2, <2>1, <3>1
      <3>2. CASE f # finding
        BY <1>2, <2>1, <2>2, <3>2
      <3> QED
        BY <3>1, <3>2
    <2>3. url.keywords \in Int
      BY <1>1 DEF Urls
    <2> QED
      BY <2>1, <2>2, <2>3 DEF Grows
  <1>3. ASSUME url.keywords < 21, url' = [url EXCEPT !.keywords = @ + 1]
        PROVE  /\ url' \in Urls /\ url'.valid = url.valid
               /\ \A f \in UrlFindings : Grows(url[f], url'[f])
               /\ url.keywords <= url'.keywords
    BY <1>1, <1>3 DEF Urls, UrlFindings, Grows
  <1>4. /\ url' \in Urls /\ url'.valid = url.valid
        /\ \A f \in UrlFindings : Grows(url[f], url'[f])
        /\ url.keywords <= url'.keywords
    BY <1>2, <1>3 DEF WorseUrl, UrlFindings
  <1> QED
    BY <1>1, <1>4, HeuristicGrows

LEMMA InputsInit == ScoringInit => InputsOK
  <1>1. CleanFile \in Files /\ Len(CleanFile.name) = 3
    BY DEF CleanFile, Files, EntropyLevels
  <1>2. CleanUrl \in Urls
    BY DEF CleanUrl, Urls
  <1>3. [CleanUrl EXCEPT !.valid = FALSE] \in Urls
    BY <1>2 DEF Urls
  <1> QED
    BY <1>1, <1>2, <1>3 DEF ScoringInit, InputsOK

\* Every step of the walk keeps the inputs what they are and lowers no score.
LEMMA InputsStep ==
  ASSUME InputsOK, [ScoringNext]_inputs
  PROVE  InputsOK' /\ Risk <= Risk'
  <1>a. /\ kind \in {"file", "url"} /\ file \in Files /\ Len(file.name) = 3
        /\ url \in Urls /\ seen \in BOOLEAN
    BY DEF InputsOK
  <1>1. CASE WorseFile
    <2>1. /\ file' \in Files /\ Len(file'.name) = 3
          /\ nameRisk(file) <= nameRisk(file') /\ contentRisk(file) <= contentRisk(file')
      <3>1. ASSUME NEW i \in 1 .. 3, file' = [file EXCEPT !.name[i] = TRUE]
            PROVE  /\ file' \in Files /\ Len(file'.name) = 3
                   /\ nameRisk(file) <= nameRisk(file')
                   /\ contentRisk(file) <= contentRisk(file')
        <4> DEFINE f == [file EXCEPT !.name[i] = TRUE]
        <4>1. /\ f \in Files /\ Len(f.name) = 3
              /\ nameRisk(file) <= nameRisk(f) /\ contentRisk(f) = contentRisk(file)
          BY WorseNameGrows
        <4>2. file' = f
          BY <3>1
        <4>3. contentRisk(file) \in Int
          BY <1>a, ContentRiskType
        <4> HIDE DEF f
        <4> QED
          BY <4>1, <4>2, <4>3
      <3> QED
        BY <1>1, <3>1, WorseContentGrows DEF WorseFile, WorseName
    <2>2. staticRisk(file, seen) <= staticRisk(file', seen)
      BY <1>a, <2>1, StaticRiskGrows
    <2> QED
      BY <1>1, <1>a, <2>1, <2>2 DEF WorseFile, InputsOK, Risk
  <1>2. CASE WorseUrl
    <2>1. urlRisk(url, seen) <= urlRisk(url', seen) /\ url' \in Urls
      BY <1>2, <1>a, WorseUrlGrows, UrlRiskGrows
    <2> QED
      BY <1>2, <1>a, <2>1 DEF WorseUrl, InputsOK, Risk
  <1>3. CASE See
    <2>1. staticRisk(file, seen) <= staticRisk(file, TRUE)
      <3>1. nameRisk(file) <= nameRisk(file) /\ contentRisk(file) <= contentRisk(file)
        BY <1>a, NameRiskType, ContentRiskType
      <3> QED
        BY <1>a, <3>1, StaticRiskGrows
    <2>2. urlRisk(url, seen) <= urlRisk(url, TRUE)
      <3>1. heuristicRisk(url) <= heuristicRisk(url)
        BY <1>a, HeuristicRiskType
      <3> QED
        BY <1>a, <3>1, UrlRiskGrows
    <2> QED
      BY <1>3, <1>a, <2>1, <2>2 DEF See, InputsOK, Risk
  <1>4. CASE UNCHANGED inputs
    <2>1. Risk \in Int
      BY <1>a, StaticRiskInRange, UrlRiskInRange DEF Risk
    <2>2. Risk' = Risk
      BY <1>4 DEF inputs, Risk
    <2> QED
      BY <1>4, <2>1, <2>2 DEF inputs, InputsOK
  <1> QED
    BY <1>1, <1>2, <1>3, <1>4 DEF ScoringNext

LEMMA RiskInRange ==
  ASSUME InputsOK
  PROVE  Risk \in 0 .. 100
  BY StaticRiskInRange, UrlRiskInRange DEF InputsOK, Risk

LEMMA InputsCorrect == ScoringSpec => []InputsOK
  <1>1. InputsOK /\ [ScoringNext]_inputs => InputsOK'
    BY InputsStep
  <1> QED
    BY <1>1, InputsInit, PTL DEF ScoringSpec

\* Along every way of adding findings to a file or a URL the score stays within 0 to
\* 100 and its summary agrees with its severity.
THEOREM ScoresAlwaysAgree == ScoringSpec => []ScoresAgree
  <1>1. InputsOK => ScoresAgree
    BY RiskInRange, SummaryAlwaysAgrees DEF ScoresAgree
  <1> QED
    BY <1>1, InputsCorrect, PTL

\* And no finding lowers the score or the severity made of it.
THEOREM ScoresNeverLower == ScoringSpec => NeverLower
  <1>1. InputsOK /\ InputsOK' /\ [ScoringNext]_inputs =>
          [/\ Risk' >= Risk
           /\ Rank[scoreToSeverity(Risk')] >= Rank[scoreToSeverity(Risk)]]_inputs
    <2> SUFFICES ASSUME InputsOK, InputsOK', [ScoringNext]_inputs
                 PROVE  /\ Risk' >= Risk
                        /\ Rank[scoreToSeverity(Risk')] >= Rank[scoreToSeverity(Risk)]
      OBVIOUS
    <2>1. Risk <= Risk'
      BY InputsStep
    <2>2. Risk \in 0 .. 100 /\ Risk' \in 0 .. 100
      BY StaticRiskInRange, UrlRiskInRange DEF InputsOK, Risk
    <2>3. Rank[scoreToSeverity(Risk)] <= Rank[scoreToSeverity(Risk')]
      BY <2>1, <2>2, SeverityMonotone
    <2> QED
      BY <2>1, <2>3, <2>2
  <1> QED
    BY <1>1, InputsCorrect, PTL DEF ScoringSpec, NeverLower
=============================================================================
