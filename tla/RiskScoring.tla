----------------------------- MODULE RiskScoring -----------------------------
(***************************************************************************)
(* The pure functions that turn what an analyzer saw into a risk score, a  *)
(* severity and a summary, and the ones that aggregate the results of a    *)
(* submission.  What the analyzers look at is abstracted to the findings   *)
(* the scores tell apart.  Scores are hundredths: the stored score is      *)
(* riskScore / 100, an aggregate has two more decimals.                    *)
(***************************************************************************)
EXTENDS Integers, Sequences, FiniteSets, FiniteSetsExt

Severities == {"info", "low", "medium", "high", "critical"}
Rank == [info |-> 0, low |-> 1, medium |-> 2, high |-> 3, critical |-> 4]

Points(finding, points) == IF finding THEN points ELSE 0
AtMost(limit, n) == IF n > limit THEN limit ELSE n

-----------------------------------------------------------------------------
(* static-analyzer.worker.ts *)

\* A file name is the sequence of its parts between dots: whether each, read as
\* an extension, is in SUSPICIOUS_EXTENSIONS.
getExtension(name) == Len(name) > 1 /\ name[Len(name)]
checkDoubleExtension(name) == Len(name) > 2 /\ name[Len(name) - 1]

EntropyLevels == {"low", "elevated", "high"}
EntropyPointsSwapped == [low |-> 0, elevated |-> 20, high |-> 10]  \* mutant
EntropyPoints == [low |-> 0, elevated |-> 10, high |-> 20]

\* pe: "no" PE header, "parsed", or "broken" when the library throws.
Files == [name : Seq(BOOLEAN), entropy : EntropyLevels,
          pe : {"no", "parsed", "broken"}, imports : 0 .. 13]

nameRisk(f) ==
    Points(getExtension(f.name), 25) + Points(checkDoubleExtension(f.name), 30)

contentRisk(f) ==
    EntropyPoints[f.entropy]
    + Points(f.pe = "broken", 10)
    + Points(f.pe = "parsed", AtMost(40, 8 * f.imports))

\* Mutant: the sum is not capped.
staticRiskUncapped(f, downloaded) ==
    nameRisk(f) + Points(downloaded, contentRisk(f))

\* The content counts only when the file could be downloaded.
staticRisk(f, downloaded) ==
    AtMost(100, nameRisk(f) + Points(downloaded, contentRisk(f)))

-----------------------------------------------------------------------------
(* url-analyzer.worker.ts *)

Urls == [valid : BOOLEAN, http : BOOLEAN, ip : BOOLEAN, tld : BOOLEAN,
         deep : BOOLEAN, port : BOOLEAN, keywords : 0 .. 21,
         long : BOOLEAN, encoded : BOOLEAN]

heuristicRisk(u) ==
    Points(u.http, 10) + Points(u.ip, 25) + Points(u.tld, 20)
    + Points(u.deep, 20) + Points(u.port, 15)
    + AtMost(30, 10 * u.keywords)
    + Points(u.long, 10) + Points(u.encoded, 15)

\* threats: Safe Browsing was asked, answered and knows the URL.
urlRisk(u, threats) ==
    AtMost(100, (IF u.valid THEN heuristicRisk(u) ELSE 30) + Points(threats, 50))

-----------------------------------------------------------------------------
(* sandbox-executor.worker.ts: found is how many of the twelve strings the    *)
(* container's output contains.                                              *)

sandboxRisk(found) == AtMost(100, 10 * found)

-----------------------------------------------------------------------------
(* Severities and the summary without a language model *)

\* The same function in the three analyzers.
scoreToSeverity(score) ==
    CASE score >= 75               -> "critical"
      [] score >= 55 /\ score < 75 -> "high"
      [] score >= 35 /\ score < 55 -> "medium"
      [] score >= 15 /\ score < 35 -> "low"
      [] OTHER                     -> "info"

\* Mutant: an off-by-one in one of the copies.
fallbackRiskLevelLate(score) ==
    CASE score >= 75                -> "critical"
      [] score > 55 /\ score < 75   -> "high"
      [] score >= 35 /\ score <= 55 -> "medium"
      [] score >= 15 /\ score < 35  -> "low"
      [] OTHER                      -> "safe"

\* fallbackSummary of ai-analyzer.worker.ts has thresholds of its own.
fallbackRiskLevel(score) ==
    CASE score >= 75               -> "critical"
      [] score >= 55 /\ score < 75 -> "high"
      [] score >= 35 /\ score < 55 -> "medium"
      [] score >= 15 /\ score < 35 -> "low"
      [] OTHER                     -> "safe"

fallbackRecommendation(score) ==
    CASE score >= 55               -> "do not execute"
      [] score >= 35 /\ score < 55 -> "exercise caution"
      [] OTHER                     -> "low risk"

-----------------------------------------------------------------------------
(* analysis.service.ts.  results is a set of [job, severity, score] with      *)
(* NoScore for null.                                                         *)

NoScore == -1
NoSeverity == "none"

Scored(results) == {r \in results : r.score # NoScore}

\* Mutant: the reduce without its division.
aggregateSum(results) ==
    IF Scored(results) = {} THEN NoScore
    ELSE 100 * MapThenSumSet(LAMBDA r : r.score, Scored(results))

\* The mean rounded to four decimals, that is to hundredths of a hundredth.
\* A mean of at most four scores never lies halfway between two of them.
aggregateScore(results) ==
    LET scored == Scored(results)
        n == Cardinality(scored)
    IN  IF n = 0 THEN NoScore
        ELSE (200 * MapThenSumSet(LAMBDA r : r.score, scored) + n) \div (2 * n)

\* The head of the severities sorted worst first.
maxSeverity(results) ==
    IF results = {} THEN NoSeverity
    ELSE (CHOOSE r \in results :
            \A q \in results : Rank[q.severity] <= Rank[r.severity]).severity

-----------------------------------------------------------------------------
\* The summary's risk level and recommendation, computed from thresholds of
\* their own, say what the severity stored beside them says.
SummaryAgrees(score) ==
    /\ fallbackRiskLevel(score) =
         IF scoreToSeverity(score) = "info" THEN "safe" ELSE scoreToSeverity(score)
    /\ fallbackRecommendation(score) = "do not execute"
         <=> scoreToSeverity(score) \in {"high", "critical"}
    /\ fallbackRecommendation(score) = "exercise caution"
         <=> scoreToSeverity(score) = "medium"
=============================================================================
