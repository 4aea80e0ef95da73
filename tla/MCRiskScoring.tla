---------------------------- MODULE MCRiskScoring ----------------------------
(***************************************************************************)
(* Walks through the inputs of the scoring functions, one more finding at  *)
(* a time, from a clean file or URL to the worst one.                      *)
(***************************************************************************)
EXTENDS RiskScoring

VARIABLES kind, file, url, seen

inputs == <<kind, file, url, seen>>

CleanFile == [name |-> <<FALSE, FALSE, FALSE>>, entropy |-> "low",
              pe |-> "no", imports |-> 0]
CleanUrl == [valid |-> TRUE, http |-> FALSE, ip |-> FALSE, tld |-> FALSE,
             deep |-> FALSE, port |-> FALSE, keywords |-> 0,
             long |-> FALSE, encoded |-> FALSE]

\* seen: the file was downloaded, Safe Browsing knows the URL.
ScoringInit ==
    /\ kind \in {"file", "url"}
    /\ file = CleanFile
    /\ url \in {CleanUrl, [CleanUrl EXCEPT !.valid = FALSE]}
    /\ seen = FALSE

Risk == IF kind = "file" THEN staticRisk(file, seen) ELSE urlRisk(url, seen)

WorseName ==
    \E i \in 1 .. 3 : file' = [file EXCEPT !.name[i] = TRUE]

WorseContent ==
    \/ /\ file.entropy = "low"
       /\ file' = [file EXCEPT !.entropy = "elevated"]
    \/ /\ file.entropy = "elevated"
       /\ file' = [file EXCEPT !.entropy = "high"]
    \/ /\ file.pe = "no"
       /\ \E pe \in {"parsed", "broken"} : file' = [file EXCEPT !.pe = pe]
    \/ /\ file.pe = "parsed" /\ file.imports < 13
       /\ file' = [file EXCEPT !.imports = @ + 1]

WorseFile ==
    /\ kind = "file"
    /\ WorseName \/ WorseContent
    /\ UNCHANGED <<kind, url, seen>>

WorseUrl ==
    /\ kind = "url" /\ url.valid
    /\ \/ \E finding \in {"http", "ip", "tld", "deep", "port", "long", "encoded"} :
             url' = [url EXCEPT ![finding] = TRUE]
       \/ /\ url.keywords < 21
          /\ url' = [url EXCEPT !.keywords = @ + 1]
    /\ UNCHANGED <<kind, file, seen>>

See ==
    /\ seen' = TRUE
    /\ UNCHANGED <<kind, file, url>>

ScoringNext == WorseFile \/ WorseUrl \/ See

ScoringSpec == ScoringInit /\ [][ScoringNext]_inputs

-----------------------------------------------------------------------------
\* The scores of the analyzers stay within 0 to 100, their summary agrees with
\* their severity.
ScoresAgree == Risk \in 0 .. 100 /\ SummaryAgrees(Risk)

\* One more finding never lowers a score or the severity made of it.
NeverLower ==
    [][/\ Risk' >= Risk
       /\ Rank[scoreToSeverity(Risk')] >= Rank[scoreToSeverity(Risk)]]_inputs
=============================================================================
