----------------------------- MODULE MCComponents -----------------------------
(***************************************************************************)
(* Components that share no state with the pipeline or one another,        *)
(* checked in one run.  A behaviour is about one of them, the one it is    *)
(* about in every state: the others stay where they began, and no product  *)
(* of unrelated states is built.                                           *)
(***************************************************************************)
EXTENDS MCRiskScoring, ArtifactUpload, AnalysisStream, SandboxExecutor

VARIABLE about

componentVars == <<inputs, uploadVars, streamVars, sandboxVars, about>>

\* A file before and after its user_id, longer than both streams hold, an empty one
\* without user_id, one without a file, and two bodies that break off.
Bodies ==
    { [user |-> "before", file |-> TRUE,  blocks |-> 3, cut |-> FALSE],
      [user |-> "after",  file |-> TRUE,  blocks |-> 1, cut |-> FALSE],
      [user |-> "none",   file |-> TRUE,  blocks |-> 0, cut |-> FALSE],
      [user |-> "before", file |-> FALSE, blocks |-> 0, cut |-> FALSE],
      [user |-> "before", file |-> TRUE,  blocks |-> 2, cut |-> TRUE],
      [user |-> "none",   file |-> FALSE, blocks |-> 0, cut |-> TRUE] }

Init ==
    /\ about \in {"scoring", "upload", "stream", "sandbox"}
    /\ ScoringInit /\ UploadInit /\ StreamInit /\ SandboxInit
    /\ about # "scoring" => kind = "file" /\ url = CleanUrl

OnlyScoring ==
    /\ about = "scoring" /\ ScoringNext
    /\ UNCHANGED <<uploadVars, streamVars, sandboxVars, about>>

OnlyUpload ==
    /\ about = "upload" /\ UploadNext
    /\ UNCHANGED <<inputs, streamVars, sandboxVars, about>>

OnlyStream ==
    /\ about = "stream" /\ StreamNext
    /\ UNCHANGED <<inputs, uploadVars, sandboxVars, about>>

OnlySandbox ==
    /\ about = "sandbox" /\ SandboxNext
    /\ UNCHANGED <<inputs, uploadVars, streamVars, about>>

Next == OnlyScoring \/ OnlyUpload \/ OnlyStream \/ OnlySandbox

Spec == Init /\ [][Next]_componentVars

\* In the state where a component begins and stays, its fairness asks for nothing: no
\* request, attempt or submission has come that could go on.
FairSpec == Spec /\ UploadFairness /\ StreamFairness /\ SandboxFairness
=============================================================================
