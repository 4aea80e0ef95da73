--------------------------- MODULE AnalysisContract ---------------------------
(***************************************************************************)
(* What the analysis pipeline promises to whoever reads a submission, with *)
(* no queue, worker or retry in it: a result is only ever stored for an    *)
(* accepted submission and is never lost; a job is only reported complete  *)
(* over a stored result; and a submission is only reported complete over   *)
(* all of its results.  A report may be withdrawn (a job is queued again   *)
(* after it completed), a result may not.                                  *)
(***************************************************************************)
CONSTANTS Jobs, Submissions, SubOf

VARIABLES
    accepted,   \* submissions the API has committed
    stored,     \* jobs with a result
    reported,   \* jobs shown as completed
    closed      \* submissions shown as completed

contractVars == <<accepted, stored, reported, closed>>

Init ==
    /\ accepted = {} /\ stored = {} /\ reported = {} /\ closed = {}

Accept(s) ==
    /\ s \notin accepted
    /\ accepted' = accepted \cup {s}
    /\ UNCHANGED <<stored, reported, closed>>

Store(j) ==
    /\ SubOf[j] \in accepted /\ j \notin stored
    /\ stored' = stored \cup {j}
    /\ UNCHANGED <<accepted, reported, closed>>

Report(j) ==
    /\ j \in stored
    /\ reported' = reported \cup {j}
    /\ UNCHANGED <<accepted, stored, closed>>

Withdraw(J) ==
    /\ reported' = reported \ J
    /\ UNCHANGED <<accepted, stored, closed>>

Close(s) ==
    /\ {j \in Jobs : SubOf[j] = s} \subseteq stored
    /\ closed' = closed \cup {s}
    /\ UNCHANGED <<accepted, stored, reported>>

Reopen(s) ==
    /\ closed' = closed \ {s}
    /\ UNCHANGED <<accepted, stored, reported>>

Next ==
    \/ \E s \in Submissions : Accept(s) \/ Close(s) \/ Reopen(s)
    \/ \E j \in Jobs : Store(j) \/ Report(j)
    \/ \E J \in SUBSET reported : Withdraw(J)

Spec == Init /\ [][Next]_contractVars
=============================================================================
