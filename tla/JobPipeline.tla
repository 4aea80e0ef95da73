----------------------------- MODULE JobPipeline -----------------------------
(***************************************************************************)
(* The analysis job pipeline: API requests, the recovery scheduler, the    *)
(* worker slots, BullMQ and PostgreSQL together.                           *)
(***************************************************************************)
EXTENDS QueueProcessor

Init == QueueInit /\ ServiceInit

Next ==
    \/ \E c \in Requests : RequestArrives(c)
    \/ \E c \in Ticks, old \in SUBSET Submissions : recoverZombieJobs(c, old)
    \/ \E c \in Callers : CallerStep(c) \/ CallerFault(c)
    \/ \E p \in Slots, j \in Jobs : take(p, j)
    \/ \E p \in Slots : SlotStep(p) \/ SlotFault(p)
    \/ \E j \in Jobs : QueueStep(j)

Spec == Init /\ [][Next]_vars

(***************************************************************************)
(* Fairness.  A started handler goes on (the event loop runs it); the      *)
(* scheduler's interval fires for ever; BullMQ promotes delayed entries    *)
(* and runs its stalled check; time passes.  A slot that is free infinitely*)
(* often reaches every waiting entry, because the queue is first in first  *)
(* out: strong fairness per job, since slots and entries come and go.      *)
(* Nothing is assumed of clients, operators, evictions or faults.          *)
(***************************************************************************)
Fairness ==
    /\ \A c \in Callers : WF_vars(CallerStep(c))
    /\ \A c \in Ticks : SF_vars(recoverZombieJobs(c, Submissions))
    /\ \A p \in Slots : WF_vars(SlotStep(p))
    /\ \A j \in Jobs : SF_vars(\E p \in Slots : take(p, j))
    /\ \A j \in Jobs :
         WF_vars((Promote(j) \/ Stalled(j)) /\ UNCHANGED <<dbVars, local, faults>>)

FairSpec == Spec /\ Fairness

\* An operator who calls POST /jobs/queue/recover again and again, also after
\* every timeout has passed.
FairOperator == \A c \in Requests : SF_vars(recoverOpenJobs(c, Jobs))

OperatedSpec == FairSpec /\ FairOperator

-----------------------------------------------------------------------------
(* Safety *)

TypeOK == QueueTypeOK /\ ServiceTypeOK

Submitted(j) == jobStatus[j] # "none"
DeadLettered(j) == j \in deadLetter

\* No more locks were lost than the stalled check forgives a single entry.
Forgiven == faults.locks <= MaxStalled

\* A job shown as completed has a stored result, however its status updates
\* interleave with retries, recoveries, crashes and slots that lost their lock
\* (jobs.service.ts markCompleted is never reached without one).
CompletedHasResult ==
    \A j \in Jobs : jobStatus[j] = "completed" => j \in result

\* A submission shown as completed has the results of all its jobs, although
\* syncSubmissionStatus writes a status computed from rows read one await ago.
SubmissionCompletedHasResults ==
    \A s \in Submissions :
        submissionStatus[s] = "completed" => JobsOf(s) \subseteq result

\* BullMQ is told that a job succeeded only when its result is stored: the
\* queue never forgets (removeOnComplete) a job that still has to be run.
AckedHasResult ==
    \A j \in Jobs : entry[j] = "completed" => j \in result

\* Two slots never work on the same job while every live slot renews its lock,
\* whatever requests, recoveries, evictions and crashes do: the job id as queue
\* entry id is what makes the repeated add calls of recovery harmless.
NoDoubleRun ==
    "stall" \in FaultKinds
    \/ \A p, q \in Slots :
         p # q /\ ~At(p, "idle") /\ ~At(q, "idle")
             => local[p].job # local[q].job

\* An analysis is never started over for a job whose result is stored: the
\* lookup at the head of the processor stays true until the analyzer runs.
NoRework ==
    "stall" \in FaultKinds
    \/ \A p \in Slots :
         local[p].pc \in {"start", "startSub", "work"}
             => local[p].job \notin result

\* No job is forgotten: one without a result can still be picked up by the
\* scheduler (pending), is live in the queue, or waits in the dead-letter queue
\* for an operator.  It ends where BullMQ's patience ends: the entry that stalls
\* once more than MaxStalled is failed behind the processor's back, with the row
\* still running and no dead letter.  Holds while no error escapes the processor's
\* try block and no operator retries a dead letter.
NoJobLost ==
    Forgiven =>
        \A j \in Jobs :
            \/ ~Submitted(j)
            \/ j \in result
            \/ jobStatus[j] = "pending"
            \/ Live(j)
            \/ DeadLettered(j)

-----------------------------------------------------------------------------
(* Liveness *)

\* Every accepted job ends in a result or in the dead-letter queue, with nobody
\* calling any endpoint after the submission, unless more workers die under it than
\* the stalled check forgives.
Resolved ==
    \A j \in Jobs :
        Submitted(j) ~> (j \in result \/ DeadLettered(j) \/ ~Forgiven)

\* With recoverOpenJobs called for ever, a stored result ends up reported, or
\* its job is in the dead-letter queue: status rows overwritten by late queued
\* updates and runs cut off after their result are repaired.
EventuallyReported ==
    \A j \in Jobs :
        j \in result ~> (jobStatus[j] = "completed" \/ DeadLettered(j))

-----------------------------------------------------------------------------
(* Refinement *)

Contract == INSTANCE AnalysisContract WITH
    accepted <- {s \in Submissions : submissionStatus[s] # "none"},
    stored   <- result,
    reported <- {j \in Jobs : jobStatus[j] = "completed"},
    closed   <- {s \in Submissions : submissionStatus[s] = "completed"}

\* The pipeline implements the contract of AnalysisContract.
ContractSpec == Contract!Spec

-----------------------------------------------------------------------------
(* What the documentation says and the code does not do *)

Settled(s) == \A p \in Procs : local[p].sub # s

\* README.md: a submission is processing while "at least one job is queued or
\* running".  Judged when no handler is working on the submission.
ProcessingMeansActivity ==
    \A s \in Submissions :
        Settled(s) /\ submissionStatus[s] = "processing"
            => \E j \in JobsOf(s) : jobStatus[j] \in {"queued", "running"}

\* jobs.controller.ts: the retry of a dead letter puts the job in the queue
\* again.  When the dead letter is taken away, the job can run or has a result.
DeadLetterRequeued ==
    [][\A j \in Jobs : j \in deadLetter /\ j \notin deadLetter'
           => Live(j) \/ j \in result]_vars
=============================================================================
