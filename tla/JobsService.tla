----------------------------- MODULE JobsService -----------------------------
(***************************************************************************)
(* src/modules/jobs/jobs.service.ts with the callers of its operations: a  *)
(* request that creates a submission, the retry and recover endpoints of   *)
(* jobs.controller.ts and the zombie scheduler.                            *)
(*                                                                         *)
(* Every await of the code is the border of a step: between two steps of a *)
(* process all others run.  local[p] is what process p carries across its  *)
(* awaits.  PostgreSQL is the three tables the service reads and writes.   *)
(***************************************************************************)
EXTENDS AnalysisQueue

CONSTANTS
    Submissions,
    SubOf,        \* submission_id of each job
    Prio,         \* priority of each job, with the id as tie-break
    NoJob, NoSub,
    Requests,     \* HTTP requests being served by the API process
    Ticks,        \* runs of the recovery scheduler's interval callback
    Commands,     \* operator endpoints in use: "retry", "dlq", "open"
    FaultKinds,   \* "abort", "redis", "crash", "throw", "stall"
    MaxFaults     \* how many faults a behaviour may contain

Callers == Requests \cup Ticks
Procs == Slots \cup Callers

ASSUME ServiceAssumption ==
    /\ SubOf \in [Jobs -> Submissions]
    /\ Prio \in [Jobs -> Nat]
    /\ \A i, j \in Jobs : i # j => Prio[i] # Prio[j]
    /\ NoJob \notin Jobs /\ NoSub \notin Submissions
    /\ Slots \cap Callers = {} /\ Requests \cap Ticks = {}
    /\ MaxFaults \in Nat

VARIABLES
    jobStatus,         \* analysis_jobs.status, "none" before the row exists
    submissionStatus,  \* submissions.status
    result,            \* the jobs with a row in analysis_results
    local,             \* what each process carries across its awaits
    faults             \* how many faults of which sort so far

dbVars == <<jobStatus, submissionStatus, result>>
vars == <<queueVars, dbVars, local, faults>>

JobStates == {"none", "pending", "queued", "running", "completed", "failed"}
SubmissionStates == {"none", "accepted", "processing", "completed", "failed"}

Labels == {"idle",
           \* enqueueing, retrying and recovering
           "list", "reset", "openList", "retryCheck", "retryReset",
           "next", "add", "mark", "dlqRemove",
           \* markCompleted, markFailed and syncSubmissionStatus
           "complete", "fail", "syncRead", "syncWrite",
           \* the queue processor
           "lookup", "start", "startSub", "work", "deadLetter", "ack", "nack"}

Kinds == {"none", "create", "closing", "tick", "open", "retry", "dlq",
          "run", "reuse", "fail"}

Locals == [pc : Labels, kind : Kinds, job : Jobs \cup {NoJob},
           sub : Submissions \cup {NoSub}, todo : SUBSET Jobs,
           next : SubmissionStates, att : Nat]

Idle == [pc |-> "idle", kind |-> "none", job |-> NoJob, sub |-> NoSub,
         todo |-> {}, next |-> "none", att |-> 0]

\* calls counts failed calls and queries, locks the locks of slots that died or were
\* too slow.
FaultCounts == [calls : Nat, locks : Nat]

TablesTypeOK ==
    /\ jobStatus \in [Jobs -> JobStates]
    /\ submissionStatus \in [Submissions -> SubmissionStates]
    /\ result \subseteq Jobs

ServiceTypeOK ==
    /\ TablesTypeOK
    /\ local \in [Procs -> Locals]
    /\ faults \in FaultCounts

ServiceInit ==
    /\ jobStatus = [j \in Jobs |-> "none"]
    /\ submissionStatus = [s \in Submissions |-> "none"]
    /\ result = {}
    /\ local = [p \in Procs |-> Idle]
    /\ faults = [calls |-> 0, locks |-> 0]

JobsOf(s) == {j \in Jobs : SubOf[j] = s}
OpenJobs(S) == {j \in S : jobStatus[j] \in {"pending", "queued"}}

At(p, label) == local[p].pc = label
Become(p, l) == local' = [local EXCEPT ![p] = l]
Goto(p, label) == Become(p, [local[p] EXCEPT !.pc = label])

Fault(kind) ==
    /\ kind \in FaultKinds
    /\ faults.calls + faults.locks < MaxFaults
    /\ faults' = IF kind \in {"crash", "stall"} THEN [faults EXCEPT !.locks = @ + 1]
                                              ELSE [faults EXCEPT !.calls = @ + 1]

\* enqueueMany goes on with the jobs left of its list.  When the list is done,
\* create() syncs the submission, the retried dead letter is removed, every
\* other caller returns.
Continue(l) ==
    CASE l.todo # {} -> [l EXCEPT !.pc = "next", !.next = "none"]
      [] l.todo = {} /\ l.kind = "create" ->
             [l EXCEPT !.pc = "syncRead", !.kind = "closing", !.next = "none"]
      [] l.todo = {} /\ l.kind = "dlq" ->
             [l EXCEPT !.pc = "dlqRemove", !.next = "none"]
      [] OTHER -> Idle

Enqueue(c, jobs) ==
    Become(c, Continue([local[c] EXCEPT !.todo = jobs]))

-----------------------------------------------------------------------------
(* The ways in.  Each starts at an idle process. *)

\* The transaction of SubmissionsService.create: the submission and its jobs
\* appear together; enqueueing them is the next step.
createSubmissionWithJobs(c, s) ==
    /\ At(c, "idle") /\ submissionStatus[s] = "none"
    /\ submissionStatus' = [submissionStatus EXCEPT ![s] = "accepted"]
    /\ jobStatus' = [j \in Jobs |->
                       IF SubOf[j] = s THEN "pending" ELSE jobStatus[j]]
    /\ Become(c, [local[c] EXCEPT !.pc = "list", !.kind = "create", !.sub = s])
    /\ UNCHANGED <<queueVars, result, faults>>

\* enqueueForSubmission reads the open jobs it will enqueue.
enqueueForSubmission(c) ==
    /\ At(c, "list")
    /\ Enqueue(c, OpenJobs(JobsOf(local[c].sub)))
    /\ UNCHANGED <<queueVars, dbVars, faults>>

\* Mutant: the scheduler looks for queued jobs instead of pending ones.
recoverQueuedJobs(c, old) ==
    /\ At(c, "idle")
    /\ LET zombies == {j \in Jobs : jobStatus[j] = "queued" /\ SubOf[j] \in old}
       IN  Become(c, Continue([local[c] EXCEPT !.kind = "tick", !.todo = zombies]))
    /\ UNCHANGED <<queueVars, dbVars, faults>>

\* The scheduler's callback: it sees the jobs still pending of the submissions
\* that are older than the threshold by now.
recoverZombieJobs(c, old) ==
    /\ At(c, "idle")
    /\ LET zombies == {j \in Jobs : jobStatus[j] = "pending" /\ SubOf[j] \in old}
       IN  Become(c, Continue([local[c] EXCEPT !.kind = "tick", !.todo = zombies]))
    /\ UNCHANGED <<queueVars, dbVars, faults>>

\* POST /jobs/queue/recover.  timedOut are the jobs that started longer ago
\* than their timeout; the running ones among them are stale.
recoverOpenJobs(c, timedOut) ==
    /\ At(c, "idle") /\ "open" \in Commands
    /\ LET stale == {j \in timedOut : jobStatus[j] = "running"}
       IN  Become(c, [local[c] EXCEPT !.kind = "open", !.todo = stale,
                                      !.pc = IF stale = {} THEN "openList" ELSE "reset"])
    /\ UNCHANGED <<queueVars, dbVars, faults>>

\* updateMany by id: the rows are reset whatever their status is by now.
resetStaleRunning(c) ==
    /\ At(c, "reset")
    /\ jobStatus' = [j \in Jobs |->
                       IF j \in local[c].todo THEN "pending" ELSE jobStatus[j]]
    /\ Goto(c, "openList")
    /\ UNCHANGED <<queueVars, submissionStatus, result, faults>>

\* Mutant: recovery forgets the queued jobs.
listPendingJobs(c) ==
    /\ At(c, "openList")
    /\ Enqueue(c, {j \in Jobs : jobStatus[j] = "pending"})
    /\ UNCHANGED <<queueVars, dbVars, faults>>

listOpenJobs(c) ==
    /\ At(c, "openList")
    /\ Enqueue(c, OpenJobs(Jobs)
                  \cup {j \in local[c].todo : jobStatus[j] = "running"})
    /\ UNCHANGED <<queueVars, dbVars, faults>>

\* POST /jobs/:id/retry finds its job.
retry(c, j) ==
    /\ At(c, "idle") /\ "retry" \in Commands /\ jobStatus[j] # "none"
    /\ Become(c, [local[c] EXCEPT !.pc = "retryCheck", !.kind = "retry",
                                  !.job = j, !.sub = SubOf[j]])
    /\ UNCHANGED <<queueVars, dbVars, faults>>

\* POST /jobs/queue/dead-letter/:id/retry finds the dead letter and its job.
retryDeadLetterJob(c, j) ==
    /\ At(c, "idle") /\ "dlq" \in Commands /\ j \in deadLetter
    /\ Become(c, [local[c] EXCEPT !.pc = "retryCheck", !.kind = "dlq",
                                  !.job = j, !.sub = SubOf[j]])
    /\ UNCHANGED <<queueVars, dbVars, faults>>

retryCheckResult(c) ==
    /\ At(c, "retryCheck")
    /\ Goto(c, IF local[c].job \in result THEN "complete" ELSE "retryReset")
    /\ UNCHANGED <<queueVars, dbVars, faults>>

retryResetJob(c) ==
    /\ At(c, "retryReset")
    /\ jobStatus' = [jobStatus EXCEPT ![local[c].job] = "pending"]
    /\ Enqueue(c, {local[c].job})
    /\ UNCHANGED <<queueVars, submissionStatus, result, faults>>

-----------------------------------------------------------------------------
(* enqueueMany, and enqueueWithContext for each job of the list *)

\* getExistingJob and hasResult of the first job left: a completed job is
\* skipped, one with a result is completed instead of enqueued.  The two reads
\* are one step: results only accumulate and a completed job has one, so what
\* happens between them gives no outcome the single step does not have.
Looked(l) ==
    CASE jobStatus[l.job] = "completed" -> Continue(l)
      [] jobStatus[l.job] # "completed" /\ l.job \in result ->
             [l EXCEPT !.pc = "complete", !.next = "none"]
      [] OTHER -> [l EXCEPT !.pc = "add", !.next = "none"]

enqueue(c) ==
    /\ At(c, "next")
    /\ \E j \in local[c].todo :
         /\ \A i \in local[c].todo : Prio[i] <= Prio[j]
         /\ Become(c, Looked([local[c] EXCEPT !.job = j, !.sub = SubOf[j],
                                              !.todo = @ \ {j}]))
    /\ UNCHANGED <<queueVars, dbVars, faults>>

enqueueAdd(c) ==
    /\ At(c, "add")
    /\ enqueueAnalysisJob(local[c].job)
    /\ Goto(c, "mark")
    /\ UNCHANGED <<dbVars, faults>>

\* Redis refuses the call, or takes it and the answer is lost.  Recovery goes
\* on with the next job (continueOnError); the others give up, and neither
\* error path touches a status.
AfterError(l) == IF l.kind \in {"tick", "open"} THEN Continue(l) ELSE Idle

enqueueAddFails(c) ==
    /\ At(c, "add") /\ Fault("redis")
    /\ \/ enqueueAnalysisJob(local[c].job)
       \/ UNCHANGED queueVars
    /\ Become(c, AfterError(local[c]))
    /\ UNCHANGED dbVars

\* The row is set to queued without looking at what happened to the job since
\* it was added.
markQueued(c) ==
    /\ At(c, "mark")
    /\ jobStatus' = [jobStatus EXCEPT ![local[c].job] = "queued"]
    /\ Become(c, Continue(local[c]))
    /\ UNCHANGED <<queueVars, submissionStatus, result, faults>>

removeRetriedDeadLetter(c) ==
    /\ At(c, "dlqRemove")
    /\ removeDeadLetterJob(local[c].job)
    /\ Become(c, Idle)
    /\ UNCHANGED <<dbVars, faults>>

\* A query fails or the API process dies: the caller is gone, what it wrote
\* stays.  A failing query of one job does not end a recovery.
Abort(c) ==
    /\ ~At(c, "idle") /\ Fault("abort")
    /\ \/ Become(c, Idle)
       \/ /\ local[c].pc \in {"add", "mark", "complete", "syncRead", "syncWrite"}
          /\ Become(c, AfterError(local[c]))
    /\ UNCHANGED <<queueVars, dbVars>>

-----------------------------------------------------------------------------
(* The status changes shared by the API and the workers *)

\* The first update of markRunning, and the second one.
markRunning(p) ==
    /\ At(p, "start")
    /\ jobStatus' = [jobStatus EXCEPT ![local[p].job] = "running"]
    /\ Goto(p, "startSub")
    /\ UNCHANGED <<queueVars, submissionStatus, result, faults>>

markSubmissionProcessing(p) ==
    /\ At(p, "startSub")
    /\ submissionStatus' = [submissionStatus EXCEPT ![local[p].sub] = "processing"]
    /\ Goto(p, "work")
    /\ UNCHANGED <<queueVars, jobStatus, result, faults>>

markCompleted(p) ==
    /\ At(p, "complete")
    /\ jobStatus' = [jobStatus EXCEPT ![local[p].job] = "completed"]
    /\ Goto(p, "syncRead")
    /\ UNCHANGED <<queueVars, submissionStatus, result, faults>>

markFailed(p) ==
    /\ At(p, "fail")
    /\ jobStatus' = [jobStatus EXCEPT ![local[p].job] = "failed"]
    /\ Goto(p, "syncRead")
    /\ UNCHANGED <<queueVars, submissionStatus, result, faults>>

\* Mutants: some completed job is enough; an enum of the wrong table.
NextStatusOfSome(s) ==
    IF \E j \in JobsOf(s) : jobStatus[j] = "completed" THEN "completed" ELSE "processing"
NextStatusOfJob(s) ==
    IF \E j \in JobsOf(s) : jobStatus[j] = "queued" THEN "queued" ELSE "completed"

\* The status syncSubmissionStatus computes from the jobs it read.
NextStatus(s) ==
    LET seen == {jobStatus[j] : j \in JobsOf(s)}
    IN  CASE seen \cap {"queued", "running"} # {} -> "processing"
          [] seen = {"completed"}                 -> "completed"
          [] seen \cap {"queued", "running"} = {}
             /\ "failed" \in seen                 -> "failed"
          [] OTHER                                -> "accepted"

syncRead(p) ==
    /\ At(p, "syncRead")
    /\ Become(p, [local[p] EXCEPT !.pc = "syncWrite",
                                  !.next = NextStatus(local[p].sub)])
    /\ UNCHANGED <<queueVars, dbVars, faults>>

\* Where the caller of syncSubmissionStatus goes on.
AfterSync(l) ==
    CASE l.kind \in {"run", "reuse"} -> [l EXCEPT !.pc = "ack", !.next = "none"]
      [] l.kind = "fail"    -> [l EXCEPT !.pc = "deadLetter", !.next = "none"]
      [] l.kind = "closing" -> Idle
      [] OTHER              -> Continue(l)

syncWrite(p) ==
    /\ At(p, "syncWrite")
    /\ submissionStatus' =
         [submissionStatus EXCEPT ![local[p].sub] = local[p].next]
    /\ Become(p, AfterSync(local[p]))
    /\ UNCHANGED <<queueVars, jobStatus, result, faults>>

-----------------------------------------------------------------------------
syncSubmissionStatus(p) == syncRead(p) \/ syncWrite(p)

\* Where a caller that has been started goes on.
CallerStep(c) ==
    \/ enqueueForSubmission(c) \/ resetStaleRunning(c) \/ listOpenJobs(c)
    \/ retryCheckResult(c) \/ retryResetJob(c)
    \/ enqueue(c) \/ enqueueAdd(c) \/ markQueued(c) \/ removeRetriedDeadLetter(c)
    \/ markCompleted(c) \/ syncSubmissionStatus(c)

RequestArrives(c) ==
    \/ \E s \in Submissions : createSubmissionWithJobs(c, s)
    \/ \E timedOut \in SUBSET Jobs : recoverOpenJobs(c, timedOut)
    \/ \E j \in Jobs : retry(c, j) \/ retryDeadLetterJob(c, j)

CallerFault(c) == enqueueAddFails(c) \/ Abort(c)
=============================================================================
