-------------------------- MODULE JobPipelineProofs --------------------------
(***************************************************************************)
(* Proofs about JobPipeline, for every set of jobs, submissions, slots and *)
(* callers, every bound on attempts and stalls, and every mix of faults.   *)
(***************************************************************************)
EXTENDS JobPipeline, TLAPS

-----------------------------------------------------------------------------
(* What the helpers that move a process on do to its record *)

\* enqueueMany's continuation leads to a type-correct record at one of four
\* labels, and to a sync only as the closing one of create().
LEMMA ContinueShape ==
    ASSUME NEW l \in Locals
    PROVE  /\ Continue(l) \in Locals
           /\ Continue(l).pc \in {"next", "syncRead", "dlqRemove", "idle"}
           /\ Continue(l).pc = "syncRead" => Continue(l).kind = "closing"
           /\ Continue(l).pc # "idle" => Continue(l).job = l.job
<1>1. CASE l.todo # {}
  BY <1>1, ZenonT(60) DEF Continue, Locals, Labels, Kinds, SubmissionStates
<1>2. CASE l.todo = {} /\ l.kind = "create"
  BY <1>2 DEF Continue, Locals, Labels, Kinds, SubmissionStates
<1>3. CASE l.todo = {} /\ l.kind = "dlq"
  BY <1>3 DEF Continue, Locals, Labels, Kinds, SubmissionStates
<1>4. CASE l.todo = {} /\ l.kind \notin {"create", "dlq"}
  <2>1. Continue(l) = Idle
    BY <1>4 DEF Continue
  <2> QED
    BY <2>1 DEF Idle, Locals, Labels, Kinds, SubmissionStates
<1> QED
  BY <1>1, <1>2, <1>3, <1>4

LEMMA AfterErrorShape ==
    ASSUME NEW l \in Locals
    PROVE  /\ AfterError(l) \in Locals
           /\ AfterError(l).pc \in {"next", "syncRead", "dlqRemove", "idle"}
           /\ AfterError(l).pc = "syncRead" => AfterError(l).kind = "closing"
<1>1. /\ Idle \in Locals
      /\ Idle.pc = "idle"
  BY DEF Idle, Locals, Labels, Kinds, SubmissionStates
<1> QED
  BY <1>1, ContinueShape DEF AfterError

\* After a sync a run is acknowledged, a failure is dead-lettered, a caller
\* goes on with its list.
LEMMA AfterSyncShape ==
    ASSUME NEW l \in Locals
    PROVE  /\ AfterSync(l) \in Locals
           /\ AfterSync(l).pc \in {"ack", "deadLetter", "next", "syncRead",
                                   "dlqRemove", "idle"}
           /\ AfterSync(l).pc = "syncRead" => AfterSync(l).kind = "closing"
           /\ AfterSync(l).pc = "ack" => /\ l.kind \in {"run", "reuse"}
                                         /\ AfterSync(l).job = l.job
           /\ AfterSync(l).pc # "idle" => AfterSync(l).job = l.job
<1>1. CASE l.kind \in {"run", "reuse"}
  BY <1>1 DEF AfterSync, Locals, Labels, Kinds, SubmissionStates
<1>2. CASE l.kind = "fail"
  BY <1>2 DEF AfterSync, Locals, Labels, Kinds, SubmissionStates
<1>3. CASE l.kind = "closing"
  BY <1>3 DEF AfterSync, Idle, Locals, Labels, Kinds, SubmissionStates
<1>4. CASE l.kind \notin {"run", "reuse", "fail", "closing"}
  <2>1. AfterSync(l) = Continue(l)
    BY <1>4 DEF AfterSync
  <2> QED
    BY <2>1, <1>4, ContinueShape
<1> QED
  BY <1>1, <1>2, <1>3, <1>4

LEMMA CaughtShape ==
    ASSUME NEW l \in Locals
    PROVE  /\ Caught(l) \in Locals
           /\ Caught(l).job = l.job
           /\ Caught(l).pc \in {"fail", "nack"}
           /\ Caught(l).pc = "fail" => Caught(l).kind = "fail"
  BY ZenonT(60) DEF Caught, Locals, Labels, Kinds, SubmissionStates

LEMMA ThrownShape ==
    ASSUME NEW l \in Locals
    PROVE  /\ Thrown(l) \in Locals
           /\ Thrown(l).job = l.job
           /\ Thrown(l).pc \in {"fail", "nack"}
           /\ Thrown(l).pc = "fail" => Thrown(l).kind = "fail"
<1>1. CASE TryRegion(l)
  <2>1. Thrown(l) = [Caught(l) EXCEPT !.next = "none"]
    BY <1>1 DEF Thrown
  <2> QED
    BY <2>1, CaughtShape DEF Locals, SubmissionStates
<1>2. CASE ~TryRegion(l)
  <2>1. Thrown(l) = [l EXCEPT !.pc = "nack", !.next = "none"]
    BY <1>2 DEF Thrown
  <2> QED
    BY <2>1 DEF Locals, Labels, SubmissionStates
<1> QED
  BY <1>1, <1>2

LEMMA LookedShape ==
    ASSUME NEW l \in Locals
    PROVE  /\ Looked(l) \in Locals
           /\ Looked(l).pc \in {"next", "syncRead", "dlqRemove", "idle",
                                "complete", "add"}
           /\ Looked(l).pc = "syncRead" => Looked(l).kind = "closing"
           /\ Looked(l).pc = "complete" => Looked(l).job \in result
<1>1. CASE jobStatus[l.job] = "completed"
  <2>1. Looked(l) = Continue(l)
    BY <1>1 DEF Looked
  <2> QED
    BY <2>1, ContinueShape
<1>2. CASE jobStatus[l.job] # "completed" /\ l.job \in result
  BY <1>2 DEF Looked, Locals, Labels, SubmissionStates
<1>3. CASE jobStatus[l.job] # "completed" /\ l.job \notin result
  BY <1>3 DEF Looked, Locals, Labels, SubmissionStates
<1> QED
  BY <1>1, <1>2, <1>3

\* A status computed from the rows is one of the five, and it is "completed"
\* only if every job of the submission is.
LEMMA NextStatusShape ==
    ASSUME NEW s
    PROVE  /\ NextStatus(s) \in SubmissionStates /\ NextStatus(s) # "none"
           /\ NextStatus(s) = "completed"
                => \A j \in JobsOf(s) : jobStatus[j] = "completed"
<1> DEFINE seen == {jobStatus[j] : j \in JobsOf(s)}
<1>1. CASE seen \cap {"queued", "running"} # {}
  BY <1>1 DEF NextStatus, SubmissionStates
<1>2. CASE seen = {"completed"}
  BY <1>2 DEF NextStatus, SubmissionStates
<1>3. CASE seen \cap {"queued", "running"} = {} /\ "failed" \in seen
  BY <1>3 DEF NextStatus, SubmissionStates
<1>4. CASE /\ seen \cap {"queued", "running"} = {}
           /\ seen # {"completed"} /\ "failed" \notin seen
  BY <1>4 DEF NextStatus, SubmissionStates
<1> QED
  BY <1>1, <1>2, <1>3, <1>4

-----------------------------------------------------------------------------
(* Type correctness *)

\* A busy slot and a caller that retries have a job: what they add it to stays
\* a set of jobs.
NeedsJob(p, l) == \/ p \in Slots /\ l.pc # "idle"
                  \/ l.pc \in {"retryCheck", "retryReset"}

HasJob == \A p \in Procs : NeedsJob(p, local[p]) => local[p].job \in Jobs

TypeInv == TypeOK /\ HasJob

LEMMA TypeInit == Init => TypeInv
<1>1. Idle \in Locals
  BY DEF Idle, Locals, Labels, Kinds, SubmissionStates
<1> SUFFICES ASSUME Init PROVE TypeInv
  OBVIOUS
<1>2. QueueTypeOK
  BY DEF Init, QueueInit, QueueTypeOK, EntryStates
<1>3. ServiceTypeOK
  BY <1>1
  DEF Init, ServiceInit, ServiceTypeOK, TablesTypeOK, FaultCounts, JobStates,
      SubmissionStates
<1>4. HasJob
  BY DEF Init, ServiceInit, HasJob, NeedsJob, Idle
<1> QED
  BY <1>2, <1>3, <1>4 DEF TypeInv, TypeOK

\* The operations of the queue keep its types.
LEMMA QueueAddType ==
    ASSUME QueueTypeOK, NEW j, enqueueAnalysisJob(j)
    PROVE  QueueTypeOK'
  BY DEF QueueTypeOK, EntryStates, enqueueAnalysisJob

LEMMA QueueOpsType ==
    ASSUME QueueTypeOK, NEW p \in Slots, NEW j \in Jobs
    PROVE  /\ moveToDeadLetter(j) => QueueTypeOK'
           /\ takeEntry(p, j) => QueueTypeOK'
           /\ moveToCompleted(p, j) => QueueTypeOK'
           /\ moveToFailed(p, j) => QueueTypeOK'
           /\ dropLock(p) => QueueTypeOK'
           /\ Promote(j) \/ Stalled(j) \/ Evict(j) => QueueTypeOK'
<1> USE DEF QueueTypeOK, EntryStates
<1>1. moveToDeadLetter(j) => QueueTypeOK'
  BY DEF moveToDeadLetter
<1>2. takeEntry(p, j) => QueueTypeOK'
  BY DEF takeEntry
<1>3. moveToCompleted(p, j) => QueueTypeOK'
  BY DEF moveToCompleted, queueVars
<1>4. moveToFailed(p, j) => QueueTypeOK'
  BY DEF moveToFailed, queueVars
<1>5. dropLock(p) => QueueTypeOK'
  BY DEF dropLock
<1>6. Promote(j) => QueueTypeOK'
  BY DEF Promote
<1>7. Stalled(j) => QueueTypeOK'
  BY DEF Stalled
<1>8. Evict(j) => QueueTypeOK'
  BY DEF Evict
<1> HIDE DEF QueueTypeOK, EntryStates
<1> QED
  BY <1>1, <1>2, <1>3, <1>4, <1>5, <1>6, <1>7, <1>8

LEMMA IdleType == Idle \in Locals /\ Idle.pc = "idle"
  BY DEF Idle, Locals, Labels, Kinds, SubmissionStates

\* A step that moves one process keeps the type invariant if it keeps the types
\* of the queue and of the tables and gives the process a well-typed record.
LEMMA MoveKeepsType ==
    ASSUME TypeInv, NEW p \in Procs, NEW l \in Locals, Become(p, l),
           NeedsJob(p, l) => l.job \in Jobs,
           QueueTypeOK', TablesTypeOK', faults' \in FaultCounts
    PROVE  TypeInv'
<1>1. local' \in [Procs -> Locals]
  BY DEF Become, TypeInv, TypeOK, ServiceTypeOK
<1>2. HasJob'
  BY DEF Become, TypeInv, TypeOK, ServiceTypeOK, HasJob
<1> QED
  BY <1>1, <1>2 DEF TypeInv, TypeOK, ServiceTypeOK

LEMMA SameQueueType ==
    ASSUME QueueTypeOK, UNCHANGED queueVars
    PROVE  QueueTypeOK'
  BY DEF QueueTypeOK, queueVars

LEMMA SameTablesType ==
    ASSUME TablesTypeOK, UNCHANGED dbVars
    PROVE  TablesTypeOK'
  BY DEF TablesTypeOK, dbVars

\* Writing one row, or any set of rows, of jobs or submissions.
LEMMA TablesUpdateType ==
    ASSUME TablesTypeOK, result' = result
    PROVE  /\ \A j, v : v \in JobStates /\ jobStatus' = [jobStatus EXCEPT ![j] = v]
                         /\ submissionStatus' = submissionStatus => TablesTypeOK'
           /\ \A s, v : /\ v \in SubmissionStates
                        /\ submissionStatus' = [submissionStatus EXCEPT ![s] = v]
                        /\ jobStatus' = jobStatus
                        => TablesTypeOK'
  BY DEF TablesTypeOK

\* Syncing the status of a submission keeps the types, for slots and callers.
LEMMA SyncType ==
    ASSUME TypeInv, NEW p \in Procs, syncSubmissionStatus(p)
    PROVE  TypeInv'
<1>a. local[p] \in Locals /\ QueueTypeOK /\ TablesTypeOK /\ faults \in FaultCounts
  BY DEF TypeInv, TypeOK, ServiceTypeOK
<1>b. NeedsJob(p, local[p]) => local[p].job \in Jobs
  BY DEF TypeInv, HasJob
<1>1. CASE syncRead(p)
  <2> DEFINE l == [local[p] EXCEPT !.pc = "syncWrite",
                                   !.next = NextStatus(local[p].sub)]
  <2>1. l \in Locals /\ l.job = local[p].job /\ l.pc = "syncWrite"
    BY <1>a, NextStatusShape DEF Locals, Labels
  <2> QED
    BY <1>1, <1>a, <1>b, <2>1, MoveKeepsType, SameQueueType, SameTablesType
    DEF syncRead, NeedsJob, At
<1>2. CASE syncWrite(p)
  <2> DEFINE l == AfterSync(local[p])
  <2>1. l \in Locals /\ l.pc \notin {"retryCheck", "retryReset"}
    BY <1>a, AfterSyncShape
  <2>2. l.pc # "idle" => l.job = local[p].job
    BY <1>a, AfterSyncShape
  <2>3. local[p].next \in SubmissionStates
    BY <1>a DEF Locals
  <2>4. TablesTypeOK'
    BY <1>2, <1>a, <2>3, TablesUpdateType DEF syncWrite
  <2> QED
    BY <1>2, <1>a, <1>b, <2>1, <2>2, <2>4, MoveKeepsType, SameQueueType
    DEF syncWrite, NeedsJob, At
<1> QED
  BY <1>1, <1>2 DEF syncSubmissionStatus

\* Where a caller goes on keeps the types.
LEMMA CallerType ==
    ASSUME TypeInv, NEW c \in Callers, CallerStep(c)
    PROVE  TypeInv'
<1>a. c \in Procs /\ c \notin Slots
  BY ServiceAssumption DEF Procs
<1>b. local[c] \in Locals /\ QueueTypeOK /\ TablesTypeOK /\ faults \in FaultCounts
  BY <1>a DEF TypeInv, TypeOK, ServiceTypeOK
<1>c. /\ \A s : OpenJobs(JobsOf(s)) \in SUBSET Jobs
      /\ OpenJobs(Jobs) \in SUBSET Jobs
      /\ local[c].todo \in SUBSET Jobs
      /\ local[c].sub \in Submissions \cup {NoSub}
      /\ \A j \in Jobs : SubOf[j] \in Submissions
  BY <1>b, ServiceAssumption DEF OpenJobs, JobsOf, Locals
\* A step of c that leaves the queue and the tables alone.
<1>d. ASSUME NEW l \in Locals, l.pc \notin {"retryCheck", "retryReset"},
             Become(c, l), UNCHANGED <<queueVars, dbVars, faults>>
      PROVE  TypeInv'
  BY <1>a, <1>b, <1>d, MoveKeepsType, SameQueueType, SameTablesType DEF NeedsJob
\* A step of c that sets the status of one job.
<1>e. ASSUME NEW l \in Locals, l.pc \notin {"retryCheck", "retryReset"},
             Become(c, l), NEW j, NEW v \in JobStates,
             jobStatus' = [jobStatus EXCEPT ![j] = v],
             UNCHANGED <<queueVars, submissionStatus, result, faults>>
      PROVE  TypeInv'
  BY <1>a, <1>b, <1>e, MoveKeepsType, SameQueueType, TablesUpdateType
     DEF NeedsJob
<1>1. CASE enqueueForSubmission(c)
  <2> DEFINE l == [local[c] EXCEPT !.todo = OpenJobs(JobsOf(local[c].sub))]
  <2>1. l \in Locals
    BY <1>b, <1>c DEF Locals
  <2> QED
    BY <1>1, <1>d, <2>1, ContinueShape DEF enqueueForSubmission, Enqueue
<1>2. CASE resetStaleRunning(c)
  <2>1. [local[c] EXCEPT !.pc = "openList"] \in Locals
    BY <1>b DEF Locals, Labels
  <2>2. jobStatus' \in [Jobs -> JobStates]
    BY <1>2, <1>b DEF resetStaleRunning, TablesTypeOK, JobStates
  <2>3. TablesTypeOK'
    BY <1>2, <1>b, <2>2 DEF resetStaleRunning, TablesTypeOK
  <2> QED
    BY <1>2, <1>a, <1>b, <2>1, <2>3, MoveKeepsType, SameQueueType
    DEF resetStaleRunning, Goto, NeedsJob, Locals
<1>3. CASE listOpenJobs(c)
  <2> DEFINE l == [local[c] EXCEPT !.todo = OpenJobs(Jobs)
                    \cup {j \in local[c].todo : jobStatus[j] = "running"}]
  <2>1. l \in Locals
    BY <1>b, <1>c DEF Locals
  <2> QED
    BY <1>3, <1>d, <2>1, ContinueShape DEF listOpenJobs, Enqueue
<1>4. CASE retryCheckResult(c)
  <2>1. local[c].job \in Jobs
    BY <1>4, <1>a DEF retryCheckResult, At, TypeInv, HasJob, NeedsJob
  <2> DEFINE l == [local[c] EXCEPT
                     !.pc = IF local[c].job \in result THEN "complete"
                                                       ELSE "retryReset"]
  <2>2. l \in Locals /\ l.job \in Jobs
    BY <1>b, <2>1 DEF Locals, Labels
  <2> HIDE DEF l
  <2>3. Become(c, l)
    BY <1>4 DEF retryCheckResult, Goto, l
  <2> QED
    BY <1>4, <1>a, <1>b, <2>2, <2>3, MoveKeepsType, SameQueueType, SameTablesType
    DEF retryCheckResult
<1>5. CASE retryResetJob(c)
  <2>1. local[c].job \in Jobs
    BY <1>5, <1>a DEF retryResetJob, At, TypeInv, HasJob, NeedsJob
  <2>2. [local[c] EXCEPT !.todo = {local[c].job}] \in Locals
    BY <1>b, <2>1 DEF Locals
  <2> QED
    BY <1>5, <1>e, <2>2, ContinueShape DEF retryResetJob, Enqueue, JobStates
<1>6. CASE enqueue(c)
  <2>1. PICK j \in local[c].todo :
          Become(c, Looked([local[c] EXCEPT !.job = j, !.sub = SubOf[j],
                                            !.todo = @ \ {j}]))
    BY <1>6 DEF enqueue
  <2> DEFINE l == [local[c] EXCEPT !.job = j, !.sub = SubOf[j],
                                   !.todo = @ \ {j}]
  <2>2. l \in Locals
    BY <1>b, <1>c DEF Locals
  <2> QED
    BY <1>6, <1>d, <2>1, <2>2, LookedShape DEF enqueue
<1>7. CASE enqueueAdd(c)
  <2>1. [local[c] EXCEPT !.pc = "mark"] \in Locals
    BY <1>b DEF Locals, Labels
  <2>2. QueueTypeOK'
    BY <1>7, <1>b, QueueAddType DEF enqueueAdd
  <2> QED
    BY <1>7, <1>a, <1>b, <2>1, <2>2, MoveKeepsType, SameTablesType
    DEF enqueueAdd, Goto, NeedsJob, Locals
<1>8. CASE markQueued(c)
  BY <1>8, <1>b, <1>e, ContinueShape DEF markQueued, JobStates
<1>9. CASE removeRetriedDeadLetter(c)
  <2>1. QueueTypeOK'
    BY <1>9, <1>b DEF removeRetriedDeadLetter, removeDeadLetterJob, QueueTypeOK
  <2> QED
    BY <1>9, <1>a, <1>b, <2>1, IdleType, MoveKeepsType, SameTablesType
    DEF removeRetriedDeadLetter, NeedsJob
<1>10. CASE markCompleted(c)
  <2>1. [local[c] EXCEPT !.pc = "syncRead"] \in Locals
    BY <1>b DEF Locals, Labels
  <2> QED
    BY <1>10, <1>b, <1>e, <2>1 DEF markCompleted, Goto, JobStates, Locals
<1>11. CASE syncSubmissionStatus(c)
  BY <1>11, <1>a, SyncType
<1> QED
  BY <1>1, <1>2, <1>3, <1>4, <1>5, <1>6, <1>7, <1>8, <1>9, <1>10, <1>11
  DEF CallerStep

\* The ways in keep the types.
LEMMA RequestType ==
    ASSUME TypeInv, NEW c \in Requests, RequestArrives(c)
    PROVE  TypeInv'
<1>a. c \in Procs /\ c \notin Slots
  BY ServiceAssumption DEF Procs, Callers
<1>b. local[c] \in Locals /\ QueueTypeOK /\ TablesTypeOK /\ faults \in FaultCounts
  BY <1>a DEF TypeInv, TypeOK, ServiceTypeOK
<1>c. \A j \in Jobs : SubOf[j] \in Submissions
  BY ServiceAssumption
<1>1. ASSUME NEW s \in Submissions, createSubmissionWithJobs(c, s)
      PROVE  TypeInv'
  <2> DEFINE l == [local[c] EXCEPT !.pc = "list", !.kind = "create", !.sub = s]
  <2>1. l \in Locals /\ l.pc = "list"
    BY <1>b DEF Locals, Labels, Kinds
  <2>2. Become(c, l)
    BY <1>1 DEF createSubmissionWithJobs
  <2>3. TablesTypeOK'
    BY <1>1, <1>b DEF createSubmissionWithJobs, TablesTypeOK, JobStates,
       SubmissionStates
  <2> HIDE DEF l
  <2> QED
    BY <1>1, <1>a, <1>b, <2>1, <2>2, <2>3, MoveKeepsType, SameQueueType
    DEF createSubmissionWithJobs, NeedsJob
<1>2. ASSUME NEW timedOut \in SUBSET Jobs, recoverOpenJobs(c, timedOut)
      PROVE  TypeInv'
  <2> DEFINE stale == {j \in timedOut : jobStatus[j] = "running"}
             l == [local[c] EXCEPT !.kind = "open", !.todo = stale,
                     !.pc = IF stale = {} THEN "openList" ELSE "reset"]
  <2>1. l \in Locals /\ l.pc \in {"openList", "reset"}
    BY <1>b DEF Locals, Labels, Kinds
  <2>2. Become(c, l)
    BY <1>2 DEF recoverOpenJobs
  <2> HIDE DEF l
  <2> QED
    BY <1>2, <1>a, <1>b, <2>1, <2>2, MoveKeepsType, SameQueueType, SameTablesType
    DEF recoverOpenJobs, NeedsJob
<1>3. ASSUME NEW j \in Jobs, retry(c, j) \/ retryDeadLetterJob(c, j)
      PROVE  TypeInv'
  <2>1. PICK k \in {"retry", "dlq"} :
          Become(c, [local[c] EXCEPT !.pc = "retryCheck", !.kind = k,
                                     !.job = j, !.sub = SubOf[j]])
    BY <1>3 DEF retry, retryDeadLetterJob
  <2> DEFINE l == [local[c] EXCEPT !.pc = "retryCheck", !.kind = k,
                                   !.job = j, !.sub = SubOf[j]]
  <2>2. l \in Locals /\ l.job \in Jobs
    BY <1>b, <1>c DEF Locals, Labels, Kinds
  <2>3. UNCHANGED <<queueVars, dbVars, faults>>
    BY <1>3 DEF retry, retryDeadLetterJob
  <2> HIDE DEF l
  <2>4. Become(c, l)
    BY <2>1 DEF l
  <2> QED
    BY <1>a, <1>b, <2>2, <2>3, <2>4, MoveKeepsType, SameQueueType, SameTablesType
<1> QED
  BY <1>1, <1>2, <1>3 DEF RequestArrives

LEMMA TickType ==
    ASSUME TypeInv, NEW c \in Ticks, NEW old, recoverZombieJobs(c, old)
    PROVE  TypeInv'
<1>a. c \in Procs /\ c \notin Slots
  BY ServiceAssumption DEF Procs, Callers
<1>b. local[c] \in Locals /\ QueueTypeOK /\ TablesTypeOK /\ faults \in FaultCounts
  BY <1>a DEF TypeInv, TypeOK, ServiceTypeOK
<1> DEFINE m == [local[c] EXCEPT !.kind = "tick",
                   !.todo = {j \in Jobs : jobStatus[j] = "pending"
                                          /\ SubOf[j] \in old}]
<1>1. m \in Locals
  BY <1>b DEF Locals, Kinds
<1>2. Become(c, Continue(m))
  BY DEF recoverZombieJobs
<1> HIDE DEF m
<1>3. Continue(m) \in Locals /\ ~NeedsJob(c, Continue(m))
  BY <1>1, <1>a, ContinueShape DEF NeedsJob
<1> QED
  BY <1>a, <1>b, <1>2, <1>3, MoveKeepsType, SameQueueType, SameTablesType
  DEF recoverZombieJobs

LEMMA CallerFaultType ==
    ASSUME TypeInv, NEW c \in Callers, CallerFault(c)
    PROVE  TypeInv'
<1>a. c \in Procs /\ c \notin Slots
  BY ServiceAssumption DEF Procs
<1>b. local[c] \in Locals /\ QueueTypeOK /\ TablesTypeOK /\ faults \in FaultCounts
  BY <1>a DEF TypeInv, TypeOK, ServiceTypeOK
<1>c. \A l \in {Idle, AfterError(local[c])} : l \in Locals /\ ~NeedsJob(c, l)
  BY <1>a, <1>b, IdleType, AfterErrorShape DEF NeedsJob
<1>d. faults' \in FaultCounts
  BY <1>b DEF CallerFault, enqueueAddFails, Abort, Fault, FaultCounts
<1>1. CASE enqueueAddFails(c)
  <2>1. QueueTypeOK'
    BY <1>1, <1>b, QueueAddType, SameQueueType DEF enqueueAddFails
  <2> QED
    BY <1>1, <1>a, <1>b, <1>c, <1>d, <2>1, MoveKeepsType, SameTablesType
    DEF enqueueAddFails
<1>2. CASE Abort(c)
  <2>1. PICK l \in {Idle, AfterError(local[c])} : Become(c, l)
    BY <1>2 DEF Abort
  <2>2. UNCHANGED queueVars /\ UNCHANGED dbVars
    BY <1>2 DEF Abort
  <2> QED
    BY <1>a, <1>b, <1>c, <1>d, <2>1, <2>2, MoveKeepsType, SameQueueType,
       SameTablesType
<1> QED
  BY <1>1, <1>2 DEF CallerFault

\* A slot keeps the types.
LEMMA SlotType ==
    ASSUME TypeInv, NEW p \in Slots, SlotStep(p)
    PROVE  TypeInv'
<1>a. p \in Procs
  BY DEF Procs
<1>b. local[p] \in Locals /\ QueueTypeOK /\ TablesTypeOK /\ faults \in FaultCounts
  BY <1>a DEF TypeInv, TypeOK, ServiceTypeOK
<1>c. ~At(p, "idle") => local[p].job \in Jobs
  BY <1>a DEF TypeInv, HasJob, NeedsJob, At
<1>d. \A label \in Labels : /\ [local[p] EXCEPT !.pc = label] \in Locals
                            /\ [local[p] EXCEPT !.pc = label].job = local[p].job
  BY <1>b DEF Locals
\* A step of p that keeps its job, or makes it idle.
<1>e. ASSUME NEW l \in Locals, l.pc # "idle" => ~At(p, "idle") /\ l.job = local[p].job,
             Become(p, l), QueueTypeOK', TablesTypeOK', faults' = faults
      PROVE  TypeInv'
  <2>1. NeedsJob(p, l) => l.job \in Jobs
    BY <1>e, <1>c DEF NeedsJob
  <2> QED
    BY <1>a, <1>b, <1>e, <2>1, MoveKeepsType
<1>1. CASE findUniqueByJobId(p)
  <2>1. PICK l \in {[local[p] EXCEPT !.pc = "complete", !.kind = "reuse"],
                    [local[p] EXCEPT !.pc = "start"]} : Become(p, l)
    BY <1>1 DEF findUniqueByJobId, Goto
  <2>2. l \in Locals /\ l.job = local[p].job
    BY <1>b DEF Locals, Labels, Kinds
  <2>3. QueueTypeOK' /\ TablesTypeOK' /\ faults' = faults
    BY <1>1, <1>b, SameQueueType, SameTablesType DEF findUniqueByJobId
  <2> QED
    BY <1>1, <1>e, <2>1, <2>2, <2>3 DEF findUniqueByJobId, At
<1>2. CASE markRunning(p)
  <2>1. QueueTypeOK' /\ TablesTypeOK'
    BY <1>2, <1>b, SameQueueType, TablesUpdateType DEF markRunning, JobStates
  <2> QED
    BY <1>2, <1>d, <1>e, <2>1 DEF markRunning, Goto, At, Labels
<1>3. CASE markSubmissionProcessing(p)
  <2>1. QueueTypeOK' /\ TablesTypeOK'
    BY <1>3, <1>b, SameQueueType, TablesUpdateType
    DEF markSubmissionProcessing, SubmissionStates
  <2> QED
    BY <1>3, <1>d, <1>e, <2>1 DEF markSubmissionProcessing, Goto, At, Labels
<1>4. CASE dispatch(p)
  <2>1. QueueTypeOK' /\ TablesTypeOK'
    BY <1>4, <1>b, <1>c, SameQueueType DEF dispatch, At, TablesTypeOK
  <2> QED
    BY <1>4, <1>d, <1>e, <2>1 DEF dispatch, Goto, At, Labels
<1>5. CASE dispatchThrows(p)
  <2>1. QueueTypeOK' /\ TablesTypeOK'
    BY <1>5, <1>b, SameQueueType, SameTablesType DEF dispatchThrows
  <2> QED
    BY <1>5, <1>b, <1>e, <2>1, CaughtShape DEF dispatchThrows, At
<1>6. CASE markCompleted(p)
  <2>1. QueueTypeOK' /\ TablesTypeOK'
    BY <1>6, <1>b, SameQueueType, TablesUpdateType DEF markCompleted, JobStates
  <2> QED
    BY <1>6, <1>d, <1>e, <2>1 DEF markCompleted, Goto, At, Labels
<1>7. CASE markFailed(p)
  <2>1. QueueTypeOK' /\ TablesTypeOK'
    BY <1>7, <1>b, SameQueueType, TablesUpdateType DEF markFailed, JobStates
  <2> QED
    BY <1>7, <1>d, <1>e, <2>1 DEF markFailed, Goto, At, Labels
<1>8. CASE syncSubmissionStatus(p)
  BY <1>8, <1>a, SyncType
<1>9. CASE deadLetterJob(p)
  <2>1. QueueTypeOK' /\ TablesTypeOK'
    BY <1>9, <1>b, <1>c, QueueOpsType, SameTablesType DEF deadLetterJob, At
  <2> QED
    BY <1>9, <1>d, <1>e, <2>1 DEF deadLetterJob, Goto, At, Labels
<1>10. CASE acknowledge(p)
  <2>1. QueueTypeOK' /\ TablesTypeOK'
    BY <1>10, <1>b, <1>c, QueueOpsType, SameTablesType DEF acknowledge, At
  <2> QED
    BY <1>10, <1>e, <2>1, IdleType DEF acknowledge
<1>11. CASE reject(p)
  <2>1. QueueTypeOK' /\ TablesTypeOK'
    BY <1>11, <1>b, <1>c, QueueOpsType, SameTablesType DEF reject, At
  <2> QED
    BY <1>11, <1>e, <2>1, IdleType DEF reject
<1> QED
  BY <1>1, <1>2, <1>3, <1>4, <1>5, <1>6, <1>7, <1>8, <1>9, <1>10, <1>11
  DEF SlotStep

\* So do its failures.
LEMMA SlotFaultType ==
    ASSUME TypeInv, NEW p \in Slots, SlotFault(p)
    PROVE  TypeInv'
<1>a. p \in Procs
  BY DEF Procs
<1>b. local[p] \in Locals /\ QueueTypeOK /\ TablesTypeOK /\ faults \in FaultCounts
  BY <1>a DEF TypeInv, TypeOK, ServiceTypeOK
<1>c. ~At(p, "idle") => local[p].job \in Jobs
  BY <1>a DEF TypeInv, HasJob, NeedsJob, At
<1>d. faults' \in FaultCounts
  BY <1>b DEF SlotFault, Throws, Crash, LockExpires, Fault, FaultCounts
<1>e. dropLock(p) => QueueTypeOK'
  BY <1>b DEF dropLock, QueueTypeOK
<1>1. CASE Throws(p)
  <2>1. ~At(p, "idle")
    BY <1>1 DEF Throws, OuterRegion, TryRegion, CatchRegion, InMarking, At
  <2>2. TablesTypeOK'
    BY <1>1, <1>b DEF Throws, TablesTypeOK, SubmissionStates
  <2> QED
    BY <1>1, <1>a, <1>b, <1>c, <1>d, <2>1, <2>2, ThrownShape, MoveKeepsType,
       SameQueueType DEF Throws
<1>2. CASE Crash(p)
  BY <1>2, <1>a, <1>b, <1>d, <1>e, IdleType, MoveKeepsType, SameTablesType
  DEF Crash, NeedsJob
<1>3. CASE LockExpires(p)
  BY <1>3, <1>d, <1>e, SameTablesType
  DEF LockExpires, TypeInv, TypeOK, ServiceTypeOK, HasJob
<1> QED
  BY <1>1, <1>2, <1>3 DEF SlotFault

LEMMA TakeType ==
    ASSUME TypeInv, NEW p \in Slots, NEW j \in Jobs, take(p, j)
    PROVE  TypeInv'
<1>a. p \in Procs /\ SubOf[j] \in Submissions
  BY ServiceAssumption DEF Procs
<1>b. local[p] \in Locals /\ QueueTypeOK /\ TablesTypeOK /\ faults \in FaultCounts
  BY <1>a DEF TypeInv, TypeOK, ServiceTypeOK
<1> DEFINE l == [local[p] EXCEPT !.pc = "lookup", !.kind = "run", !.job = j,
                                 !.sub = SubOf[j], !.att = made[j]]
<1>1. made[j] \in Nat
  BY <1>b DEF QueueTypeOK
<1>2. l \in Locals /\ l.job \in Jobs
  BY <1>a, <1>b, <1>1 DEF Locals, Labels, Kinds
<1>3. Become(p, l)
  BY DEF take
<1>4. QueueTypeOK' /\ TablesTypeOK'
  BY <1>b, QueueOpsType, SameTablesType DEF take
<1> HIDE DEF l
<1> QED
  BY <1>a, <1>b, <1>2, <1>3, <1>4, MoveKeepsType DEF take

LEMMA QueueStepType ==
    ASSUME TypeInv, NEW j \in Jobs, QueueStep(j)
    PROVE  TypeInv'
<1>1. QueueTypeOK /\ TablesTypeOK
  BY DEF TypeInv, TypeOK, ServiceTypeOK
<1>2. QueueTypeOK'
  BY <1>1 DEF QueueStep, Promote, Stalled, Evict, QueueTypeOK, EntryStates
<1>3. TablesTypeOK'
  BY <1>1, SameTablesType DEF QueueStep
<1> QED
  BY <1>2, <1>3 DEF QueueStep, TypeInv, TypeOK, ServiceTypeOK, HasJob

LEMMA TypeStep == TypeInv /\ [Next]_vars => TypeInv'
<1> SUFFICES ASSUME TypeInv, [Next]_vars PROVE TypeInv'
  OBVIOUS
<1>1. CASE UNCHANGED vars
  <2>1. QueueTypeOK' /\ TablesTypeOK'
    BY <1>1, SameQueueType, SameTablesType
    DEF vars, TypeInv, TypeOK, ServiceTypeOK
  <2> QED
    BY <1>1, <2>1 DEF vars, TypeInv, TypeOK, ServiceTypeOK, HasJob
<1>2. CASE Next
  BY <1>2, RequestType, TickType, CallerType, CallerFaultType, TakeType,
     SlotType, SlotFaultType, QueueStepType DEF Next
<1> QED
  BY <1>1, <1>2

\* Every variable keeps its type, in every run of the pipeline.
THEOREM TypeCorrect == Spec => []TypeOK
<1>1. Spec => []TypeInv
  BY TypeInit, TypeStep, PTL DEF Spec
<1>2. TypeInv => TypeOK
  BY DEF TypeInv
<1> QED
  BY <1>1, <1>2, PTL

-----------------------------------------------------------------------------
(* Completion is never reported without the result *)

(***************************************************************************)
(* The three properties about completion are not inductive: a job becomes  *)
(* completed because of what a process found out some awaits earlier.  The *)
(* invariant says what each process knows at each label: one that is about *)
(* to complete or acknowledge its job has seen the result, and one that is *)
(* about to close a submission has seen all of them.  It survives every    *)
(* interleaving because results are never removed.                         *)
(***************************************************************************)
Knows(l, stored) ==
    /\ l.pc \in {"complete", "ack"} => l.job \in stored
    /\ l.pc \in {"syncRead", "syncWrite"} /\ l.kind \in {"run", "reuse"}
         => l.job \in stored
    /\ l.pc = "fail" => l.kind = "fail"
    /\ l.pc = "syncWrite" /\ l.next = "completed" => JobsOf(l.sub) \subseteq stored

ResultInv ==
    /\ CompletedHasResult
    /\ AckedHasResult
    /\ SubmissionCompletedHasResults
    /\ \A p \in Procs : Knows(local[p], result)

LEMMA ResultInit == Init => ResultInv
  BY DEF Init, QueueInit, ServiceInit, ResultInv, CompletedHasResult,
     AckedHasResult, SubmissionCompletedHasResults, Knows, Idle

\* A record at a label that claims nothing.
LEMMA NothingToKnow ==
    ASSUME NEW l, l.pc \notin {"complete", "ack", "syncRead", "syncWrite", "fail"}
    PROVE  Knows(l, result')
  BY DEF Knows

\* Results accumulate, so a step preserves the invariant if what it writes in
\* the tables and in the queue, and the record it gives the process, are
\* covered.
LEMMA MoveKeepsKnowledge ==
    ASSUME TypeInv, ResultInv, NEW p \in Procs, NEW l, Become(p, l), Knows(l, result'),
           result \subseteq result',
           CompletedHasResult', AckedHasResult', SubmissionCompletedHasResults'
    PROVE  ResultInv'
<1>1. ASSUME NEW q \in Procs, q # p PROVE Knows(local'[q], result')
  <2>1. local'[q] = local[q]
    BY <1>1 DEF Become, TypeInv, TypeOK, ServiceTypeOK
  <2>2. Knows(local[q], result)
    BY DEF ResultInv
  <2> QED
    BY <2>1, <2>2 DEF Knows, JobsOf
<1>2. Knows(local'[p], result')
  <2>1. local'[p] = l
    BY DEF Become, TypeInv, TypeOK, ServiceTypeOK
  <2> QED
    BY <2>1 DEF Knows
<1> QED
  BY <1>1, <1>2 DEF ResultInv

\* What stays true of the tables and the queue when they do not change.
LEMMA SameTables ==
    ASSUME ResultInv, UNCHANGED dbVars
    PROVE  /\ result' = result
           /\ CompletedHasResult' /\ SubmissionCompletedHasResults'
  BY DEF ResultInv, dbVars, CompletedHasResult, SubmissionCompletedHasResults,
     JobsOf

LEMMA SameEntries ==
    ASSUME ResultInv, result \subseteq result',
           \A j \in Jobs : entry'[j] = "completed" => entry[j] = "completed"
    PROVE  AckedHasResult'
  BY DEF ResultInv, AckedHasResult

\* The status of one job is written: completed only over a result.
LEMMA JobWritten ==
    ASSUME TypeInv, ResultInv, NEW j, NEW v,
           jobStatus' = [jobStatus EXCEPT ![j] = v],
           v = "completed" => j \in result,
           UNCHANGED <<submissionStatus, result>>
    PROVE  CompletedHasResult' /\ SubmissionCompletedHasResults'
  BY DEF ResultInv, CompletedHasResult, SubmissionCompletedHasResults, JobsOf,
     TypeInv, TypeOK, ServiceTypeOK, TablesTypeOK

\* The status of one submission is written: completed only over all results.
LEMMA SubmissionWritten ==
    ASSUME TypeInv, ResultInv, NEW s, NEW v,
           submissionStatus' = [submissionStatus EXCEPT ![s] = v],
           v = "completed" => JobsOf(s) \subseteq result,
           UNCHANGED <<jobStatus, result>>
    PROVE  CompletedHasResult' /\ SubmissionCompletedHasResults'
  BY DEF ResultInv, CompletedHasResult, SubmissionCompletedHasResults, JobsOf,
     TypeInv, TypeOK, ServiceTypeOK, TablesTypeOK

\* A process moves and changes nothing else.
LEMMA OnlyMoves ==
    ASSUME TypeInv, ResultInv, NEW p \in Procs, NEW l, Become(p, l), Knows(l, result'),
           UNCHANGED <<queueVars, dbVars>>
    PROVE  ResultInv'
  BY MoveKeepsKnowledge, SameTables, SameEntries DEF queueVars

\* A process moves and writes the status of one job, not over a missing result.
LEMMA MovesAndWrites ==
    ASSUME TypeInv, ResultInv, NEW p \in Procs, NEW l, Become(p, l), Knows(l, result'),
           NEW j, NEW v, jobStatus' = [jobStatus EXCEPT ![j] = v],
           v = "completed" => j \in result,
           UNCHANGED <<queueVars, submissionStatus, result>>
    PROVE  ResultInv'
<1>1. CompletedHasResult' /\ SubmissionCompletedHasResults'
  BY JobWritten
<1>2. AckedHasResult'
  BY SameEntries DEF queueVars
<1> QED
  BY <1>1, <1>2, MoveKeepsKnowledge

\* What the continuations of a caller claim: nothing.
LEMMA ContinueKnows == ASSUME NEW l \in Locals PROVE Knows(Continue(l), result')
  BY ContinueShape DEF Knows

LEMMA AfterErrorKnows == ASSUME NEW l \in Locals PROVE Knows(AfterError(l), result')
  BY AfterErrorShape DEF Knows

LEMMA LookedKnows ==
    ASSUME NEW l \in Locals, result' = result PROVE Knows(Looked(l), result')
  BY LookedShape DEF Knows

LEMMA IdleKnows == Knows(Idle, result')
  BY DEF Idle, Knows

\* Completing a job and syncing its submission, by a slot or by a caller.
LEMMA MarkingResult ==
    ASSUME TypeInv, ResultInv, NEW p \in Procs,
           markCompleted(p) \/ syncSubmissionStatus(p)
    PROVE  ResultInv'
<1>a. local[p] \in Locals /\ Knows(local[p], result)
  BY DEF TypeInv, TypeOK, ServiceTypeOK, ResultInv
<1>1. CASE markCompleted(p)
  <2> DEFINE l == [local[p] EXCEPT !.pc = "syncRead"]
  <2>1. local[p].job \in result
    BY <1>1, <1>a DEF markCompleted, At, Knows
  <2>2. Become(p, l) /\ result' = result
    BY <1>1 DEF markCompleted, Goto
  <2>3. l.job \in result /\ l.pc = "syncRead"
    BY <1>a, <2>1 DEF Locals
  <2> HIDE DEF l
  <2>4. Knows(l, result')
    BY <2>2, <2>3 DEF Knows
  <2> QED
    BY <1>1, <2>1, <2>2, <2>4, MovesAndWrites DEF markCompleted
<1>2. CASE syncRead(p)
  <2> DEFINE l == [local[p] EXCEPT !.pc = "syncWrite",
                                   !.next = NextStatus(local[p].sub)]
  <2>1. /\ l.pc = "syncWrite" /\ l.next = NextStatus(local[p].sub)
        /\ l.sub = local[p].sub /\ l.kind = local[p].kind /\ l.job = local[p].job
    BY <1>a DEF Locals
  <2>2. NextStatus(local[p].sub) = "completed" => JobsOf(local[p].sub) \subseteq result
    BY NextStatusShape DEF ResultInv, CompletedHasResult, JobsOf
  <2>3. Become(p, l) /\ UNCHANGED <<queueVars, dbVars>>
    BY <1>2 DEF syncRead
  <2>4. local[p].kind \in {"run", "reuse"} => local[p].job \in result
    BY <1>2, <1>a DEF syncRead, At, Knows
  <2>5. result' = result
    BY <2>3 DEF dbVars
  <2> HIDE DEF l
  <2>6. Knows(l, result')
    BY <2>1, <2>2, <2>4, <2>5 DEF Knows, JobsOf
  <2> QED
    BY <2>3, <2>6, OnlyMoves
<1>3. CASE syncWrite(p)
  <2> DEFINE l == AfterSync(local[p])
  <2>1. local[p].next = "completed" => JobsOf(local[p].sub) \subseteq result
    BY <1>3, <1>a DEF syncWrite, At, Knows
  <2>2. CompletedHasResult' /\ SubmissionCompletedHasResults' /\ result' = result
    BY <1>3, <2>1, SubmissionWritten DEF syncWrite
  <2>3. AckedHasResult'
    BY <1>3, SameEntries DEF syncWrite, queueVars
  <2>4. l.pc = "ack" => l.job \in result
    BY <1>3, <1>a, AfterSyncShape DEF syncWrite, At, Knows
  <2>5. Knows(l, result')
    BY <1>a, <2>2, <2>4, AfterSyncShape DEF Knows
  <2> QED
    BY <1>3, <2>2, <2>3, <2>5, MoveKeepsKnowledge DEF syncWrite
<1> QED
  BY <1>1, <1>2, <1>3 DEF syncSubmissionStatus

LEMMA CallerResult ==
    ASSUME TypeInv, ResultInv, NEW c \in Callers, CallerStep(c)
    PROVE  ResultInv'
<1>a. c \in Procs
  BY DEF Procs
<1>b. local[c] \in Locals /\ Knows(local[c], result)
  BY <1>a DEF TypeInv, TypeOK, ServiceTypeOK, ResultInv
<1>c. \A label \in Labels : [local[c] EXCEPT !.pc = label].pc = label
  BY <1>b DEF Locals
<1>d. \A jobs \in SUBSET Jobs : [local[c] EXCEPT !.todo = jobs] \in Locals
  BY <1>b DEF Locals
<1>1. CASE enqueueForSubmission(c)
  <2>1. OpenJobs(JobsOf(local[c].sub)) \in SUBSET Jobs
    BY DEF OpenJobs, JobsOf
  <2> QED
    BY <1>1, <1>a, <1>d, <2>1, ContinueKnows, OnlyMoves
    DEF enqueueForSubmission, Enqueue
<1>2. CASE resetStaleRunning(c)
  <2> DEFINE l == [local[c] EXCEPT !.pc = "openList"]
  <2>1. Become(c, l) /\ Knows(l, result')
    BY <1>2, <1>c, NothingToKnow DEF resetStaleRunning, Goto, Labels
  <2>2. CompletedHasResult'
    BY <1>2 DEF resetStaleRunning, ResultInv, CompletedHasResult
  <2>3. SubmissionCompletedHasResults'
    BY <1>2 DEF resetStaleRunning, ResultInv, SubmissionCompletedHasResults, JobsOf
  <2>4. AckedHasResult' /\ result' = result
    BY <1>2, SameEntries DEF resetStaleRunning, queueVars
  <2> QED
    BY <1>a, <2>1, <2>2, <2>3, <2>4, MoveKeepsKnowledge
<1>3. CASE listOpenJobs(c)
  <2>1. OpenJobs(Jobs) \cup {j \in local[c].todo : jobStatus[j] = "running"}
          \in SUBSET Jobs
    BY <1>b DEF OpenJobs, Locals
  <2> QED
    BY <1>3, <1>a, <1>d, <2>1, ContinueKnows, OnlyMoves DEF listOpenJobs, Enqueue
<1>4. CASE retryCheckResult(c)
  <2> DEFINE l == [local[c] EXCEPT
                     !.pc = IF local[c].job \in result THEN "complete"
                                                       ELSE "retryReset"]
  <2>1. Become(c, l) /\ UNCHANGED <<queueVars, dbVars>>
    BY <1>4 DEF retryCheckResult, Goto
  <2>2. /\ l.pc \in {"complete", "retryReset"}
        /\ l.pc = "complete" => l.job \in result
    BY <1>b DEF Locals
  <2> HIDE DEF l
  <2>3. Knows(l, result')
    BY <2>1, <2>2 DEF Knows, dbVars
  <2> QED
    BY <1>a, <2>1, <2>3, OnlyMoves
<1>5. CASE retryResetJob(c)
  <2>1. {local[c].job} \in SUBSET Jobs
    BY <1>5, <1>a DEF retryResetJob, At, TypeInv, HasJob, NeedsJob
  <2>2. Become(c, Continue([local[c] EXCEPT !.todo = {local[c].job}]))
    BY <1>5 DEF retryResetJob, Enqueue
  <2>3. Knows(Continue([local[c] EXCEPT !.todo = {local[c].job}]), result')
    BY <1>d, <2>1, ContinueKnows
  <2> QED
    BY <1>5, <1>a, <2>2, <2>3, MovesAndWrites DEF retryResetJob
<1>6. CASE enqueue(c)
  <2>1. PICK j \in local[c].todo :
          Become(c, Looked([local[c] EXCEPT !.job = j, !.sub = SubOf[j],
                                            !.todo = @ \ {j}]))
    BY <1>6 DEF enqueue
  <2>2. [local[c] EXCEPT !.job = j, !.sub = SubOf[j], !.todo = @ \ {j}] \in Locals
    BY <1>b, ServiceAssumption DEF Locals
  <2>3. UNCHANGED <<queueVars, dbVars>> /\ result' = result
    BY <1>6 DEF enqueue, dbVars
  <2>4. Knows(Looked([local[c] EXCEPT !.job = j, !.sub = SubOf[j],
                                      !.todo = @ \ {j}]), result')
    BY <2>2, <2>3, LookedKnows
  <2> QED
    BY <1>a, <2>1, <2>3, <2>4, OnlyMoves
<1>7. CASE enqueueAdd(c)
  <2> DEFINE l == [local[c] EXCEPT !.pc = "mark"]
  <2>1. Become(c, l) /\ Knows(l, result')
    BY <1>7, <1>c, NothingToKnow DEF enqueueAdd, Goto, Labels
  <2>2. AckedHasResult'
    BY <1>7, SameTables, SameEntries
    DEF enqueueAdd, enqueueAnalysisJob, TypeInv, TypeOK, QueueTypeOK
  <2> QED
    BY <1>7, <1>a, <2>1, <2>2, SameTables, MoveKeepsKnowledge DEF enqueueAdd
<1>8. CASE markQueued(c)
  BY <1>8, <1>a, <1>b, ContinueKnows, MovesAndWrites DEF markQueued
<1>9. CASE removeRetriedDeadLetter(c)
  <2>1. AckedHasResult'
    BY <1>9, SameTables, SameEntries
    DEF removeRetriedDeadLetter, removeDeadLetterJob
  <2> QED
    BY <1>9, <1>a, <2>1, IdleKnows, SameTables, MoveKeepsKnowledge
    DEF removeRetriedDeadLetter
<1>10. CASE markCompleted(c) \/ syncSubmissionStatus(c)
  BY <1>10, <1>a, MarkingResult
<1> QED
  BY <1>1, <1>2, <1>3, <1>4, <1>5, <1>6, <1>7, <1>8, <1>9, <1>10 DEF CallerStep

LEMMA RequestResult ==
    ASSUME TypeInv, ResultInv, NEW c \in Requests, RequestArrives(c)
    PROVE  ResultInv'
<1>a. c \in Procs
  BY DEF Procs, Callers
<1>b. local[c] \in Locals
  BY <1>a DEF TypeInv, TypeOK, ServiceTypeOK
<1>1. ASSUME NEW s \in Submissions, createSubmissionWithJobs(c, s)
      PROVE  ResultInv'
  <2> DEFINE l == [local[c] EXCEPT !.pc = "list", !.kind = "create", !.sub = s]
  <2>1. Become(c, l)
    BY <1>1 DEF createSubmissionWithJobs
  <2>2. l.pc = "list"
    BY <1>b DEF Locals
  <2>3. CompletedHasResult'
    BY <1>1 DEF createSubmissionWithJobs, ResultInv, CompletedHasResult
  <2>4. SubmissionCompletedHasResults'
    BY <1>1 DEF createSubmissionWithJobs, ResultInv, TypeInv, TypeOK,
       ServiceTypeOK, TablesTypeOK, SubmissionCompletedHasResults, JobsOf
  <2>5. AckedHasResult' /\ result' = result
    BY <1>1, SameEntries DEF createSubmissionWithJobs, queueVars
  <2> HIDE DEF l
  <2>6. Knows(l, result')
    BY <2>2, NothingToKnow
  <2> QED
    BY <1>a, <2>1, <2>3, <2>4, <2>5, <2>6, MoveKeepsKnowledge
<1>2. ASSUME NEW timedOut \in SUBSET Jobs, recoverOpenJobs(c, timedOut)
      PROVE  ResultInv'
  <2> DEFINE stale == {j \in timedOut : jobStatus[j] = "running"}
             l == [local[c] EXCEPT !.kind = "open", !.todo = stale,
                     !.pc = IF stale = {} THEN "openList" ELSE "reset"]
  <2>1. Become(c, l) /\ UNCHANGED <<queueVars, dbVars>>
    BY <1>2 DEF recoverOpenJobs
  <2>2. l.pc \in {"openList", "reset"}
    BY <1>b DEF Locals
  <2> HIDE DEF l
  <2>3. Knows(l, result')
    BY <2>2, NothingToKnow
  <2> QED
    BY <1>a, <2>1, <2>3, OnlyMoves
<1>3. ASSUME NEW j \in Jobs, retry(c, j) \/ retryDeadLetterJob(c, j)
      PROVE  ResultInv'
  <2>1. PICK k \in {"retry", "dlq"} :
          Become(c, [local[c] EXCEPT !.pc = "retryCheck", !.kind = k,
                                     !.job = j, !.sub = SubOf[j]])
    BY <1>3 DEF retry, retryDeadLetterJob
  <2>2. UNCHANGED <<queueVars, dbVars>>
    BY <1>3 DEF retry, retryDeadLetterJob
  <2>3. [local[c] EXCEPT !.pc = "retryCheck", !.kind = k,
                         !.job = j, !.sub = SubOf[j]].pc = "retryCheck"
    BY <1>b DEF Locals
  <2>4. Knows([local[c] EXCEPT !.pc = "retryCheck", !.kind = k,
                               !.job = j, !.sub = SubOf[j]], result')
    BY <2>3, NothingToKnow
  <2> QED
    BY <1>a, <2>1, <2>2, <2>4, OnlyMoves
<1> QED
  BY <1>1, <1>2, <1>3 DEF RequestArrives

LEMMA TickResult ==
    ASSUME TypeInv, ResultInv, NEW c \in Ticks, NEW old, recoverZombieJobs(c, old)
    PROVE  ResultInv'
<1> DEFINE m == [local[c] EXCEPT !.kind = "tick",
                   !.todo = {j \in Jobs : jobStatus[j] = "pending"
                                          /\ SubOf[j] \in old}]
<1>1. c \in Procs
  BY DEF Procs, Callers
<1>2. m \in Locals
  BY <1>1 DEF TypeInv, TypeOK, ServiceTypeOK, Locals, Kinds
<1>3. Become(c, Continue(m)) /\ UNCHANGED <<queueVars, dbVars>>
  BY DEF recoverZombieJobs
<1> HIDE DEF m
<1>4. Knows(Continue(m), result')
  BY <1>2, ContinueKnows
<1> QED
  BY <1>1, <1>3, <1>4, OnlyMoves

LEMMA CallerFaultResult ==
    ASSUME TypeInv, ResultInv, NEW c \in Callers, CallerFault(c)
    PROVE  ResultInv'
<1>a. c \in Procs /\ local[c] \in Locals
  BY DEF Procs, TypeInv, TypeOK, ServiceTypeOK
<1>b. \A l \in {Idle, AfterError(local[c])} : Knows(l, result')
  BY <1>a, IdleKnows, AfterErrorKnows
<1>1. CASE enqueueAddFails(c)
  <2>1. AckedHasResult'
    BY <1>1, SameTables, SameEntries
    DEF enqueueAddFails, enqueueAnalysisJob, queueVars, TypeInv, TypeOK,
        QueueTypeOK
  <2> QED
    BY <1>1, <1>a, <1>b, <2>1, SameTables, MoveKeepsKnowledge DEF enqueueAddFails
<1>2. CASE Abort(c)
  <2>1. PICK l \in {Idle, AfterError(local[c])} : Become(c, l)
    BY <1>2 DEF Abort
  <2> QED
    BY <1>2, <1>a, <1>b, <2>1, OnlyMoves DEF Abort
<1> QED
  BY <1>1, <1>2 DEF CallerFault

LEMMA SlotResult ==
    ASSUME TypeInv, ResultInv, NEW p \in Slots, SlotStep(p)
    PROVE  ResultInv'
<1>a. p \in Procs
  BY DEF Procs
<1>b. local[p] \in Locals /\ Knows(local[p], result)
  BY <1>a DEF TypeInv, TypeOK, ServiceTypeOK, ResultInv
<1>c. \A label \in Labels : /\ [local[p] EXCEPT !.pc = label].pc = label
                            /\ [local[p] EXCEPT !.pc = label].job = local[p].job
                            /\ [local[p] EXCEPT !.pc = label].kind = local[p].kind
  BY <1>b DEF Locals
<1>1. CASE findUniqueByJobId(p)
  <2> DEFINE found == [local[p] EXCEPT !.pc = "complete", !.kind = "reuse"]
             fresh == [local[p] EXCEPT !.pc = "start"]
  <2>1. UNCHANGED <<queueVars, dbVars>> /\ result' = result
    BY <1>1 DEF findUniqueByJobId, dbVars
  <2>2. \/ Become(p, found) /\ local[p].job \in result
        \/ Become(p, fresh)
    BY <1>1 DEF findUniqueByJobId, Goto
  <2>3. /\ found.pc = "complete" /\ found.job = local[p].job
        /\ fresh.pc = "start"
    BY <1>b DEF Locals
  <2> HIDE DEF found, fresh
  <2>4. local[p].job \in result => Knows(found, result')
    BY <2>1, <2>3 DEF Knows
  <2>5. Knows(fresh, result')
    BY <2>3, NothingToKnow
  <2> QED
    BY <1>a, <2>1, <2>2, <2>4, <2>5, OnlyMoves
<1>2. CASE markRunning(p)
  <2>1. Knows([local[p] EXCEPT !.pc = "startSub"], result')
    BY <1>c, NothingToKnow DEF Labels
  <2> QED
    BY <1>2, <1>a, <2>1, MovesAndWrites DEF markRunning, Goto
<1>3. CASE markSubmissionProcessing(p)
  <2>1. Knows([local[p] EXCEPT !.pc = "work"], result')
    BY <1>c, NothingToKnow DEF Labels
  <2>2. CompletedHasResult' /\ SubmissionCompletedHasResults'
    BY <1>3, SubmissionWritten DEF markSubmissionProcessing
  <2>3. AckedHasResult' /\ result' = result
    BY <1>3, SameEntries DEF markSubmissionProcessing, queueVars
  <2> QED
    BY <1>3, <1>a, <2>1, <2>2, <2>3, MoveKeepsKnowledge
    DEF markSubmissionProcessing, Goto
<1>4. CASE dispatch(p)
  <2>1. Become(p, [local[p] EXCEPT !.pc = "complete"])
    BY <1>4 DEF dispatch, Goto
  <2>2. result \subseteq result' /\ local[p].job \in result'
    BY <1>4 DEF dispatch
  <2>3. Knows([local[p] EXCEPT !.pc = "complete"], result')
    BY <1>c, <2>2 DEF Knows, Labels
  <2>4. CompletedHasResult' /\ SubmissionCompletedHasResults' /\ AckedHasResult'
    BY <1>4, <2>2 DEF dispatch, queueVars, ResultInv, CompletedHasResult,
       SubmissionCompletedHasResults, AckedHasResult, JobsOf
  <2> QED
    BY <1>a, <2>1, <2>2, <2>3, <2>4, MoveKeepsKnowledge
<1>5. CASE dispatchThrows(p)
  <2>1. Knows(Caught(local[p]), result')
    BY <1>b, CaughtShape DEF Knows
  <2> QED
    BY <1>5, <1>a, <2>1, OnlyMoves DEF dispatchThrows
<1>6. CASE markFailed(p)
  <2>1. local[p].kind = "fail"
    BY <1>6, <1>b DEF markFailed, At, Knows
  <2>2. Knows([local[p] EXCEPT !.pc = "syncRead"], result')
    BY <1>c, <2>1 DEF Knows, Labels
  <2> QED
    BY <1>6, <1>a, <2>2, MovesAndWrites DEF markFailed, Goto
<1>7. CASE markCompleted(p) \/ syncSubmissionStatus(p)
  BY <1>7, <1>a, MarkingResult
<1>8. CASE deadLetterJob(p)
  <2>1. Knows([local[p] EXCEPT !.pc = "nack"], result')
    BY <1>c, NothingToKnow DEF Labels
  <2>2. AckedHasResult'
    BY <1>8, SameTables, SameEntries DEF deadLetterJob, moveToDeadLetter
  <2> QED
    BY <1>8, <1>a, <2>1, <2>2, SameTables, MoveKeepsKnowledge
    DEF deadLetterJob, Goto
<1>9. CASE acknowledge(p)
  <2>1. local[p].job \in result
    BY <1>9, <1>b DEF acknowledge, At, Knows
  <2>2. result' = result
    BY <1>9 DEF acknowledge, dbVars
  <2>3. AckedHasResult'
    BY <1>9, <2>1, <2>2 DEF acknowledge, moveToCompleted, queueVars, ResultInv,
       AckedHasResult, TypeInv, TypeOK, QueueTypeOK
  <2> QED
    BY <1>9, <1>a, <2>3, IdleKnows, SameTables, MoveKeepsKnowledge DEF acknowledge
<1>10. CASE reject(p)
  <2>1. AckedHasResult'
    BY <1>10, SameTables, SameEntries
    DEF reject, moveToFailed, queueVars, TypeInv, TypeOK, QueueTypeOK
  <2> QED
    BY <1>10, <1>a, <2>1, IdleKnows, SameTables, MoveKeepsKnowledge DEF reject
<1> QED
  BY <1>1, <1>2, <1>3, <1>4, <1>5, <1>6, <1>7, <1>8, <1>9, <1>10 DEF SlotStep

LEMMA SlotFaultResult ==
    ASSUME TypeInv, ResultInv, NEW p \in Slots, SlotFault(p)
    PROVE  ResultInv'
<1>a. p \in Procs /\ local[p] \in Locals
  BY DEF Procs, TypeInv, TypeOK, ServiceTypeOK
<1>b. ASSUME dropLock(p), UNCHANGED dbVars PROVE AckedHasResult'
  BY <1>b, SameTables, SameEntries DEF dropLock
<1>1. CASE Throws(p)
  <2>1. Knows(Thrown(local[p]), result')
    BY <1>a, ThrownShape DEF Knows
  <2>2. CompletedHasResult' /\ SubmissionCompletedHasResults'
    <3>1. CASE UNCHANGED submissionStatus
      BY <1>1, <3>1, SameTables DEF Throws, dbVars
    <3>2. CASE submissionStatus' =
                 [submissionStatus EXCEPT ![local[p].sub] = "processing"]
      BY <1>1, <3>2, SubmissionWritten DEF Throws
    <3> QED
      BY <1>1, <3>1, <3>2 DEF Throws
  <2>3. AckedHasResult' /\ result' = result
    BY <1>1, SameEntries DEF Throws, queueVars
  <2> QED
    BY <1>1, <1>a, <2>1, <2>2, <2>3, MoveKeepsKnowledge DEF Throws
<1>2. CASE Crash(p)
  BY <1>2, <1>a, <1>b, IdleKnows, SameTables, MoveKeepsKnowledge DEF Crash
<1>3. CASE LockExpires(p)
  BY <1>3, <1>b, SameTables DEF LockExpires, ResultInv, Knows
<1> QED
  BY <1>1, <1>2, <1>3 DEF SlotFault

LEMMA TakeResult ==
    ASSUME TypeInv, ResultInv, NEW p \in Slots, NEW j \in Jobs, take(p, j)
    PROVE  ResultInv'
<1> DEFINE l == [local[p] EXCEPT !.pc = "lookup", !.kind = "run", !.job = j,
                                 !.sub = SubOf[j], !.att = made[j]]
<1>1. p \in Procs /\ l.pc = "lookup"
  BY DEF Procs, TypeInv, TypeOK, ServiceTypeOK, Locals
<1>2. Become(p, l)
  BY DEF take
<1> HIDE DEF l
<1>3. Knows(l, result')
  BY <1>1, NothingToKnow
<1>4. AckedHasResult'
  BY SameTables, SameEntries DEF take, takeEntry, TypeInv, TypeOK, QueueTypeOK
<1> QED
  BY <1>1, <1>2, <1>3, <1>4, SameTables, MoveKeepsKnowledge DEF take

LEMMA QueueStepResult ==
    ASSUME TypeInv, ResultInv, NEW j \in Jobs, QueueStep(j)
    PROVE  ResultInv'
<1>1. AckedHasResult'
  BY SameTables, SameEntries
  DEF QueueStep, Promote, Stalled, Evict, TypeInv, TypeOK, QueueTypeOK
<1>2. local' = local /\ result' = result
  BY DEF QueueStep, dbVars
<1> QED
  BY <1>1, <1>2, SameTables DEF QueueStep, ResultInv, Knows

LEMMA ResultStep == TypeInv /\ ResultInv /\ [Next]_vars => ResultInv'
<1> SUFFICES ASSUME TypeInv, ResultInv, [Next]_vars PROVE ResultInv'
  OBVIOUS
<1>1. CASE UNCHANGED vars
  BY <1>1, SameTables, SameEntries DEF vars, queueVars, ResultInv, Knows
<1>2. CASE Next
  BY <1>2, RequestResult, TickResult, CallerResult, CallerFaultResult, TakeResult,
     SlotResult, SlotFaultResult, QueueStepResult DEF Next
<1> QED
  BY <1>1, <1>2

LEMMA ResultCorrect == Spec => [](TypeInv /\ ResultInv)
<1>1. Init => TypeInv /\ ResultInv
  BY TypeInit, ResultInit
<1>2. TypeInv /\ ResultInv /\ [Next]_vars => TypeInv' /\ ResultInv'
  BY TypeStep, ResultStep
<1> QED
  BY <1>1, <1>2, PTL DEF Spec

\* A job is shown as completed only over a stored result, for any number of
\* processes, retries, recoveries, crashes and lost locks.
THEOREM CompletedSafe == Spec => []CompletedHasResult
<1>1. ResultInv => CompletedHasResult
  BY DEF ResultInv
<1> QED
  BY <1>1, ResultCorrect, PTL

\* A submission is shown as completed only over the results of all its jobs.
THEOREM SubmissionCompletedSafe == Spec => []SubmissionCompletedHasResults
<1>1. ResultInv => SubmissionCompletedHasResults
  BY DEF ResultInv
<1> QED
  BY <1>1, ResultCorrect, PTL

\* BullMQ is told of success only over a stored result.
THEOREM AckedSafe == Spec => []AckedHasResult
<1>1. ResultInv => AckedHasResult
  BY DEF ResultInv
<1> QED
  BY <1>1, ResultCorrect, PTL

-----------------------------------------------------------------------------
(* One slot per job while locks are renewed *)

(***************************************************************************)
(* Mutual exclusion of the slots needs to say how the queue and the slots  *)
(* go together: a busy slot holds the lock of the active entry of its job. *)
(* Then a second slot cannot take the entry, a second add is a no-op and   *)
(* an eviction cannot touch it.  That an analysis is not run again follows *)
(* from it: only the slot itself could store the result it looked for.     *)
(***************************************************************************)
Holds(p) == /\ local[p].job \in Jobs
            /\ entry[local[p].job] = "active"
            /\ holder[local[p].job] = p

Running(p) == local[p].pc \in {"start", "startSub", "work"}

SlotOK(p) == /\ ~At(p, "idle") => Holds(p)
             /\ Running(p) => local[p].job \notin result

LockInv == \A p \in Slots : SlotOK(p)

LEMMA LockInit == Init => LockInv
  BY DEF Init, ServiceInit, LockInv, SlotOK, At, Running, Idle, Procs

\* A slot is undisturbed by a step that leaves its record, the entry it holds
\* and the absence of its result alone.
LEMMA Undisturbed ==
    ASSUME NEW q \in Slots, SlotOK(q), local'[q] = local[q],
           Holds(q) => /\ entry'[local[q].job] = entry[local[q].job]
                       /\ holder'[local[q].job] = holder[local[q].job],
           Running(q) /\ local[q].job \notin result
             => local[q].job \notin result'
    PROVE  SlotOK(q)'
  BY DEF SlotOK, Holds, Running, At

\* Steps of callers, and of the scheduler, disturb no slot.
LEMMA CallerLock ==
    ASSUME TypeInv, LockInv, NEW c \in Callers, NEW l, Become(c, l),
           UNCHANGED queueVars \/ (\E j : enqueueAnalysisJob(j))
             \/ (\E j : removeDeadLetterJob(j)),
           result' = result
    PROVE  LockInv'
<1> SUFFICES ASSUME NEW q \in Slots PROVE SlotOK(q)'
  BY DEF LockInv
<1>1. local'[q] = local[q] /\ SlotOK(q)
  BY ServiceAssumption DEF Become, LockInv, TypeInv, TypeOK, ServiceTypeOK, Procs
<1>2. Holds(q) => /\ entry'[local[q].job] = entry[local[q].job]
                  /\ holder'[local[q].job] = holder[local[q].job]
  <2>1. CASE UNCHANGED queueVars
    BY <2>1 DEF queueVars
  <2>2. ASSUME NEW j, enqueueAnalysisJob(j), Holds(q)
        PROVE  /\ entry'[local[q].job] = entry[local[q].job]
               /\ holder'[local[q].job] = holder[local[q].job]
    BY <2>2 DEF enqueueAnalysisJob, addIsNoOp, Holds, TypeInv, TypeOK, QueueTypeOK
  <2>3. ASSUME NEW j, removeDeadLetterJob(j)
        PROVE  /\ entry'[local[q].job] = entry[local[q].job]
               /\ holder'[local[q].job] = holder[local[q].job]
    BY <2>3 DEF removeDeadLetterJob
  <2> QED
    BY <2>1, <2>2, <2>3
<1> QED
  BY <1>1, <1>2, Undisturbed

\* What every step of a caller moves: its own record, and at most one entry that
\* is added or one dead letter that is removed.
LEMMA CallersMove ==
    ASSUME NEW c \in Callers,
           CallerStep(c) \/ CallerFault(c) \/ RequestArrives(c)
           \/ \E old : recoverZombieJobs(c, old)
    PROVE  \E l : Become(c, l)
<1>1. CASE CallerStep(c)
  BY <1>1 DEF CallerStep, enqueueForSubmission, Enqueue, resetStaleRunning, Goto,
     listOpenJobs, retryCheckResult, retryResetJob, enqueue, enqueueAdd,
     markQueued, removeRetriedDeadLetter, markCompleted, syncSubmissionStatus,
     syncRead, syncWrite
<1>2. CASE CallerFault(c)
  BY <1>2 DEF CallerFault, enqueueAddFails, Abort
<1>3. CASE RequestArrives(c)
  BY <1>3 DEF RequestArrives, createSubmissionWithJobs, recoverOpenJobs, retry,
     retryDeadLetterJob
<1>4. CASE \E old : recoverZombieJobs(c, old)
  BY <1>4 DEF recoverZombieJobs
<1> QED
  BY <1>1, <1>2, <1>3, <1>4

LEMMA CallersQueue ==
    ASSUME NEW c \in Callers,
           CallerStep(c) \/ CallerFault(c) \/ RequestArrives(c)
           \/ \E old : recoverZombieJobs(c, old)
    PROVE  \/ UNCHANGED queueVars \/ (\E j : enqueueAnalysisJob(j))
           \/ (\E j : removeDeadLetterJob(j))
  BY DEF CallerStep, enqueueForSubmission, resetStaleRunning, listOpenJobs,
     retryCheckResult, retryResetJob, enqueue, enqueueAdd, markQueued,
     removeRetriedDeadLetter, markCompleted, syncSubmissionStatus, syncRead,
     syncWrite, CallerFault, enqueueAddFails, Abort, RequestArrives,
     createSubmissionWithJobs, recoverOpenJobs, retry, retryDeadLetterJob,
     recoverZombieJobs

LEMMA CallersLock ==
    ASSUME TypeInv, LockInv, NEW c \in Callers,
           CallerStep(c) \/ CallerFault(c) \/ RequestArrives(c)
           \/ \E old : recoverZombieJobs(c, old)
    PROVE  LockInv'
<1>1. \E l : Become(c, l)
  BY CallersMove
<1>2. \/ UNCHANGED queueVars \/ (\E j : enqueueAnalysisJob(j))
      \/ (\E j : removeDeadLetterJob(j))
  BY CallersQueue
<1>3. result' = result
  BY DEF CallerStep, enqueueForSubmission, resetStaleRunning, listOpenJobs,
     retryCheckResult, retryResetJob, enqueue, enqueueAdd, markQueued,
     removeRetriedDeadLetter, markCompleted, syncSubmissionStatus, syncRead,
     syncWrite, CallerFault, enqueueAddFails, Abort, RequestArrives,
     createSubmissionWithJobs, recoverOpenJobs, retry, retryDeadLetterJob,
     recoverZombieJobs, dbVars
<1> QED
  BY <1>1, <1>2, <1>3, CallerLock

\* Two busy slots have different jobs: each holds the lock of its own.
LEMMA LocksDiffer ==
    ASSUME LockInv, NEW p \in Slots, NEW q \in Slots, p # q,
           ~At(p, "idle"), ~At(q, "idle")
    PROVE  local[p].job # local[q].job
  BY DEF LockInv, SlotOK, Holds

\* A busy slot that moves with its job and its lock to a label where nothing is
\* claimed about the result, the other slots untouched.
LEMMA SlotMoves ==
    ASSUME TypeInv, LockInv, NEW p \in Slots, NEW l, Become(p, l),
           l.pc # "idle" => l.job = local[p].job /\ ~At(p, "idle"),
           l.pc \in {"start", "startSub", "work"} => l.job \notin result',
           UNCHANGED <<entry, holder>>,
           \A q \in Slots : q # p /\ Running(q) => local[q].job \notin result'
    PROVE  LockInv'
<1> SUFFICES ASSUME NEW q \in Slots PROVE SlotOK(q)'
  BY DEF LockInv
<1>1. CASE q # p
  <2>1. local'[q] = local[q] /\ SlotOK(q)
    BY <1>1 DEF Become, LockInv, TypeInv, TypeOK, ServiceTypeOK, Procs
  <2> QED
    BY <1>1, <2>1, Undisturbed
<1>2. CASE q = p
  <2>1. local'[p] = l /\ SlotOK(p)
    BY DEF Become, LockInv, TypeInv, TypeOK, ServiceTypeOK, Procs
  <2> QED
    BY <1>2, <2>1 DEF SlotOK, Holds, Running, At
<1> QED
  BY <1>1, <1>2

\* The same when nothing is added to the results.
LEMMA SlotMovesQuietly ==
    ASSUME TypeInv, LockInv, NEW p \in Slots, NEW l, Become(p, l),
           l.pc # "idle" => l.job = local[p].job /\ ~At(p, "idle"),
           l.pc \in {"start", "startSub", "work"} => l.job \notin result,
           UNCHANGED <<entry, holder>>, result' = result
    PROVE  LockInv'
<1>1. \A q \in Slots : Running(q) => local[q].job \notin result'
  BY DEF LockInv, SlotOK
<1> QED
  BY <1>1, SlotMoves

\* A slot that gives its entry back becomes idle, and no other slot holds it.
LEMMA SlotReturns ==
    ASSUME TypeInv, LockInv, NEW p \in Slots, ~At(p, "idle"), Become(p, Idle),
           \A j \in Jobs : holder[j] # p =>
               entry'[j] = entry[j] /\ holder'[j] = holder[j],
           result' = result
    PROVE  LockInv'
<1> SUFFICES ASSUME NEW q \in Slots PROVE SlotOK(q)'
  BY DEF LockInv
<1>1. CASE q # p
  <2>1. local'[q] = local[q] /\ SlotOK(q)
    BY <1>1 DEF Become, LockInv, TypeInv, TypeOK, ServiceTypeOK, Procs
  <2>2. Holds(q) => /\ entry'[local[q].job] = entry[local[q].job]
                    /\ holder'[local[q].job] = holder[local[q].job]
    BY <1>1 DEF Holds
  <2> QED
    BY <2>1, <2>2, Undisturbed
<1>2. CASE q = p
  <2>1. local'[p] = Idle
    BY DEF Become, TypeInv, TypeOK, ServiceTypeOK, Procs
  <2> QED
    BY <1>2, <2>1 DEF SlotOK, Running, At, Idle
<1> QED
  BY <1>1, <1>2

LEMMA SlotLock ==
    ASSUME TypeInv, LockInv, NEW p \in Slots, SlotStep(p)
    PROVE  LockInv'
<1>a. local[p] \in Locals /\ SlotOK(p)
  BY DEF Procs, TypeInv, TypeOK, ServiceTypeOK, LockInv
<1>b. \A label \in Labels : /\ [local[p] EXCEPT !.pc = label].pc = label
                            /\ [local[p] EXCEPT !.pc = label].job = local[p].job
  BY <1>a DEF Locals
<1>1. CASE findUniqueByJobId(p)
  <2>1. PICK l : /\ Become(p, l)
                 /\ \/ l = [local[p] EXCEPT !.pc = "complete", !.kind = "reuse"]
                    \/ /\ l = [local[p] EXCEPT !.pc = "start"]
                       /\ local[p].job \notin result
    BY <1>1 DEF findUniqueByJobId, Goto
  <2>2. /\ l.job = local[p].job
        /\ l.pc \in {"start", "startSub", "work"} => l.job \notin result
    BY <1>a, <2>1 DEF Locals
  <2>3. UNCHANGED <<entry, holder>> /\ result' = result
    BY <1>1 DEF findUniqueByJobId, queueVars, dbVars
  <2> QED
    BY <1>1, <2>1, <2>2, <2>3, SlotMovesQuietly DEF findUniqueByJobId, At
<1>2. CASE markRunning(p)
  BY <1>2, <1>a, <1>b, SlotMovesQuietly
  DEF markRunning, Goto, At, Labels, queueVars, SlotOK, Running
<1>3. CASE markSubmissionProcessing(p)
  BY <1>3, <1>a, <1>b, SlotMovesQuietly
  DEF markSubmissionProcessing, Goto, At, Labels, queueVars, SlotOK, Running
<1>4. CASE dispatch(p)
  <2>1. \A q \in Slots : q # p /\ Running(q) => local[q].job \notin result'
    BY <1>4, LocksDiffer DEF dispatch, At, LockInv, SlotOK, Running
  <2> QED
    BY <1>4, <1>b, <2>1, SlotMoves DEF dispatch, Goto, At, Labels, queueVars
<1>5. CASE dispatchThrows(p)
  BY <1>5, <1>a, CaughtShape, SlotMovesQuietly
  DEF dispatchThrows, At, queueVars, dbVars
<1>6. CASE markCompleted(p) \/ markFailed(p)
  BY <1>6, <1>b, SlotMovesQuietly
  DEF markCompleted, markFailed, Goto, At, Labels, queueVars
<1>7. CASE syncSubmissionStatus(p)
  <2>1. CASE syncRead(p)
    <3>1. /\ [local[p] EXCEPT !.pc = "syncWrite",
                              !.next = NextStatus(local[p].sub)].pc = "syncWrite"
          /\ [local[p] EXCEPT !.pc = "syncWrite",
                              !.next = NextStatus(local[p].sub)].job = local[p].job
      BY <1>a DEF Locals
    <3> QED
      BY <2>1, <3>1, SlotMovesQuietly DEF syncRead, At, queueVars, dbVars
  <2>2. CASE syncWrite(p)
    BY <2>2, <1>a, AfterSyncShape, SlotMovesQuietly DEF syncWrite, At, queueVars
  <2> QED
    BY <1>7, <2>1, <2>2 DEF syncSubmissionStatus
<1>8. CASE deadLetterJob(p)
  BY <1>8, <1>b, SlotMovesQuietly
  DEF deadLetterJob, moveToDeadLetter, Goto, At, Labels, dbVars
<1>9. CASE acknowledge(p)
  <2>1. \A j \in Jobs : holder[j] # p => entry'[j] = entry[j] /\ holder'[j] = holder[j]
    BY <1>9 DEF acknowledge, moveToCompleted, queueVars, TypeInv, TypeOK, QueueTypeOK
  <2> QED
    BY <1>9, <2>1, SlotReturns DEF acknowledge, At, dbVars
<1>10. CASE reject(p)
  <2>1. \A j \in Jobs : holder[j] # p => entry'[j] = entry[j] /\ holder'[j] = holder[j]
    BY <1>10 DEF reject, moveToFailed, queueVars, TypeInv, TypeOK, QueueTypeOK
  <2> QED
    BY <1>10, <2>1, SlotReturns DEF reject, At, dbVars
<1> QED
  BY <1>1, <1>2, <1>3, <1>4, <1>5, <1>6, <1>7, <1>8, <1>9, <1>10 DEF SlotStep

LEMMA SlotFaultLock ==
    ASSUME "stall" \notin FaultKinds, TypeInv, LockInv, NEW p \in Slots, SlotFault(p)
    PROVE  LockInv'
<1>a. local[p] \in Locals
  BY DEF Procs, TypeInv, TypeOK, ServiceTypeOK
<1>1. CASE Throws(p)
  <2>1. ~At(p, "idle")
    BY <1>1 DEF Throws, OuterRegion, TryRegion, CatchRegion, InMarking, At
  <2> QED
    BY <1>1, <1>a, <2>1, ThrownShape, SlotMovesQuietly DEF Throws, queueVars
<1>2. CASE Crash(p)
  <2>1. \A j \in Jobs : holder[j] # p => entry'[j] = entry[j] /\ holder'[j] = holder[j]
    BY <1>2 DEF Crash, dropLock
  <2> QED
    BY <1>2, <2>1, SlotReturns DEF Crash, dbVars
<1> QED
  BY <1>1, <1>2 DEF SlotFault, LockExpires, Fault

LEMMA TakeLock ==
    ASSUME TypeInv, LockInv, NEW p \in Slots, NEW j \in Jobs, take(p, j)
    PROVE  LockInv'
<1> DEFINE l == [local[p] EXCEPT !.pc = "lookup", !.kind = "run", !.job = j,
                                 !.sub = SubOf[j], !.att = made[j]]
<1> SUFFICES ASSUME NEW q \in Slots PROVE SlotOK(q)'
  BY DEF LockInv
<1>1. CASE q # p
  <2>1. local'[q] = local[q] /\ SlotOK(q) /\ result' = result
    BY <1>1 DEF take, Become, LockInv, TypeInv, TypeOK, ServiceTypeOK, Procs, dbVars
  <2>2. Holds(q) => /\ entry'[local[q].job] = entry[local[q].job]
                    /\ holder'[local[q].job] = holder[local[q].job]
    BY DEF take, takeEntry, Holds, TypeInv, TypeOK, QueueTypeOK
  <2> QED
    BY <2>1, <2>2, Undisturbed
<1>2. CASE q = p
  <2>1. local'[p] = l
    BY DEF take, Become, TypeInv, TypeOK, ServiceTypeOK, Procs
  <2>2. l.pc = "lookup" /\ l.job = j
    BY DEF TypeInv, TypeOK, ServiceTypeOK, Procs, Locals
  <2>3. entry'[j] = "active" /\ holder'[j] = p
    BY DEF take, takeEntry, TypeInv, TypeOK, QueueTypeOK
  <2> HIDE DEF l
  <2> QED
    BY <1>2, <2>1, <2>2, <2>3 DEF SlotOK, Holds, Running, At
<1> QED
  BY <1>1, <1>2

LEMMA QueueStepLock ==
    ASSUME TypeInv, LockInv, NEW j \in Jobs, QueueStep(j)
    PROVE  LockInv'
<1> SUFFICES ASSUME NEW q \in Slots PROVE SlotOK(q)'
  BY DEF LockInv
<1>1. local'[q] = local[q] /\ SlotOK(q) /\ result' = result
  BY DEF QueueStep, LockInv, dbVars
<1>2. Holds(q) => /\ entry'[local[q].job] = entry[local[q].job]
                  /\ holder'[local[q].job] = holder[local[q].job]
  BY QueueAssumption
  DEF QueueStep, Promote, Stalled, Evict, Holds, TypeInv, TypeOK, QueueTypeOK
<1> QED
  BY <1>1, <1>2, Undisturbed

LEMMA LockStep ==
    ASSUME "stall" \notin FaultKinds
    PROVE  TypeInv /\ LockInv /\ [Next]_vars => LockInv'
<1> SUFFICES ASSUME TypeInv, LockInv, [Next]_vars PROVE LockInv'
  OBVIOUS
<1>1. CASE UNCHANGED vars
  BY <1>1 DEF vars, queueVars, dbVars, LockInv, SlotOK, Holds, Running, At
<1>2. CASE Next
  <2>1. Requests \subseteq Callers /\ Ticks \subseteq Callers
    BY DEF Callers
  <2> QED
    BY <1>2, <2>1, CallersLock, TakeLock, SlotLock, SlotFaultLock, QueueStepLock
    DEF Next
<1> QED
  BY <1>1, <1>2

\* While live slots renew their locks, every busy slot holds the lock of the
\* active entry of its job, and a running one has not got its result yet.
LEMMA LockCorrect ==
    ASSUME "stall" \notin FaultKinds
    PROVE  Spec => []LockInv
<1>1. Init => TypeInv /\ LockInv
  BY TypeInit, LockInit
<1>2. TypeInv /\ LockInv /\ [Next]_vars => TypeInv' /\ LockInv'
  BY TypeStep, LockStep
<1> QED
  BY <1>1, <1>2, PTL DEF Spec

\* Two slots never work on the same job while every live slot keeps its lock:
\* any number of adds, retries, recoveries, evictions and crashes is harmless.
THEOREM SingleRun == Spec => []NoDoubleRun
<1>1. CASE "stall" \in FaultKinds
  <2>1. NoDoubleRun
    BY <1>1 DEF NoDoubleRun
  <2> QED
    BY <2>1, PTL
<1>2. CASE "stall" \notin FaultKinds
  <2>1. LockInv => NoDoubleRun
    BY LocksDiffer DEF NoDoubleRun
  <2> QED
    BY <1>2, <2>1, LockCorrect, PTL
<1> QED
  BY <1>1, <1>2

\* Under the same condition no analysis is started over whose result is stored.
THEOREM NeverReworked == Spec => []NoRework
<1>1. CASE "stall" \in FaultKinds
  <2>1. NoRework
    BY <1>1 DEF NoRework
  <2> QED
    BY <2>1, PTL
<1>2. CASE "stall" \notin FaultKinds
  <2>1. LockInv => NoRework
    BY DEF NoRework, LockInv, SlotOK, Running
  <2> QED
    BY <1>2, <2>1, LockCorrect, PTL
<1> QED
  BY <1>1, <1>2

-----------------------------------------------------------------------------
(* The pipeline implements its contract *)

(***************************************************************************)
(* What is missing for the simulation is that nothing is ever done for a   *)
(* submission the API has not committed: rows, queue entries, dead letters *)
(* and what every process carries are about accepted submissions.  Each    *)
(* action is then described by what it may do to the tables, in one of six *)
(* ways, each of which is a step of the contract.                          *)
(***************************************************************************)
Accepted == {s \in Submissions : submissionStatus[s] # "none"}

About(l, S) ==
    /\ l.job \in Jobs => SubOf[l.job] \in S
    /\ \A j \in l.todo : SubOf[j] \in S
    /\ l.sub \in Submissions => l.sub \in S
    /\ l.pc = "syncWrite" => l.next # "none"

Rowed(j) == jobStatus[j] # "none" \/ entry[j] # "none" \/ j \in deadLetter

AcceptedInv ==
    /\ \A j \in Jobs : Rowed(j) => SubOf[j] \in Accepted
    /\ \A p \in Procs : About(local[p], Accepted)

\* The transaction of create, and the updates of job rows, of submission rows and
\* of results.
Creates(s) ==
    /\ submissionStatus[s] = "none"
    /\ submissionStatus' = [submissionStatus EXCEPT ![s] = "accepted"]
    /\ jobStatus' = [j \in Jobs |-> IF SubOf[j] = s THEN "pending" ELSE jobStatus[j]]
    /\ result' = result

WritesJob(j, v) ==
    /\ j \in Jobs => SubOf[j] \in Accepted
    /\ v = "completed" => j \in result
    /\ jobStatus' = [jobStatus EXCEPT ![j] = v]
    /\ UNCHANGED <<submissionStatus, result>>

ResetsJobs(J) ==
    /\ \A j \in J : SubOf[j] \in Accepted
    /\ jobStatus' = [j \in Jobs |-> IF j \in J THEN "pending" ELSE jobStatus[j]]
    /\ UNCHANGED <<submissionStatus, result>>

WritesSubmission(s, v) ==
    /\ s \in Submissions => s \in Accepted
    /\ v # "none"
    /\ v = "completed" => JobsOf(s) \subseteq result
    /\ submissionStatus' = [submissionStatus EXCEPT ![s] = v]
    /\ UNCHANGED <<jobStatus, result>>

Stores(j) ==
    /\ SubOf[j] \in Accepted
    /\ result' = result \cup {j}
    /\ UNCHANGED <<jobStatus, submissionStatus>>

Tables ==
    \/ UNCHANGED dbVars
    \/ \E s \in Submissions : Creates(s)
    \/ \E j, v : WritesJob(j, v)
    \/ \E J \in SUBSET Jobs : ResetsJobs(J)
    \/ \E s, v : WritesSubmission(s, v)
    \/ \E j \in Jobs : Stores(j)

Entries ==
    \A j \in Jobs : entry'[j] # "none" \/ j \in deadLetter' =>
        entry[j] # "none" \/ j \in deadLetter \/ SubOf[j] \in Accepted

Effects ==
    /\ Tables /\ Entries
    /\ \/ local' = local
       \/ \E p \in Procs, l \in Locals : Become(p, l) /\ About(l, Accepted')

LEMMA AcceptedInit == Init => AcceptedInv /\ Contract!Init
<1>1. Init => AcceptedInv
  BY ServiceAssumption
  DEF Init, QueueInit, ServiceInit, AcceptedInv, Rowed, About, Idle, Accepted
<1>2. Init => Contract!Init
  BY DEF Init, ServiceInit, Contract!Init
<1> QED
  BY <1>1, <1>2

\* Accepted submissions stay accepted, and rows only appear for them.
LEMMA TablesAccepted ==
    ASSUME TypeInv, AcceptedInv, Tables
    PROVE  /\ Accepted \subseteq Accepted'
           /\ \A j \in Jobs : jobStatus'[j] # "none" => SubOf[j] \in Accepted'
<1>a. TablesTypeOK /\ \A j \in Jobs : SubOf[j] \in Submissions
  BY ServiceAssumption DEF TypeInv, TypeOK, ServiceTypeOK
<1>b. \A j \in Jobs : jobStatus[j] # "none" => SubOf[j] \in Accepted
  BY DEF AcceptedInv, Rowed
<1> USE DEF Accepted
<1>1. CASE UNCHANGED dbVars
  BY <1>1, <1>b DEF dbVars
<1>2. ASSUME NEW s \in Submissions, Creates(s)
      PROVE  /\ Accepted \subseteq Accepted'
             /\ \A j \in Jobs : jobStatus'[j] # "none" => SubOf[j] \in Accepted'
  BY <1>2, <1>a, <1>b DEF Creates, TablesTypeOK
<1>3. ASSUME NEW j, NEW v, WritesJob(j, v)
      PROVE  /\ Accepted \subseteq Accepted'
             /\ \A i \in Jobs : jobStatus'[i] # "none" => SubOf[i] \in Accepted'
  BY <1>3, <1>a, <1>b DEF WritesJob, TablesTypeOK
<1>4. ASSUME NEW J \in SUBSET Jobs, ResetsJobs(J)
      PROVE  /\ Accepted \subseteq Accepted'
             /\ \A j \in Jobs : jobStatus'[j] # "none" => SubOf[j] \in Accepted'
  BY <1>4, <1>a, <1>b DEF ResetsJobs, TablesTypeOK
<1>5. ASSUME NEW s, NEW v, WritesSubmission(s, v)
      PROVE  /\ Accepted \subseteq Accepted'
             /\ \A j \in Jobs : jobStatus'[j] # "none" => SubOf[j] \in Accepted'
  BY <1>5, <1>a, <1>b DEF WritesSubmission, TablesTypeOK
<1>6. ASSUME NEW j \in Jobs, Stores(j)
      PROVE  /\ Accepted \subseteq Accepted'
             /\ \A i \in Jobs : jobStatus'[i] # "none" => SubOf[i] \in Accepted'
  BY <1>6, <1>b DEF Stores
<1> QED
  BY <1>1, <1>2, <1>3, <1>4, <1>5, <1>6 DEF Tables

LEMMA EffectsAccepted ==
    ASSUME TypeInv, AcceptedInv, Effects
    PROVE  AcceptedInv'
<1>1. /\ Accepted \subseteq Accepted'
      /\ \A j \in Jobs : jobStatus'[j] # "none" => SubOf[j] \in Accepted'
  BY TablesAccepted DEF Effects
<1>2. \A j \in Jobs : Rowed(j)' => SubOf[j] \in Accepted'
  BY <1>1 DEF Effects, Entries, AcceptedInv, Rowed
<1>3. ASSUME NEW q \in Procs PROVE About(local'[q], Accepted')
  <2>1. About(local[q], Accepted')
    BY <1>1 DEF AcceptedInv, About
  <2>2. ASSUME NEW p \in Procs, NEW l \in Locals, Become(p, l), About(l, Accepted')
        PROVE  About(local'[q], Accepted')
    <3>1. local'[q] = IF q = p THEN l ELSE local[q]
      BY <2>2 DEF Become, TypeInv, TypeOK, ServiceTypeOK
    <3> QED
      BY <2>1, <2>2, <3>1
  <2> QED
    BY <2>1, <2>2 DEF Effects
<1> QED
  BY <1>2, <1>3 DEF AcceptedInv, About

\* Each way of changing the tables is a step of the contract.
LEMMA TablesContract ==
    ASSUME TypeInv, ResultInv, AcceptedInv, Tables
    PROVE  [Contract!Next]_(Contract!contractVars)
<1> DEFINE accepted == {s \in Submissions : submissionStatus[s] # "none"}
           reported == {j \in Jobs : jobStatus[j] = "completed"}
           closed == {s \in Submissions : submissionStatus[s] = "completed"}
<1>a. TablesTypeOK /\ \A j \in Jobs : SubOf[j] \in Submissions
  BY ServiceAssumption DEF TypeInv, TypeOK, ServiceTypeOK
<1>b. accepted = Accepted
  BY DEF Accepted
<1>1. CASE UNCHANGED dbVars
  BY <1>1 DEF dbVars, Contract!contractVars
<1>2. ASSUME NEW s \in Submissions, Creates(s) PROVE Contract!Accept(s)
  <2>1. \A j \in Jobs : SubOf[j] = s => jobStatus[j] = "none"
    BY <1>2 DEF Creates, AcceptedInv, Rowed, Accepted
  <2>2. reported' = reported
    BY <1>2, <1>a, <2>1 DEF Creates, TablesTypeOK
  <2>3. accepted' = accepted \cup {s} /\ s \notin accepted
    BY <1>2, <1>a DEF Creates, TablesTypeOK
  <2>4. closed' = closed
    BY <1>2, <1>a DEF Creates, TablesTypeOK
  <2> QED
    BY <1>2, <2>2, <2>3, <2>4 DEF Contract!Accept, Creates
<1>3. ASSUME NEW j, NEW v, WritesJob(j, v) PROVE [Contract!Next]_(Contract!contractVars)
  <2>1. accepted' = accepted /\ closed' = closed /\ result' = result
    BY <1>3 DEF WritesJob
  <2>2. CASE j \notin Jobs
    <3>1. reported' = reported
      BY <1>3, <1>a, <2>2 DEF WritesJob, TablesTypeOK
    <3> QED
      BY <2>1, <3>1 DEF Contract!contractVars
  <2>3. CASE j \in Jobs /\ v = "completed"
    <3>1. reported' = reported \cup {j} /\ j \in result
      BY <1>3, <1>a, <2>3 DEF WritesJob, TablesTypeOK
    <3>2. Contract!Report(j)
      BY <2>1, <3>1 DEF Contract!Report
    <3> QED
      BY <2>3, <3>2 DEF Contract!Next
  <2>4. CASE j \in Jobs /\ v # "completed"
    <3> DEFINE J == {j} \cap reported
    <3>1. reported' = reported \ J
      BY <1>3, <1>a, <2>4 DEF WritesJob, TablesTypeOK
    <3>2. \E withdrawn \in SUBSET reported : Contract!Withdraw(withdrawn)
      <4>1. J \in SUBSET reported
        OBVIOUS
      <4> HIDE DEF J
      <4> QED
        BY <2>1, <3>1, <4>1, Zenon DEF Contract!Withdraw
    <3> QED
      BY <3>2 DEF Contract!Next
  <2> QED
    BY <2>2, <2>3, <2>4
<1>4. ASSUME NEW jobs \in SUBSET Jobs, ResetsJobs(jobs)
      PROVE  \E J \in SUBSET reported : Contract!Withdraw(J)
  <2> DEFINE J == jobs \cap reported
  <2>1. accepted' = accepted /\ closed' = closed /\ result' = result
    BY <1>4 DEF ResetsJobs
  <2>2. reported' = reported \ J
    BY <1>4 DEF ResetsJobs
  <2>3. J \in SUBSET reported
    OBVIOUS
  <2> HIDE DEF J
  <2> QED
    BY <2>1, <2>2, <2>3, Zenon DEF Contract!Withdraw
<1>5. ASSUME NEW s, NEW v, WritesSubmission(s, v)
      PROVE  [Contract!Next]_(Contract!contractVars)
  <2>1. reported' = reported /\ result' = result
    BY <1>5 DEF WritesSubmission
  <2>2. CASE s \notin Submissions
    <3>1. accepted' = accepted /\ closed' = closed
      BY <1>5, <1>a, <2>2 DEF WritesSubmission, TablesTypeOK
    <3> QED
      BY <2>1, <3>1 DEF Contract!contractVars
  <2>3. CASE s \in Submissions
    <3>1. accepted' = accepted
      BY <1>5, <1>a, <2>3 DEF WritesSubmission, TablesTypeOK, Accepted
    <3>2. CASE v = "completed"
      <4>1. closed' = closed \cup {s} /\ {j \in Jobs : SubOf[j] = s} \subseteq result
        BY <1>5, <1>a, <2>3, <3>2 DEF WritesSubmission, TablesTypeOK, JobsOf
      <4>2. Contract!Close(s)
        BY <2>1, <3>1, <4>1 DEF Contract!Close
      <4> QED
        BY <2>3, <4>2 DEF Contract!Next
    <3>3. CASE v # "completed"
      <4>1. closed' = closed \ {s}
        BY <1>5, <1>a, <2>3, <3>3 DEF WritesSubmission, TablesTypeOK
      <4>2. Contract!Reopen(s)
        BY <2>1, <3>1, <4>1 DEF Contract!Reopen
      <4> QED
        BY <2>3, <4>2 DEF Contract!Next
    <3> QED
      BY <3>2, <3>3
  <2> QED
    BY <2>2, <2>3
<1>6. ASSUME NEW j \in Jobs, Stores(j) PROVE [Contract!Next]_(Contract!contractVars)
  <2>1. accepted' = accepted /\ reported' = reported /\ closed' = closed
    BY <1>6 DEF Stores
  <2>2. CASE j \in result
    <3>1. result' = result
      BY <1>6, <2>2 DEF Stores
    <3> QED
      BY <2>1, <3>1 DEF Contract!contractVars
  <2>3. CASE j \notin result
    <3>1. Contract!Store(j)
      BY <1>6, <2>1, <2>3, <1>b DEF Stores, Contract!Store
    <3> QED
      BY <3>1 DEF Contract!Next
  <2> QED
    BY <2>2, <2>3
<1>7. ASSUME NEW jobs \in SUBSET Jobs, ResetsJobs(jobs) PROVE Contract!Next
  BY <1>4, <1>7 DEF Contract!Next, reported
<1> HIDE DEF accepted, reported, closed
<1> QED
  BY <1>1, <1>2, <1>3, <1>5, <1>6, <1>7 DEF Tables, Contract!Next

\* What a process is about survives wherever it goes on.
LEMMA AboutShapes ==
    ASSUME NEW l \in Locals, NEW S, About(l, S)
    PROVE  /\ About(Idle, S) /\ About(Continue(l), S) /\ About(AfterError(l), S)
           /\ About(AfterSync(l), S) /\ About(Caught(l), S) /\ About(Thrown(l), S)
           /\ About(Looked(l), S)
           /\ \A label \in Labels \ {"syncWrite"} : About([l EXCEPT !.pc = label], S)
<1>1. About(Idle, S)
  BY ServiceAssumption DEF About, Idle
<1>2. ASSUME NEW m \in {l, [l EXCEPT !.pc = "next", !.next = "none"],
                        [l EXCEPT !.pc = "syncRead", !.kind = "closing", !.next = "none"],
                        [l EXCEPT !.pc = "dlqRemove", !.next = "none"],
                        [l EXCEPT !.pc = "ack", !.next = "none"],
                        [l EXCEPT !.pc = "deadLetter", !.next = "none"],
                        [l EXCEPT !.pc = "complete", !.next = "none"],
                        [l EXCEPT !.pc = "add", !.next = "none"],
                        [l EXCEPT !.pc = "nack", !.next = "none"]}
      PROVE  About(m, S)
  BY <1>2 DEF About, Locals
<1>3. About(Continue(l), S)
  <2>1. CASE l.todo # {}
    BY <1>2, <2>1 DEF Continue
  <2>2. CASE l.todo = {} /\ l.kind = "create"
    BY <1>2, <2>2 DEF Continue
  <2>3. CASE l.todo = {} /\ l.kind = "dlq"
    BY <1>2, <2>3 DEF Continue
  <2>4. CASE l.todo = {} /\ l.kind \notin {"create", "dlq"}
    <3>1. Continue(l) = Idle
      BY <2>4 DEF Continue
    <3> QED
      BY <1>1, <3>1
  <2> QED
    BY <2>1, <2>2, <2>3, <2>4
<1>4. About(AfterError(l), S)
  BY <1>1, <1>3 DEF AfterError
<1>5. About(AfterSync(l), S)
  <2>1. CASE l.kind \in {"run", "reuse"}
    BY <1>2, <2>1 DEF AfterSync
  <2>2. CASE l.kind = "fail"
    BY <1>2, <2>2 DEF AfterSync
  <2>3. CASE l.kind = "closing"
    BY <1>1, <2>3 DEF AfterSync
  <2>4. CASE l.kind \notin {"run", "reuse", "fail", "closing"}
    <3>1. AfterSync(l) = Continue(l)
      BY <2>4 DEF AfterSync
    <3> QED
      BY <1>3, <3>1
  <2> QED
    BY <2>1, <2>2, <2>3, <2>4
<1>6. About(Caught(l), S)
  BY DEF Caught, About, Locals
<1>7. About(Thrown(l), S)
  <2>1. CASE TryRegion(l)
    <3>1. Thrown(l) = [Caught(l) EXCEPT !.next = "none"]
      BY <2>1 DEF Thrown
    <3>2. Caught(l) \in Locals /\ Caught(l).pc # "syncWrite"
      BY CaughtShape
    <3> QED
      BY <1>6, <3>1, <3>2 DEF About, Locals
  <2>2. CASE ~TryRegion(l)
    BY <1>2, <2>2 DEF Thrown
  <2> QED
    BY <2>1, <2>2
<1>8. About(Looked(l), S)
  <2>1. CASE jobStatus[l.job] = "completed"
    <3>1. Looked(l) = Continue(l)
      BY <2>1 DEF Looked
    <3> QED
      BY <1>3, <3>1
  <2>2. CASE jobStatus[l.job] # "completed" /\ l.job \in result
    BY <1>2, <2>2 DEF Looked
  <2>3. CASE jobStatus[l.job] # "completed" /\ l.job \notin result
    BY <1>2, <2>3 DEF Looked
  <2> QED
    BY <2>1, <2>2, <2>3
<1>9. \A label \in Labels \ {"syncWrite"} : About([l EXCEPT !.pc = label], S)
  BY DEF About, Locals
<1> QED
  BY <1>1, <1>3, <1>4, <1>5, <1>6, <1>7, <1>8, <1>9

\* A process that moves on, over tables that change in one of the six ways.
LEMMA MoveHasEffects ==
    ASSUME TypeInv, AcceptedInv, NEW p \in Procs, NEW l \in Locals, Become(p, l),
           About(l, Accepted), Tables, Entries
    PROVE  Effects
<1>1. Accepted \subseteq Accepted'
  BY TablesAccepted
<1>2. About(l, Accepted')
  BY <1>1 DEF About
<1> QED
  BY <1>2 DEF Effects

LEMMA SameEntriesEffect ==
    ASSUME \A j \in Jobs : entry'[j] # "none" => entry[j] # "none",
           deadLetter' \subseteq deadLetter
    PROVE  Entries
  BY DEF Entries

LEMMA MarkingEffects ==
    ASSUME TypeInv, ResultInv, AcceptedInv, NEW p \in Procs,
           markCompleted(p) \/ syncSubmissionStatus(p)
    PROVE  Effects
<1>a. local[p] \in Locals /\ Knows(local[p], result) /\ About(local[p], Accepted)
  BY DEF TypeInv, TypeOK, ServiceTypeOK, ResultInv, AcceptedInv
<1>b. Entries
  BY SameEntriesEffect DEF markCompleted, syncSubmissionStatus, syncRead, syncWrite, queueVars
<1>1. CASE markCompleted(p)
  <2>1. WritesJob(local[p].job, "completed")
    BY <1>1, <1>a DEF markCompleted, At, Knows, About, WritesJob
  <2>2. Become(p, [local[p] EXCEPT !.pc = "syncRead"])
    BY <1>1 DEF markCompleted, Goto
  <2>3. [local[p] EXCEPT !.pc = "syncRead"] \in Locals
    BY <1>a DEF Locals, Labels
  <2>4. About([local[p] EXCEPT !.pc = "syncRead"], Accepted)
    BY <1>a, AboutShapes DEF Labels
  <2> QED
    BY <1>b, <2>1, <2>2, <2>3, <2>4, MoveHasEffects DEF Tables
<1>2. CASE syncRead(p)
  <2> DEFINE l == [local[p] EXCEPT !.pc = "syncWrite",
                                   !.next = NextStatus(local[p].sub)]
  <2>1. l \in Locals /\ About(l, Accepted)
    BY <1>a, NextStatusShape DEF Locals, Labels, About
  <2>2. Become(p, l) /\ Tables
    BY <1>2 DEF syncRead, Tables
  <2> QED
    BY <1>b, <2>1, <2>2, MoveHasEffects
<1>3. CASE syncWrite(p)
  <2>1. WritesSubmission(local[p].sub, local[p].next)
    BY <1>3, <1>a DEF syncWrite, At, Knows, About, WritesSubmission
  <2>2. AfterSync(local[p]) \in Locals /\ About(AfterSync(local[p]), Accepted)
    BY <1>a, AfterSyncShape, AboutShapes
  <2> QED
    BY <1>3, <1>b, <2>1, <2>2, MoveHasEffects DEF syncWrite, Tables
<1> QED
  BY <1>1, <1>2, <1>3 DEF syncSubmissionStatus

LEMMA CallerEffects ==
    ASSUME TypeInv, ResultInv, AcceptedInv, NEW c \in Callers, CallerStep(c)
    PROVE  Effects
<1>a. c \in Procs
  BY DEF Procs
<1>b. local[c] \in Locals /\ About(local[c], Accepted)
  BY <1>a DEF TypeInv, TypeOK, ServiceTypeOK, AcceptedInv
<1>c. \A label \in Labels \ {"syncWrite"} :
        [local[c] EXCEPT !.pc = label] \in Locals /\ About([local[c] EXCEPT !.pc = label], Accepted)
  BY <1>b, AboutShapes DEF Locals
<1>d. \A j \in Jobs : jobStatus[j] # "none" => SubOf[j] \in Accepted
  BY DEF AcceptedInv, Rowed
<1>e. ASSUME NEW jobs \in SUBSET Jobs, \A j \in jobs : SubOf[j] \in Accepted
      PROVE  LET l == Continue([local[c] EXCEPT !.todo = jobs])
             IN  l \in Locals /\ About(l, Accepted)
  <2>1. [local[c] EXCEPT !.todo = jobs] \in Locals
    BY <1>b DEF Locals
  <2>2. About([local[c] EXCEPT !.todo = jobs], Accepted)
    BY <1>b, <1>e DEF About, Locals
  <2> QED
    BY <2>1, <2>2, ContinueShape, AboutShapes
<1>1. CASE enqueueForSubmission(c)
  <2> DEFINE jobs == OpenJobs(JobsOf(local[c].sub))
  <2>1. jobs \in SUBSET Jobs /\ \A j \in jobs : SubOf[j] \in Accepted
    BY <1>d DEF OpenJobs, JobsOf
  <2>2. Tables /\ Entries /\ Become(c, Continue([local[c] EXCEPT !.todo = jobs]))
    BY <1>1, SameEntriesEffect DEF enqueueForSubmission, Enqueue, Tables, queueVars
  <2> HIDE DEF jobs
  <2> QED
    BY <1>a, <1>e, <2>1, <2>2, MoveHasEffects
<1>2. CASE resetStaleRunning(c)
  <2>1. local[c].todo \in SUBSET Jobs /\ ResetsJobs(local[c].todo)
    BY <1>2, <1>b DEF resetStaleRunning, ResetsJobs, About, Locals
  <2>2. Tables /\ Entries /\ Become(c, [local[c] EXCEPT !.pc = "openList"])
    BY <1>2, <2>1, SameEntriesEffect DEF resetStaleRunning, Goto, Tables, queueVars
  <2> QED
    BY <1>a, <1>c, <2>2, MoveHasEffects DEF Labels
<1>3. CASE listOpenJobs(c)
  <2> DEFINE jobs == OpenJobs(Jobs) \cup {j \in local[c].todo : jobStatus[j] = "running"}
  <2>1. jobs \in SUBSET Jobs /\ \A j \in jobs : SubOf[j] \in Accepted
    BY <1>b, <1>d DEF OpenJobs, Locals
  <2>2. Tables /\ Entries /\ Become(c, Continue([local[c] EXCEPT !.todo = jobs]))
    BY <1>3, SameEntriesEffect DEF listOpenJobs, Enqueue, Tables, queueVars
  <2> HIDE DEF jobs
  <2> QED
    BY <1>a, <1>e, <2>1, <2>2, MoveHasEffects
<1>4. CASE retryCheckResult(c)
  <2>1. PICK label \in {"complete", "retryReset"} : Become(c, [local[c] EXCEPT !.pc = label])
    BY <1>4 DEF retryCheckResult, Goto
  <2>2. Tables /\ Entries
    BY <1>4, SameEntriesEffect DEF retryCheckResult, Tables, queueVars
  <2> QED
    BY <1>a, <1>c, <2>1, <2>2, MoveHasEffects DEF Labels
<1>5. CASE retryResetJob(c)
  <2>1. local[c].job \in Jobs
    BY <1>5, <1>a DEF retryResetJob, At, TypeInv, HasJob, NeedsJob
  <2>2. SubOf[local[c].job] \in Accepted
    BY <1>b, <2>1 DEF About
  <2>3. WritesJob(local[c].job, "pending")
    BY <1>5, <2>2 DEF retryResetJob, WritesJob
  <2>4. Entries /\ Become(c, Continue([local[c] EXCEPT !.todo = {local[c].job}]))
    BY <1>5, SameEntriesEffect DEF retryResetJob, Enqueue, queueVars
  <2>5. Tables
    BY <2>3 DEF Tables
  <2>6. {local[c].job} \in SUBSET Jobs /\ \A j \in {local[c].job} : SubOf[j] \in Accepted
    BY <2>1, <2>2
  <2> QED
    BY <1>a, <1>e, <2>4, <2>5, <2>6, MoveHasEffects
<1>6. CASE enqueue(c)
  <2>1. PICK j \in local[c].todo :
          Become(c, Looked([local[c] EXCEPT !.job = j, !.sub = SubOf[j],
                                            !.todo = @ \ {j}]))
    BY <1>6 DEF enqueue
  <2> DEFINE m == [local[c] EXCEPT !.job = j, !.sub = SubOf[j], !.todo = @ \ {j}]
  <2>2. m \in Locals
    BY <1>b, ServiceAssumption DEF Locals
  <2>3. SubOf[j] \in Accepted
    BY <1>b DEF About
  <2>4. About(m, Accepted)
    BY <1>b, <2>3 DEF About, Locals
  <2>5. Tables /\ Entries
    BY <1>6, SameEntriesEffect DEF enqueue, Tables, queueVars
  <2> HIDE DEF m
  <2>6. Become(c, Looked(m))
    BY <2>1 DEF m
  <2> QED
    BY <1>a, <2>2, <2>4, <2>5, <2>6, LookedShape, AboutShapes, MoveHasEffects
<1>7. CASE enqueueAdd(c)
  <2>1. Entries
    BY <1>7, <1>b DEF enqueueAdd, enqueueAnalysisJob, Entries, About, TypeInv, TypeOK,
       QueueTypeOK
  <2>2. Tables /\ Become(c, [local[c] EXCEPT !.pc = "mark"])
    BY <1>7 DEF enqueueAdd, Tables, Goto
  <2> QED
    BY <1>a, <1>c, <2>1, <2>2, MoveHasEffects DEF Labels
<1>8. CASE markQueued(c)
  <2>1. WritesJob(local[c].job, "queued")
    BY <1>8, <1>b DEF markQueued, WritesJob, About
  <2>2. Tables /\ Entries
    BY <1>8, <2>1, SameEntriesEffect DEF markQueued, Tables, queueVars
  <2> QED
    BY <1>8, <1>a, <1>b, <2>2, ContinueShape, AboutShapes, MoveHasEffects DEF markQueued
<1>9. CASE removeRetriedDeadLetter(c)
  <2>1. Tables /\ Entries
    BY <1>9, SameEntriesEffect DEF removeRetriedDeadLetter, removeDeadLetterJob, Tables
  <2> QED
    BY <1>9, <1>a, <1>b, <2>1, IdleType, AboutShapes, MoveHasEffects DEF removeRetriedDeadLetter
<1>10. CASE markCompleted(c) \/ syncSubmissionStatus(c)
  BY <1>10, <1>a, MarkingEffects
<1> QED
  BY <1>1, <1>2, <1>3, <1>4, <1>5, <1>6, <1>7, <1>8, <1>9, <1>10 DEF CallerStep

LEMMA RequestEffects ==
    ASSUME TypeInv, ResultInv, AcceptedInv, NEW c \in Requests, RequestArrives(c)
    PROVE  Effects
<1>a. c \in Procs
  BY DEF Procs, Callers
<1>b. local[c] \in Locals /\ About(local[c], Accepted)
  BY <1>a DEF TypeInv, TypeOK, ServiceTypeOK, AcceptedInv
<1>d. \A j \in Jobs : Rowed(j) => SubOf[j] \in Accepted
  BY DEF AcceptedInv
<1>1. ASSUME NEW s \in Submissions, createSubmissionWithJobs(c, s)
      PROVE  Effects
  <2> DEFINE l == [local[c] EXCEPT !.pc = "list", !.kind = "create", !.sub = s]
  <2>1. Creates(s) /\ Become(c, l)
    BY <1>1 DEF createSubmissionWithJobs, Creates
  <2>2. l \in Locals /\ l.pc = "list" /\ l.sub = s /\ l.job = local[c].job /\ l.todo = local[c].todo
    BY <1>b DEF Locals, Labels, Kinds
  <2>3. Tables /\ Entries
    BY <1>1, <2>1, SameEntriesEffect DEF createSubmissionWithJobs, Tables, queueVars
  <2>4. Accepted \subseteq Accepted'
    BY <2>3, TablesAccepted
  <2>5. s \in Accepted'
    BY <2>1 DEF Creates, Accepted, TypeInv, TypeOK, ServiceTypeOK, TablesTypeOK
  <2> HIDE DEF l
  <2>6. About(l, Accepted')
    BY <1>b, <2>2, <2>4, <2>5 DEF About
  <2> QED
    BY <1>a, <2>1, <2>2, <2>3, <2>6 DEF Effects
<1>2. ASSUME NEW timedOut \in SUBSET Jobs, recoverOpenJobs(c, timedOut)
      PROVE  Effects
  <2> DEFINE stale == {j \in timedOut : jobStatus[j] = "running"}
             l == [local[c] EXCEPT !.kind = "open", !.todo = stale,
                     !.pc = IF stale = {} THEN "openList" ELSE "reset"]
  <2>1. stale \in SUBSET Jobs /\ \A j \in stale : SubOf[j] \in Accepted
    BY <1>d DEF Rowed
  <2>2. Become(c, l) /\ Tables /\ Entries
    BY <1>2, SameEntriesEffect DEF recoverOpenJobs, Tables, queueVars
  <2> HIDE DEF stale
  <2>3. l \in Locals /\ About(l, Accepted)
    BY <1>b, <2>1 DEF Locals, Labels, Kinds, About
  <2> QED
    BY <1>a, <2>2, <2>3, MoveHasEffects
<1>3. ASSUME NEW j \in Jobs, retry(c, j) \/ retryDeadLetterJob(c, j)
      PROVE  Effects
  <2>1. PICK k \in {"retry", "dlq"} :
          Become(c, [local[c] EXCEPT !.pc = "retryCheck", !.kind = k,
                                     !.job = j, !.sub = SubOf[j]])
    BY <1>3 DEF retry, retryDeadLetterJob
  <2> DEFINE l == [local[c] EXCEPT !.pc = "retryCheck", !.kind = k,
                                   !.job = j, !.sub = SubOf[j]]
  <2>2. SubOf[j] \in Accepted
    BY <1>3, <1>d DEF Rowed, retry, retryDeadLetterJob
  <2>3. Tables /\ Entries
    BY <1>3, SameEntriesEffect DEF retry, retryDeadLetterJob, Tables, queueVars
  <2>4. l \in Locals /\ About(l, Accepted)
    BY <1>b, <2>2, ServiceAssumption DEF Locals, Labels, Kinds, About
  <2> QED
    BY <1>a, <2>1, <2>3, <2>4, MoveHasEffects
<1> QED
  BY <1>1, <1>2, <1>3 DEF RequestArrives

LEMMA TickEffects ==
    ASSUME TypeInv, AcceptedInv, NEW c \in Ticks, NEW old, recoverZombieJobs(c, old)
    PROVE  Effects
<1> DEFINE zombies == {j \in Jobs : jobStatus[j] = "pending" /\ SubOf[j] \in old}
           m == [local[c] EXCEPT !.kind = "tick", !.todo = zombies]
<1>1. c \in Procs
  BY DEF Procs, Callers
<1>2. local[c] \in Locals /\ About(local[c], Accepted)
  BY <1>1 DEF TypeInv, TypeOK, ServiceTypeOK, AcceptedInv
<1>3. zombies \in SUBSET Jobs /\ \A j \in zombies : SubOf[j] \in Accepted
  BY DEF AcceptedInv, Rowed
<1>4. Become(c, Continue(m)) /\ Tables /\ Entries
  BY SameEntriesEffect DEF recoverZombieJobs, Tables, queueVars
<1> HIDE DEF zombies
<1>5. m \in Locals /\ About(m, Accepted)
  BY <1>2, <1>3 DEF Locals, Kinds, About
<1> HIDE DEF m
<1> QED
  BY <1>1, <1>4, <1>5, ContinueShape, AboutShapes, MoveHasEffects

LEMMA CallerFaultEffects ==
    ASSUME TypeInv, AcceptedInv, NEW c \in Callers, CallerFault(c)
    PROVE  Effects
<1>a. c \in Procs
  BY DEF Procs
<1>b. local[c] \in Locals /\ About(local[c], Accepted)
  BY <1>a DEF TypeInv, TypeOK, ServiceTypeOK, AcceptedInv
<1>c. \A l \in {Idle, AfterError(local[c])} : l \in Locals /\ About(l, Accepted)
  BY <1>b, IdleType, AfterErrorShape, AboutShapes
<1>1. Tables
  BY DEF CallerFault, enqueueAddFails, Abort, Tables, dbVars
<1>2. Entries
  <2>1. CASE Abort(c)
    BY <2>1, SameEntriesEffect DEF Abort, queueVars
  <2>2. CASE enqueueAddFails(c)
    BY <2>2, <1>b DEF enqueueAddFails, enqueueAnalysisJob, Entries, About, TypeInv, TypeOK,
       QueueTypeOK, queueVars
  <2> QED
    BY <2>1, <2>2 DEF CallerFault
<1>3. PICK l \in {Idle, AfterError(local[c])} : Become(c, l)
  BY DEF CallerFault, enqueueAddFails, Abort
<1> QED
  BY <1>a, <1>c, <1>1, <1>2, <1>3, MoveHasEffects

LEMMA SlotEffects ==
    ASSUME TypeInv, ResultInv, AcceptedInv, NEW p \in Slots, SlotStep(p)
    PROVE  Effects
<1>a. p \in Procs
  BY DEF Procs
<1>b. local[p] \in Locals /\ About(local[p], Accepted)
  BY <1>a DEF TypeInv, TypeOK, ServiceTypeOK, AcceptedInv
<1>c. \A label \in Labels \ {"syncWrite"} :
        [local[p] EXCEPT !.pc = label] \in Locals /\ About([local[p] EXCEPT !.pc = label], Accepted)
  BY <1>b, AboutShapes DEF Locals
<1>d. ~At(p, "idle") => local[p].job \in Jobs /\ SubOf[local[p].job] \in Accepted
  BY <1>a, <1>b DEF TypeInv, HasJob, NeedsJob, At, About
<1>1. CASE findUniqueByJobId(p)
  <2> DEFINE found == [local[p] EXCEPT !.pc = "complete", !.kind = "reuse"]
             fresh == [local[p] EXCEPT !.pc = "start"]
  <2>1. PICK l \in {found, fresh} : Become(p, l)
    BY <1>1 DEF findUniqueByJobId, Goto
  <2>2. Tables /\ Entries
    BY <1>1, SameEntriesEffect DEF findUniqueByJobId, Tables, queueVars
  <2>3. /\ found \in Locals /\ About(found, Accepted)
        /\ fresh \in Locals /\ About(fresh, Accepted)
    BY <1>b DEF Locals, Labels, Kinds, About
  <2> HIDE DEF found, fresh
  <2> QED
    BY <1>a, <2>1, <2>2, <2>3, MoveHasEffects
<1>2. CASE markRunning(p)
  <2>1. WritesJob(local[p].job, "running")
    BY <1>2, <1>b DEF markRunning, WritesJob, About
  <2>2. Tables /\ Entries /\ Become(p, [local[p] EXCEPT !.pc = "startSub"])
    BY <1>2, <2>1, SameEntriesEffect DEF markRunning, Goto, Tables, queueVars
  <2> QED
    BY <1>a, <1>c, <2>2, MoveHasEffects DEF Labels
<1>3. CASE markSubmissionProcessing(p)
  <2>1. WritesSubmission(local[p].sub, "processing")
    BY <1>3, <1>b DEF markSubmissionProcessing, WritesSubmission, About
  <2>2. Tables /\ Entries /\ Become(p, [local[p] EXCEPT !.pc = "work"])
    BY <1>3, <2>1, SameEntriesEffect DEF markSubmissionProcessing, Goto, Tables, queueVars
  <2> QED
    BY <1>a, <1>c, <2>2, MoveHasEffects DEF Labels
<1>4. CASE dispatch(p)
  <2>1. local[p].job \in Jobs /\ Stores(local[p].job)
    BY <1>4, <1>d DEF dispatch, At, Stores
  <2>2. Tables /\ Entries /\ Become(p, [local[p] EXCEPT !.pc = "complete"])
    BY <1>4, <2>1, SameEntriesEffect DEF dispatch, Goto, Tables, queueVars
  <2> QED
    BY <1>a, <1>c, <2>2, MoveHasEffects DEF Labels
<1>5. CASE dispatchThrows(p)
  <2>1. Tables /\ Entries /\ Become(p, Caught(local[p]))
    BY <1>5, SameEntriesEffect DEF dispatchThrows, Tables, queueVars
  <2> QED
    BY <1>a, <1>b, <2>1, CaughtShape, AboutShapes, MoveHasEffects
<1>6. CASE markFailed(p)
  <2>1. WritesJob(local[p].job, "failed")
    BY <1>6, <1>b DEF markFailed, WritesJob, About
  <2>2. Tables /\ Entries /\ Become(p, [local[p] EXCEPT !.pc = "syncRead"])
    BY <1>6, <2>1, SameEntriesEffect DEF markFailed, Goto, Tables, queueVars
  <2> QED
    BY <1>a, <1>c, <2>2, MoveHasEffects DEF Labels
<1>7. CASE markCompleted(p) \/ syncSubmissionStatus(p)
  BY <1>7, <1>a, MarkingEffects
<1>8. CASE deadLetterJob(p)
  <2>1. Entries
    BY <1>8, <1>d DEF deadLetterJob, At, moveToDeadLetter, Entries
  <2>2. Tables /\ Become(p, [local[p] EXCEPT !.pc = "nack"])
    BY <1>8 DEF deadLetterJob, Goto, Tables
  <2> QED
    BY <1>a, <1>c, <2>1, <2>2, MoveHasEffects DEF Labels
<1>9. CASE acknowledge(p) \/ reject(p)
  <2>1. Entries
    BY <1>9, <1>d DEF acknowledge, reject, At, moveToCompleted, moveToFailed, queueVars, Entries,
       TypeInv, TypeOK, QueueTypeOK
  <2>2. Tables /\ Become(p, Idle)
    BY <1>9 DEF acknowledge, reject, Tables
  <2> QED
    BY <1>a, <1>b, <2>1, <2>2, IdleType, AboutShapes, MoveHasEffects
<1> QED
  BY <1>1, <1>2, <1>3, <1>4, <1>5, <1>6, <1>7, <1>8, <1>9 DEF SlotStep

LEMMA SlotFaultEffects ==
    ASSUME TypeInv, AcceptedInv, NEW p \in Slots, SlotFault(p)
    PROVE  Effects
<1>a. p \in Procs
  BY DEF Procs
<1>b. local[p] \in Locals /\ About(local[p], Accepted)
  BY <1>a DEF TypeInv, TypeOK, ServiceTypeOK, AcceptedInv
<1>1. CASE Throws(p)
  <2>1. jobStatus' = jobStatus /\ result' = result
    BY <1>1 DEF Throws
  <2>2. Tables
    <3>1. CASE UNCHANGED submissionStatus
      BY <2>1, <3>1 DEF Tables, dbVars
    <3>2. CASE submissionStatus' = [submissionStatus EXCEPT ![local[p].sub] = "processing"]
      <4>1. WritesSubmission(local[p].sub, "processing")
        BY <1>b, <2>1, <3>2 DEF WritesSubmission, About
      <4> QED
        BY <4>1 DEF Tables
    <3> QED
      BY <1>1, <3>1, <3>2 DEF Throws
  <2>3. Entries /\ Become(p, Thrown(local[p]))
    BY <1>1, SameEntriesEffect DEF Throws, queueVars
  <2> QED
    BY <1>a, <1>b, <2>2, <2>3, ThrownShape, AboutShapes, MoveHasEffects
<1>2. CASE Crash(p)
  <2>1. Tables /\ Entries /\ Become(p, Idle)
    BY <1>2, SameEntriesEffect DEF Crash, dropLock, Tables
  <2> QED
    BY <1>a, <1>b, <2>1, IdleType, AboutShapes, MoveHasEffects
<1>3. CASE LockExpires(p)
  <2>1. Entries
    BY <1>3, SameEntriesEffect DEF LockExpires, dropLock
  <2> QED
    BY <1>3, <2>1 DEF LockExpires, Effects, Tables
<1> QED
  BY <1>1, <1>2, <1>3 DEF SlotFault

LEMMA TakeEffects ==
    ASSUME TypeInv, AcceptedInv, NEW p \in Slots, NEW j \in Jobs, take(p, j)
    PROVE  Effects
<1> DEFINE l == [local[p] EXCEPT !.pc = "lookup", !.kind = "run", !.job = j,
                                 !.sub = SubOf[j], !.att = made[j]]
<1>1. p \in Procs /\ local[p] \in Locals /\ About(local[p], Accepted) /\ made[j] \in Nat
  BY DEF Procs, TypeInv, TypeOK, ServiceTypeOK, QueueTypeOK, AcceptedInv
<1>2. Become(p, l) /\ Tables
  BY DEF take, Tables
<1>3. SubOf[j] \in Accepted
  BY DEF take, takeEntry, AcceptedInv, Rowed
<1>4. l \in Locals /\ About(l, Accepted)
  BY <1>1, <1>3, ServiceAssumption DEF Locals, Labels, Kinds, About
<1>5. Entries
  BY SameEntriesEffect DEF take, takeEntry, TypeInv, TypeOK, QueueTypeOK
<1> QED
  BY <1>1, <1>2, <1>4, <1>5, MoveHasEffects

LEMMA QueueStepEffects ==
    ASSUME TypeInv, NEW j \in Jobs, QueueStep(j)
    PROVE  Effects
<1>1. Entries
  BY SameEntriesEffect DEF QueueStep, Promote, Stalled, Evict, TypeInv, TypeOK, QueueTypeOK
<1> QED
  BY <1>1 DEF QueueStep, Effects, Tables

LEMMA StepEffects ==
    ASSUME TypeInv, ResultInv, AcceptedInv, [Next]_vars
    PROVE  Effects
<1>1. CASE UNCHANGED vars
  BY <1>1 DEF vars, queueVars, Effects, Tables, Entries
<1>2. CASE Next
  BY <1>2, RequestEffects, TickEffects, CallerEffects, CallerFaultEffects, TakeEffects,
     SlotEffects, SlotFaultEffects, QueueStepEffects DEF Next
<1> QED
  BY <1>1, <1>2

\* With queues, locks, retries, recoveries and crashes the pipeline only ever does
\* what AnalysisContract allows: results are stored for accepted submissions and never
\* lost, jobs are reported over their result, submissions over all of theirs.
THEOREM ContractImplemented == Spec => ContractSpec
<1>1. Init => AcceptedInv /\ Contract!Init
  BY AcceptedInit
<1>2. TypeInv /\ ResultInv /\ AcceptedInv /\ [Next]_vars =>
        AcceptedInv' /\ [Contract!Next]_(Contract!contractVars)
  BY StepEffects, EffectsAccepted, TablesContract DEF Effects
<1> QED
  BY <1>1, <1>2, ResultCorrect, PTL DEF Spec, ContractSpec, Contract!Spec

-----------------------------------------------------------------------------
(* No job is lost: leases *)

(***************************************************************************)
(* What a slot knows while it still owns the lock of an entry, also when   *)
(* other locks expire under live slots: the entry is the active one of its *)
(* job, at the attempt the slot saw.  And why the stalled check does not   *)
(* give up an entry early: every lock that was lost is a fault, counted.   *)
(***************************************************************************)
Leases ==
    \A j \in Jobs, p \in Slots : holder[j] = p =>
        /\ entry[j] = "active"
        /\ ~At(p, "idle")
        /\ local[p].job = j
        /\ local[p].att = made[j]

SlotKind(l) == l.pc # "idle" => l.kind \in {"run", "reuse", "fail"}

StallCount ==
    \A j \in Jobs :
        /\ stalls[j] <= faults.locks
        /\ entry[j] = "active" /\ holder[j] = NoSlot => stalls[j] + 1 <= faults.locks

LeaseInv ==
    /\ Leases
    /\ \A p \in Slots : SlotKind(local[p])
    /\ StallCount

LEMMA LeaseInit == Init => LeaseInv
<1> SUFFICES ASSUME Init PROVE LeaseInv
  OBVIOUS
<1>1. Leases
  BY QueueAssumption DEF Init, QueueInit, Leases
<1>2. \A p \in Slots : SlotKind(local[p])
  BY DEF Init, ServiceInit, Procs, SlotKind, Idle
<1>3. StallCount
  <2>1. faults.locks = 0
    BY DEF Init, ServiceInit
  <2>2. \A j \in Jobs : stalls[j] = 0 /\ entry[j] # "active"
    BY DEF Init, QueueInit
  <2>3. \A j \in Jobs : stalls[j] <= faults.locks
    <3> SUFFICES ASSUME NEW j \in Jobs PROVE stalls[j] <= faults.locks
      OBVIOUS
    <3>1. stalls[j] = 0 /\ stalls[j] \in Nat /\ faults.locks \in Nat
      BY <2>1, <2>2
    <3> QED
      BY <2>1, <3>1
  <2> QED
    BY <2>2, <2>3 DEF StallCount
<1> QED
  BY <1>1, <1>2, <1>3 DEF LeaseInv

\* The number of locks that were lost only grows.
LEMMA LocksGrow ==
    ASSUME TypeInv, faults' = faults \/ \E kind : Fault(kind)
    PROVE  /\ faults.locks <= faults'.locks
           /\ faults.locks \in Nat /\ faults'.locks \in Nat
  BY DEF TypeInv, TypeOK, ServiceTypeOK, FaultCounts, Fault

\* Entries that a step leaves as they are, or starts or ends without a lock, keep
\* the count of their stalls.
LEMMA StallsCounted ==
    ASSUME TypeInv, StallCount, faults' = faults \/ (\E kind : Fault(kind)),
           \A j \in Jobs :
             \/ UNCHANGED <<entry[j], holder[j], stalls[j]>>
             \/ /\ stalls'[j] = stalls[j] \/ stalls'[j] = 0
                /\ entry'[j] # "active" \/ holder'[j] # NoSlot
    PROVE  StallCount'
<1>1. /\ faults.locks <= faults'.locks
      /\ faults.locks \in Nat /\ faults'.locks \in Nat
  BY LocksGrow
<1>2. \A j \in Jobs : stalls[j] \in Nat
  BY DEF TypeInv, TypeOK, QueueTypeOK
<1> QED
  BY <1>1, <1>2 DEF StallCount

\* A process that is not a slot disturbs no lease: what it adds to the queue is
\* an entry nobody holds.
LEMMA CallersLease ==
    ASSUME TypeInv, LeaseInv, NEW c \in Callers,
           CallerStep(c) \/ CallerFault(c) \/ RequestArrives(c)
           \/ \E old : recoverZombieJobs(c, old)
    PROVE  LeaseInv'
<1>1. \A p \in Slots : local'[p] = local[p]
  <2>1. \E l : Become(c, l)
    BY CallersMove
  <2> QED
    BY <2>1, ServiceAssumption DEF Become, TypeInv, TypeOK, ServiceTypeOK, Procs
<1>2. \/ UNCHANGED queueVars \/ (\E j : enqueueAnalysisJob(j))
      \/ (\E j : removeDeadLetterJob(j))
  BY CallersQueue
<1>3. holder' = holder
  BY <1>2 DEF queueVars, enqueueAnalysisJob, removeDeadLetterJob
<1>4. \A j \in Jobs : \/ UNCHANGED <<entry[j], stalls[j], made[j]>>
                      \/ entry[j] = "none" /\ entry'[j] = "waiting" /\ stalls'[j] = 0
  BY <1>2 DEF queueVars, enqueueAnalysisJob, addIsNoOp, removeDeadLetterJob,
     TypeInv, TypeOK, QueueTypeOK
<1>5. faults' = faults \/ \E kind : Fault(kind)
  BY DEF CallerStep, enqueueForSubmission, resetStaleRunning, listOpenJobs,
     retryCheckResult, retryResetJob, enqueue, enqueueAdd, markQueued,
     removeRetriedDeadLetter, markCompleted, syncSubmissionStatus, syncRead,
     syncWrite, CallerFault, enqueueAddFails, Abort, RequestArrives,
     createSubmissionWithJobs, recoverOpenJobs, retry, retryDeadLetterJob,
     recoverZombieJobs
<1>6. StallCount'
  <2>1. \A j \in Jobs :
          \/ UNCHANGED <<entry[j], holder[j], stalls[j]>>
          \/ /\ stalls'[j] = stalls[j] \/ stalls'[j] = 0
             /\ entry'[j] # "active" \/ holder'[j] # NoSlot
    BY <1>3, <1>4
  <2> QED
    BY <1>5, <2>1, StallsCounted DEF LeaseInv
<1>7. Leases'
  BY <1>1, <1>3, <1>4 DEF LeaseInv, Leases, At
<1>8. \A p \in Slots : SlotKind(local[p])'
  BY <1>1 DEF LeaseInv, SlotKind
<1> QED
  BY <1>6, <1>7, <1>8 DEF LeaseInv

\* A slot that moves on with its job and its attempt, its kind one of a slot's,
\* or stays, over a queue where at most the dead letters change.
LEMMA SlotMovesLease ==
    ASSUME TypeInv, LeaseInv, NEW p \in Slots, NEW l, Become(p, l),
           ~At(p, "idle"), l.pc # "idle", l.kind \in {"run", "reuse", "fail"},
           l.job = local[p].job, l.att = local[p].att,
           UNCHANGED <<entry, made, stalls, holder>>,
           faults' = faults \/ \E kind : Fault(kind)
    PROVE  LeaseInv'
<1>1. local'[p] = l /\ \A q \in Slots : q # p => local'[q] = local[q]
  BY DEF Become, TypeInv, TypeOK, ServiceTypeOK, Procs
<1>2. StallCount'
  BY StallsCounted DEF LeaseInv
<1>3. Leases'
  BY <1>1 DEF LeaseInv, Leases, At
<1>4. \A q \in Slots : SlotKind(local[q])'
  BY <1>1 DEF LeaseInv, SlotKind
<1> QED
  BY <1>2, <1>3, <1>4 DEF LeaseInv

\* A slot that becomes idle over a queue where it holds no lock any more.
LEMMA SlotLeavesLease ==
    ASSUME TypeInv, LeaseInv, NEW p \in Slots, Become(p, Idle),
           \A j \in Jobs :
             \/ holder'[j] = NoSlot
             \/ holder[j] # p /\ UNCHANGED <<entry[j], made[j], holder[j]>>
    PROVE  Leases' /\ \A q \in Slots : SlotKind(local[q])'
<1>1. local'[p] = Idle /\ \A q \in Slots : q # p => local'[q] = local[q]
  BY DEF Become, TypeInv, TypeOK, ServiceTypeOK, Procs
<1>2. Leases'
  <2> SUFFICES ASSUME NEW j \in Jobs, NEW q \in Slots, holder'[j] = q
               PROVE  /\ entry'[j] = "active"
                      /\ local'[q].pc # "idle"
                      /\ local'[q].job = j
                      /\ local'[q].att = made'[j]
    BY DEF Leases, At
  <2>1. q # p /\ UNCHANGED <<entry[j], made[j], holder[j]>>
    BY QueueAssumption
  <2> QED
    BY <1>1, <2>1 DEF LeaseInv, Leases, At
<1>3. \A q \in Slots : SlotKind(local[q])'
  BY <1>1, IdleType DEF LeaseInv, SlotKind
<1> QED
  BY <1>2, <1>3

\* Giving the entry back, with a lock or without one.
LEMMA SlotReturnsLease ==
    ASSUME TypeInv, LeaseInv, NEW p \in Slots, Become(p, Idle), faults' = faults,
           local[p].job \in Jobs,
           moveToCompleted(p, local[p].job) \/ moveToFailed(p, local[p].job)
    PROVE  LeaseInv'
<1> DEFINE k == local[p].job
<1>1. \A j \in Jobs : holder[j] = p => j = k
  BY DEF LeaseInv, Leases
<1>2. \A j \in Jobs : \/ UNCHANGED <<entry[j], made[j], stalls[j], holder[j]>>
                      \/ /\ j = k /\ holder'[j] = NoSlot
                         /\ entry'[j] # "active" /\ stalls'[j] = stalls[j]
  BY DEF moveToCompleted, moveToFailed, queueVars, TypeInv, TypeOK, QueueTypeOK
<1>3. holder[k] = p => holder'[k] = NoSlot
  BY DEF moveToCompleted, moveToFailed, TypeInv, TypeOK, QueueTypeOK
<1>4. Leases' /\ \A q \in Slots : SlotKind(local[q])'
  <2>1. \A j \in Jobs :
          \/ holder'[j] = NoSlot
          \/ holder[j] # p /\ UNCHANGED <<entry[j], made[j], holder[j]>>
    BY <1>1, <1>2, <1>3
  <2> HIDE DEF k
  <2> QED
    BY <2>1, SlotLeavesLease
<1>5. StallCount'
  <2>1. \A j \in Jobs :
          \/ UNCHANGED <<entry[j], holder[j], stalls[j]>>
          \/ /\ stalls'[j] = stalls[j] \/ stalls'[j] = 0
             /\ entry'[j] # "active" \/ holder'[j] # NoSlot
    BY <1>2
  <2> HIDE DEF k
  <2> QED
    BY <2>1, StallsCounted DEF LeaseInv
<1> QED
  BY <1>4, <1>5 DEF LeaseInv

\* Where the record of a slot goes: it keeps its job and its attempt, and its kind
\* stays that of a slot.
SlotGoesOn(l, m) ==
    /\ m.pc # "idle"
    /\ m.kind \in {"run", "reuse", "fail"}
    /\ m.job = l.job /\ m.att = l.att

LEMMA SlotMoveShapes ==
    ASSUME NEW l \in Locals, l.kind \in {"run", "reuse", "fail"}
    PROVE  /\ \A label \in Labels \ {"idle"} : SlotGoesOn(l, [l EXCEPT !.pc = label])
           /\ SlotGoesOn(l, [l EXCEPT !.pc = "complete", !.kind = "reuse"])
           /\ \A v \in SubmissionStates :
                SlotGoesOn(l, [l EXCEPT !.pc = "syncWrite", !.next = v])
           /\ SlotGoesOn(l, Caught(l))
           /\ SlotGoesOn(l, AfterSync(l))
           /\ SlotGoesOn(l, Thrown(l))
<1>1. \A label \in Labels \ {"idle"} : SlotGoesOn(l, [l EXCEPT !.pc = label])
  BY DEF SlotGoesOn, Locals
<1>2. SlotGoesOn(l, [l EXCEPT !.pc = "complete", !.kind = "reuse"])
  BY DEF SlotGoesOn, Locals
<1>3. \A v \in SubmissionStates : SlotGoesOn(l, [l EXCEPT !.pc = "syncWrite", !.next = v])
  BY DEF SlotGoesOn, Locals
<1>4. SlotGoesOn(l, Caught(l))
  BY DEF SlotGoesOn, Caught, Locals
<1>5. SlotGoesOn(l, AfterSync(l))
  <2>1. CASE l.kind \in {"run", "reuse"}
    BY <2>1 DEF AfterSync, SlotGoesOn, Locals
  <2>2. CASE l.kind = "fail"
    BY <2>2 DEF AfterSync, SlotGoesOn, Locals
  <2> QED
    BY <2>1, <2>2
<1>6. SlotGoesOn(l, Thrown(l))
  <2>1. CASE TryRegion(l)
    BY <2>1, <1>4, CaughtShape DEF Thrown, SlotGoesOn, Locals
  <2>2. CASE ~TryRegion(l)
    BY <2>2 DEF Thrown, SlotGoesOn, Locals
  <2> QED
    BY <2>1, <2>2
<1> QED
  BY <1>1, <1>2, <1>3, <1>4, <1>5, <1>6

\* Every step of a slot that does not give its entry back goes on with it.
LEMMA SlotStepGoesOn ==
    ASSUME TypeInv, NEW p \in Slots, SlotKind(local[p]), SlotStep(p) \/ Throws(p)
    PROVE  /\ ~At(p, "idle") /\ local[p].job \in Jobs
           /\ local[p].kind \in {"run", "reuse", "fail"}
           /\ \/ acknowledge(p) \/ reject(p)
              \/ \E l : Become(p, l) /\ SlotGoesOn(local[p], l)
<1>1. p \in Procs /\ local[p] \in Locals
  BY DEF Procs, TypeInv, TypeOK, ServiceTypeOK
<1>2. ~At(p, "idle")
  BY DEF SlotStep, findUniqueByJobId, markRunning, markSubmissionProcessing, dispatch,
     dispatchThrows, markCompleted, markFailed, syncSubmissionStatus, syncRead,
     syncWrite, deadLetterJob, acknowledge, reject, Throws, OuterRegion, TryRegion,
     CatchRegion, InMarking, At
<1>3. local[p].job \in Jobs
  BY <1>1, <1>2 DEF TypeInv, HasJob, NeedsJob, At
<1>4. local[p].kind \in {"run", "reuse", "fail"}
  BY <1>2 DEF SlotKind, At
<1> DEFINE Goes == \E l : Become(p, l) /\ SlotGoesOn(local[p], l)
<1>5. CASE findUniqueByJobId(p)
  <2>1. \/ Become(p, [local[p] EXCEPT !.pc = "complete", !.kind = "reuse"])
        \/ Become(p, [local[p] EXCEPT !.pc = "start"])
    BY <1>5 DEF findUniqueByJobId, Goto
  <2> QED
    BY <2>1, <1>1, <1>2, <1>3, <1>4, SlotMoveShapes DEF Labels
<1>6. CASE \/ markRunning(p) \/ markSubmissionProcessing(p) \/ dispatch(p)
           \/ markCompleted(p) \/ markFailed(p) \/ deadLetterJob(p)
  <2>1. PICK label \in Labels \ {"idle"} : Become(p, [local[p] EXCEPT !.pc = label])
    BY <1>6 DEF markRunning, markSubmissionProcessing, dispatch, markCompleted,
       markFailed, deadLetterJob, Goto, Labels
  <2>2. SlotGoesOn(local[p], [local[p] EXCEPT !.pc = label])
    BY <1>1, <1>4, SlotMoveShapes
  <2> QED
    BY <2>1, <2>2, <1>2, <1>3, <1>4
<1>7. CASE dispatchThrows(p)
  BY <1>7, <1>1, <1>2, <1>3, <1>4, SlotMoveShapes DEF dispatchThrows
<1>8. CASE syncSubmissionStatus(p)
  <2>1. CASE syncRead(p)
    <3>1. SlotGoesOn(local[p], [local[p] EXCEPT !.pc = "syncWrite",
                                                !.next = NextStatus(local[p].sub)])
      BY <1>1, <1>4, SlotMoveShapes, NextStatusShape
    <3> QED
      BY <2>1, <3>1, <1>2, <1>3, <1>4 DEF syncRead
  <2>2. CASE syncWrite(p)
    BY <2>2, <1>1, <1>2, <1>3, <1>4, SlotMoveShapes DEF syncWrite
  <2> QED
    BY <1>8, <2>1, <2>2 DEF syncSubmissionStatus
<1>9. CASE Throws(p)
  BY <1>9, <1>1, <1>2, <1>3, <1>4, SlotMoveShapes DEF Throws
<1>10. CASE acknowledge(p) \/ reject(p)
  BY <1>10, <1>2, <1>3, <1>4
<1> QED
  BY <1>5, <1>6, <1>7, <1>8, <1>9, <1>10 DEF SlotStep

LEMMA SlotLease ==
    ASSUME TypeInv, LeaseInv, NEW p \in Slots, SlotStep(p) \/ SlotFault(p)
    PROVE  LeaseInv'
<1>1. SlotKind(local[p]) /\ p \in Procs
  BY DEF LeaseInv, Procs
<1>2. CASE acknowledge(p) \/ reject(p)
  <2>1. local[p].job \in Jobs
    BY <1>1, <1>2, SlotStepGoesOn DEF SlotStep
  <2> QED
    BY <1>2, <2>1, SlotReturnsLease DEF acknowledge, reject
<1>3. CASE (SlotStep(p) \/ Throws(p)) /\ ~acknowledge(p) /\ ~reject(p)
  <2>1. PICK l : Become(p, l) /\ SlotGoesOn(local[p], l)
    BY <1>1, <1>3, SlotStepGoesOn
  <2>2. ~At(p, "idle")
    BY <1>1, <1>3, SlotStepGoesOn
  <2>3. UNCHANGED <<entry, made, stalls, holder>>
    BY <1>3 DEF SlotStep, findUniqueByJobId, markRunning, markSubmissionProcessing,
       dispatch, dispatchThrows, markCompleted, markFailed, syncSubmissionStatus,
       syncRead, syncWrite, deadLetterJob, moveToDeadLetter, Throws, queueVars
  <2>4. faults' = faults \/ \E kind : Fault(kind)
    BY <1>3 DEF SlotStep, findUniqueByJobId, markRunning, markSubmissionProcessing,
       dispatch, dispatchThrows, markCompleted, markFailed, syncSubmissionStatus,
       syncRead, syncWrite, deadLetterJob, Throws
  <2> QED
    BY <2>1, <2>2, <2>3, <2>4, SlotMovesLease DEF SlotGoesOn
<1>4. ASSUME dropLock(p), Fault("crash") \/ Fault("stall")
      PROVE  StallCount'
  <2>1. /\ faults'.locks = faults.locks + 1 /\ faults.locks \in Nat
        /\ \A j \in Jobs : stalls[j] \in Nat
    BY <1>4 DEF Fault, FaultCounts, TypeInv, TypeOK, ServiceTypeOK, QueueTypeOK
  <2> QED
    BY <1>4, <2>1 DEF dropLock, StallCount, LeaseInv
<1>5. CASE Crash(p)
  <2>1. StallCount'
    BY <1>4, <1>5 DEF Crash
  <2>2. \A j \in Jobs :
          \/ holder'[j] = NoSlot
          \/ holder[j] # p /\ UNCHANGED <<entry[j], made[j], holder[j]>>
    BY <1>5 DEF Crash, dropLock
  <2>3. Leases' /\ \A q \in Slots : SlotKind(local[q])'
    BY <1>5, <2>2, SlotLeavesLease DEF Crash
  <2> QED
    BY <2>1, <2>3 DEF LeaseInv
<1>6. CASE LockExpires(p)
  <2>1. StallCount'
    BY <1>4, <1>6 DEF LockExpires
  <2>2. Leases' /\ \A q \in Slots : SlotKind(local[q])'
    BY <1>6, QueueAssumption DEF LockExpires, dropLock, LeaseInv, Leases, SlotKind, At
  <2> QED
    BY <2>1, <2>2 DEF LeaseInv
<1> QED
  BY <1>2, <1>3, <1>5, <1>6 DEF SlotFault

LEMMA TakeLease ==
    ASSUME TypeInv, LeaseInv, NEW p \in Slots, NEW j \in Jobs, take(p, j)
    PROVE  LeaseInv'
<1> DEFINE l == [local[p] EXCEPT !.pc = "lookup", !.kind = "run", !.job = j,
                                 !.sub = SubOf[j], !.att = made[j]]
<1>1. /\ local'[p] = l /\ \A q \in Slots : q # p => local'[q] = local[q]
      /\ At(p, "idle") /\ local[p] \in Locals
  BY DEF take, Become, TypeInv, TypeOK, ServiceTypeOK, Procs
<1>2. l.pc = "lookup" /\ l.kind = "run" /\ l.job = j /\ l.att = made[j]
  BY <1>1 DEF Locals
<1> HIDE DEF l
<1>3. /\ entry'[j] = "active" /\ holder'[j] = p /\ UNCHANGED <<made, stalls>>
      /\ \A i \in Jobs : i # j => UNCHANGED <<entry[i], holder[i]>>
  BY DEF take, takeEntry, TypeInv, TypeOK, QueueTypeOK
<1>4. Leases'
  <2> SUFFICES ASSUME NEW i \in Jobs, NEW q \in Slots, holder'[i] = q
               PROVE  /\ entry'[i] = "active"
                      /\ local'[q].pc # "idle"
                      /\ local'[q].job = i
                      /\ local'[q].att = made'[i]
    BY DEF Leases, At
  <2>1. CASE i = j
    BY <2>1, <1>1, <1>2, <1>3
  <2>2. CASE i # j
    BY <2>2, <1>1, <1>3 DEF LeaseInv, Leases, At
  <2> QED
    BY <2>1, <2>2
<1>5. \A q \in Slots : SlotKind(local[q])'
  BY <1>1, <1>2 DEF LeaseInv, SlotKind
<1>6. StallCount'
  <2>1. \A i \in Jobs :
          \/ UNCHANGED <<entry[i], holder[i], stalls[i]>>
          \/ /\ stalls'[i] = stalls[i] \/ stalls'[i] = 0
             /\ entry'[i] # "active" \/ holder'[i] # NoSlot
    BY <1>3, QueueAssumption
  <2> QED
    BY <2>1, StallsCounted DEF LeaseInv, take
<1> QED
  BY <1>4, <1>5, <1>6 DEF LeaseInv

LEMMA QueueStepLease ==
    ASSUME TypeInv, LeaseInv, NEW j \in Jobs, QueueStep(j)
    PROVE  LeaseInv'
<1>1. local' = local /\ faults' = faults /\ holder' = holder
  BY DEF QueueStep, Promote, Stalled, Evict
<1>2. /\ \A i \in Jobs : i # j => UNCHANGED <<entry[i], made[i], stalls[i]>>
      /\ entry'[j] # "active"
  BY DEF QueueStep, Promote, Stalled, Evict, TypeInv, TypeOK, QueueTypeOK
<1>3. holder[j] = NoSlot
  <2>1. entry[j] # "active" => \A p \in Slots : holder[j] # p
    BY DEF LeaseInv, Leases
  <2> QED
    BY <2>1 DEF QueueStep, Promote, Stalled, Evict, TypeInv, TypeOK, QueueTypeOK
<1>4. Leases'
  BY <1>1, <1>2, <1>3, QueueAssumption DEF LeaseInv, Leases, At
<1>5. \A q \in Slots : SlotKind(local[q])'
  BY <1>1 DEF LeaseInv, SlotKind
<1>6. StallCount'
  <2>1. stalls'[j] <= faults.locks
    BY DEF QueueStep, Promote, Stalled, Evict, LeaseInv, StallCount, TypeInv, TypeOK,
       QueueTypeOK, ServiceTypeOK, FaultCounts
  <2> QED
    BY <1>1, <1>2, <2>1 DEF LeaseInv, StallCount
<1> QED
  BY <1>4, <1>5, <1>6 DEF LeaseInv

LEMMA LeaseStep == TypeInv /\ LeaseInv /\ [Next]_vars => LeaseInv'
<1> SUFFICES ASSUME TypeInv, LeaseInv, [Next]_vars PROVE LeaseInv'
  OBVIOUS
<1>1. CASE UNCHANGED vars
  BY <1>1 DEF vars, queueVars, LeaseInv, Leases, SlotKind, StallCount, At
<1>2. CASE Next
  <2>1. Requests \subseteq Callers /\ Ticks \subseteq Callers
    BY DEF Callers
  <2> QED
    BY <1>2, <2>1, CallersLease, SlotLease, TakeLease, QueueStepLease DEF Next
<1> QED
  BY <1>1, <1>2

LEMMA LeaseCorrect == Spec => [](TypeInv /\ LeaseInv)
<1>1. Init => TypeInv /\ LeaseInv
  BY TypeInit, LeaseInit
<1>2. TypeInv /\ LeaseInv /\ [Next]_vars => TypeInv' /\ LeaseInv'
  BY TypeStep, LeaseStep
<1> QED
  BY <1>1, <1>2, PTL DEF Spec

-----------------------------------------------------------------------------
(* No job is lost *)

(***************************************************************************)
(* When no error escapes the processor's try block, nobody removes a dead  *)
(* letter and no more locks were lost than the stalled check forgives      *)
(* (Forgiven), a job that was added once is kept for good: it stays    *)
(* live in the queue until it has a result or a dead letter.  The          *)
(* invariant says who relies on it: every status row that left pending, a  *)
(* caller about to write queued, a slot about to write running or failed,  *)
(* and a slot about to use up the last attempt.                            *)
(***************************************************************************)
LossFree ==
    /\ "dlq" \notin Commands
    /\ "throw" \notin FaultKinds

Ended(j) == j \in result \/ DeadLettered(j)
KeptJobs == {j \in Jobs : Live(j) \/ Ended(j)}

KeptFor(p, l, kept, dead) ==
    /\ l.kind # "dlq" /\ l.pc # "dlqRemove"
    /\ l.pc = "add" => l.job \in Jobs
    /\ l.pc = "mark" \/ (p \in Slots /\ l.pc # "idle") => l.job \in kept
    /\ p \in Slots /\ l.pc = "nack" /\ isFinalAttempt(l) => l.job \in dead

KeptInv ==
    /\ \A j \in Jobs : jobStatus[j] \in {"none", "pending"} \/ j \in KeptJobs
    /\ \A j \in Jobs : entry[j] = "failed" => Ended(j)
    /\ \A p \in Procs : KeptFor(p, local[p], KeptJobs, deadLetter)

LEMMA KeptInit == Init => KeptInv
<1> SUFFICES ASSUME Init PROVE KeptInv
  OBVIOUS
<1>1. \A p \in Procs : KeptFor(p, local[p], KeptJobs, deadLetter)
  BY DEF Init, ServiceInit, KeptFor, Idle
<1> QED
  BY <1>1 DEF Init, QueueInit, ServiceInit, KeptInv

\* What a step that loses no job may do to the queue and to the tables.
Keeps ==
    /\ result \subseteq result' /\ deadLetter \subseteq deadLetter'
    /\ \A j \in Jobs :
         /\ Live(j) => Live(j)' \/ Ended(j)'
         /\ entry'[j] = "failed" => entry[j] = "failed" \/ Ended(j)'
         /\ jobStatus'[j] \in {"none", "pending", jobStatus[j]} \/ j \in KeptJobs'

LEMMA KeptStable ==
    ASSUME Keeps
    PROVE  KeptJobs \subseteq KeptJobs'
  BY DEF Keeps, KeptJobs, Ended, DeadLettered

LEMMA KeptByStay ==
    ASSUME KeptInv, Keeps, local' = local
    PROVE  KeptInv'
<1>1. KeptJobs \subseteq KeptJobs' /\ deadLetter \subseteq deadLetter'
  BY KeptStable DEF Keeps
<1>2. \A j \in Jobs : Ended(j) => Ended(j)'
  BY DEF Keeps, Ended, DeadLettered
<1>3. \A p \in Procs : KeptFor(p, local'[p], KeptJobs', deadLetter')
  BY <1>1 DEF KeptInv, KeptFor
<1>4. \A j \in Jobs : jobStatus'[j] \in {"none", "pending"} \/ j \in KeptJobs'
  BY <1>1 DEF KeptInv, Keeps
<1>5. \A j \in Jobs : entry'[j] = "failed" => Ended(j)'
  BY <1>2 DEF KeptInv, Keeps
<1> QED
  BY <1>3, <1>4, <1>5 DEF KeptInv

LEMMA KeptByMove ==
    ASSUME TypeInv, KeptInv, Keeps, NEW p \in Procs, NEW l, Become(p, l),
           KeptFor(p, l, KeptJobs', deadLetter')
    PROVE  KeptInv'
<1>1. KeptJobs \subseteq KeptJobs' /\ deadLetter \subseteq deadLetter'
  BY KeptStable DEF Keeps
<1>2. \A j \in Jobs : Ended(j) => Ended(j)'
  BY DEF Keeps, Ended, DeadLettered
<1>3. local'[p] = l /\ \A q \in Procs : q # p => local'[q] = local[q]
  BY DEF Become, TypeInv, TypeOK, ServiceTypeOK
<1>4. \A q \in Procs : KeptFor(q, local'[q], KeptJobs', deadLetter')
  BY <1>1, <1>3 DEF KeptInv, KeptFor
<1>5. \A j \in Jobs : jobStatus'[j] \in {"none", "pending"} \/ j \in KeptJobs'
  BY <1>1 DEF KeptInv, Keeps
<1>6. \A j \in Jobs : entry'[j] = "failed" => Ended(j)'
  BY <1>2 DEF KeptInv, Keeps
<1> QED
  BY <1>4, <1>5, <1>6 DEF KeptInv

\* A step that leaves the queue and the results alone and, of the statuses, writes
\* pending ones and those of kept jobs.
LEMMA SameQueueKeeps ==
    ASSUME UNCHANGED queueVars, result' = result,
           \A j \in Jobs : \/ jobStatus'[j] \in {"none", "pending", jobStatus[j]}
                           \/ j \in KeptJobs
    PROVE  Keeps
<1>1. \A j \in Jobs : Live(j)' = Live(j)
  BY DEF queueVars, Live
<1>2. KeptJobs' = KeptJobs
  BY DEF KeptJobs, Ended, DeadLettered, queueVars, Live
<1> QED
  BY <1>1, <1>2 DEF Keeps, queueVars

\* An entry that is added, or is there already, is of a kept job.
LEMMA AddKeeps ==
    ASSUME TypeInv, ResultInv, KeptInv, NEW k \in Jobs, enqueueAnalysisJob(k),
           UNCHANGED dbVars
    PROVE  Keeps /\ k \in KeptJobs'
<1>1. \A j \in Jobs : \/ entry'[j] = entry[j]
                      \/ entry[j] = "none" /\ entry'[j] = "waiting"
  BY DEF enqueueAnalysisJob, addIsNoOp, TypeInv, TypeOK, QueueTypeOK
<1>2. entry'[k] # "none"
  BY DEF enqueueAnalysisJob, addIsNoOp, TypeInv, TypeOK, QueueTypeOK
<1>3. UNCHANGED <<result, deadLetter, jobStatus>>
  BY DEF enqueueAnalysisJob, dbVars
<1>4. Keeps
  BY <1>1, <1>3 DEF Keeps, Live
<1>5. k \in KeptJobs'
  <2>1. entry'[k] \in {"waiting", "active", "delayed"} \/ Ended(k)
    BY <1>1, <1>2 DEF KeptInv, ResultInv, AckedHasResult, Ended, TypeInv, TypeOK,
       QueueTypeOK, EntryStates
  <2> QED
    BY <2>1, <1>3 DEF KeptJobs, Live, Ended, DeadLettered
<1> QED
  BY <1>4, <1>5

\* Where callers go on: no dead letter to remove, nothing to write that needs the
\* job to be kept.
Quiet(l) == l.kind # "dlq" /\ l.pc \notin {"dlqRemove", "mark", "add"}

LEMMA QuietShapes ==
    ASSUME NEW l \in Locals, l.kind # "dlq"
    PROVE  Quiet(Idle) /\ Quiet(Continue(l)) /\ Quiet(AfterError(l))
           /\ Quiet(AfterSync(l))
<1>1. Quiet(Idle)
  BY DEF Quiet, Idle
<1>2. Quiet(Continue(l))
  BY <1>1 DEF Quiet, Continue, Locals
<1>3. Quiet(AfterError(l))
  BY <1>1, <1>2 DEF AfterError
<1>4. Quiet(AfterSync(l))
  BY <1>1, <1>2 DEF AfterSync, Quiet, Locals
<1> QED
  BY <1>1, <1>2, <1>3, <1>4

LEMMA QuietKept ==
    ASSUME NEW c \in Callers, NEW l, Quiet(l), NEW kept, NEW dead
    PROVE  KeptFor(c, l, kept, dead)
  BY ServiceAssumption DEF Quiet, KeptFor

LEMMA CallerKept ==
    ASSUME LossFree, TypeInv, ResultInv, KeptInv, NEW c \in Callers, CallerStep(c)
    PROVE  KeptInv'
<1>a. /\ c \in Procs /\ c \notin Slots
      /\ local[c] \in Locals /\ Knows(local[c], result)
      /\ KeptFor(c, local[c], KeptJobs, deadLetter)
      /\ local[c].kind # "dlq"
  BY ServiceAssumption DEF Procs, TypeInv, TypeOK, ServiceTypeOK, ResultInv, KeptInv, KeptFor
<1>b. ASSUME NEW l, Quiet(l), Become(c, l), Keeps
      PROVE  KeptInv'
  BY <1>a, <1>b, QuietKept, KeptByMove
<1>c. \A label \in Labels \ {"dlqRemove", "mark", "add"} :
        Quiet([local[c] EXCEPT !.pc = label])
  BY <1>a DEF Quiet, Locals
<1>d. ASSUME NEW jobs \in SUBSET Jobs
      PROVE  Quiet(Continue([local[c] EXCEPT !.todo = jobs]))
  <2>1. /\ [local[c] EXCEPT !.todo = jobs] \in Locals
        /\ [local[c] EXCEPT !.todo = jobs].kind # "dlq"
    BY <1>a DEF Locals
  <2> QED
    BY <2>1, QuietShapes
<1>1. CASE enqueueForSubmission(c) \/ listOpenJobs(c)
  <2>1. Keeps
    BY <1>1, SameQueueKeeps DEF enqueueForSubmission, listOpenJobs, dbVars
  <2>2. PICK jobs \in SUBSET Jobs : Become(c, Continue([local[c] EXCEPT !.todo = jobs]))
    BY <1>1, <1>a DEF enqueueForSubmission, listOpenJobs, Enqueue, OpenJobs, JobsOf, Locals
  <2> QED
    BY <1>b, <1>d, <2>1, <2>2
<1>2. CASE resetStaleRunning(c)
  <2>1. Keeps
    BY <1>2, SameQueueKeeps DEF resetStaleRunning
  <2> QED
    BY <1>2, <1>b, <1>c, <2>1 DEF resetStaleRunning, Goto, Labels
<1>3. CASE retryCheckResult(c)
  <2>1. Keeps
    BY <1>3, SameQueueKeeps DEF retryCheckResult, dbVars
  <2>2. PICK label \in {"complete", "retryReset"} : Become(c, [local[c] EXCEPT !.pc = label])
    BY <1>3 DEF retryCheckResult, Goto
  <2> QED
    BY <1>b, <1>c, <2>1, <2>2 DEF Labels
<1>4. CASE retryResetJob(c)
  <2>1. local[c].job \in Jobs
    BY <1>4, <1>a DEF retryResetJob, At, TypeInv, HasJob, NeedsJob
  <2>2. Keeps
    BY <1>4, SameQueueKeeps DEF retryResetJob, TypeInv, TypeOK, ServiceTypeOK, TablesTypeOK
  <2> QED
    BY <1>4, <1>b, <1>d, <2>1, <2>2 DEF retryResetJob, Enqueue
<1>5. CASE enqueue(c)
  <2>1. PICK j \in local[c].todo :
          Become(c, Looked([local[c] EXCEPT !.job = j, !.sub = SubOf[j],
                                            !.todo = @ \ {j}]))
    BY <1>5 DEF enqueue
  <2> DEFINE m == [local[c] EXCEPT !.job = j, !.sub = SubOf[j], !.todo = @ \ {j}]
  <2>2. m \in Locals /\ m.kind # "dlq" /\ m.job \in Jobs
    BY <1>a, ServiceAssumption DEF Locals
  <2>3. Keeps
    BY <1>5, SameQueueKeeps DEF enqueue, dbVars
  <2> HIDE DEF m
  <2>4. Become(c, Looked(m))
    BY <2>1 DEF m
  <2>5. CASE Looked(m) = Continue(m)
    BY <1>b, <2>2, <2>3, <2>4, <2>5, QuietShapes
  <2>6. CASE Looked(m) = [m EXCEPT !.pc = "complete", !.next = "none"]
    <3>1. Quiet(Looked(m))
      BY <2>2, <2>6 DEF Quiet, Locals
    <3> QED
      BY <1>b, <2>3, <2>4, <3>1
  <2>7. CASE Looked(m) = [m EXCEPT !.pc = "add", !.next = "none"]
    <3>1. KeptFor(c, Looked(m), KeptJobs', deadLetter')
      BY <1>a, <2>2, <2>7 DEF KeptFor, Locals
    <3> QED
      BY <1>a, <2>3, <2>4, <3>1, KeptByMove
  <2> QED
    BY <2>5, <2>6, <2>7 DEF Looked
<1>6. CASE enqueueAdd(c)
  <2>1. local[c].job \in Jobs
    BY <1>6, <1>a DEF enqueueAdd, At, KeptFor
  <2>2. Keeps /\ local[c].job \in KeptJobs'
    BY <1>6, <2>1, AddKeeps DEF enqueueAdd
  <2>3. KeptFor(c, [local[c] EXCEPT !.pc = "mark"], KeptJobs', deadLetter')
    BY <1>a, <2>2 DEF KeptFor, Locals
  <2> QED
    BY <1>6, <1>a, <2>2, <2>3, KeptByMove DEF enqueueAdd, Goto
<1>7. CASE markQueued(c)
  <2>1. local[c].job \in KeptJobs
    BY <1>7, <1>a DEF markQueued, At, KeptFor
  <2>2. Keeps
    BY <1>7, <2>1, SameQueueKeeps DEF markQueued, TypeInv, TypeOK, ServiceTypeOK, TablesTypeOK
  <2> QED
    BY <1>7, <1>a, <1>b, <2>2, QuietShapes DEF markQueued
<1>8. CASE removeRetriedDeadLetter(c)
  BY <1>8, <1>a DEF removeRetriedDeadLetter, At, KeptFor
<1>9. CASE markCompleted(c)
  <2>1. local[c].job \in Jobs => local[c].job \in KeptJobs
    BY <1>9, <1>a DEF markCompleted, At, Knows, KeptJobs, Ended
  <2>2. Keeps
    BY <1>9, <2>1, SameQueueKeeps DEF markCompleted, TypeInv, TypeOK, ServiceTypeOK, TablesTypeOK
  <2> QED
    BY <1>9, <1>b, <1>c, <2>2 DEF markCompleted, Goto, Labels
<1>10. CASE syncRead(c)
  <2>1. Keeps
    BY <1>10, SameQueueKeeps DEF syncRead, dbVars
  <2>2. Quiet([local[c] EXCEPT !.pc = "syncWrite", !.next = NextStatus(local[c].sub)])
    BY <1>a DEF Quiet, Locals
  <2> QED
    BY <1>10, <1>b, <2>1, <2>2 DEF syncRead
<1>11. CASE syncWrite(c)
  <2>1. Keeps
    BY <1>11, SameQueueKeeps DEF syncWrite
  <2> QED
    BY <1>11, <1>a, <1>b, <2>1, QuietShapes DEF syncWrite
<1> QED
  BY <1>1, <1>2, <1>3, <1>4, <1>5, <1>6, <1>7, <1>8, <1>9, <1>10, <1>11
  DEF CallerStep, syncSubmissionStatus

LEMMA RequestKept ==
    ASSUME LossFree, TypeInv, KeptInv, NEW c \in Requests, RequestArrives(c)
    PROVE  KeptInv'
<1>a. c \in Procs /\ c \in Callers /\ local[c] \in Locals
      /\ KeptFor(c, local[c], KeptJobs, deadLetter)
  BY DEF Callers, Procs, TypeInv, TypeOK, ServiceTypeOK, KeptInv
<1>1. Keeps
  <2>1. UNCHANGED queueVars /\ result' = result
    BY DEF RequestArrives, createSubmissionWithJobs, recoverOpenJobs, retry,
       retryDeadLetterJob, dbVars
  <2>2. \A j \in Jobs : jobStatus'[j] \in {"pending", jobStatus[j]}
    BY DEF RequestArrives, createSubmissionWithJobs, recoverOpenJobs, retry,
       retryDeadLetterJob, dbVars
  <2> QED
    BY <2>1, <2>2, SameQueueKeeps
<1>2. \E l : Become(c, l) /\ Quiet(l)
  <2>1. ASSUME NEW s \in Submissions, createSubmissionWithJobs(c, s)
        PROVE  \E l : Become(c, l) /\ Quiet(l)
    <3>1. Quiet([local[c] EXCEPT !.pc = "list", !.kind = "create", !.sub = s])
      BY <1>a DEF Quiet, Locals
    <3> QED
      BY <2>1, <3>1 DEF createSubmissionWithJobs
  <2>2. ASSUME NEW timedOut, recoverOpenJobs(c, timedOut)
        PROVE  \E l : Become(c, l) /\ Quiet(l)
    <3> DEFINE stale == {j \in timedOut : jobStatus[j] = "running"}
    <3>1. Quiet([local[c] EXCEPT !.kind = "open", !.todo = stale,
                                 !.pc = IF stale = {} THEN "openList" ELSE "reset"])
      BY <1>a DEF Quiet, Locals
    <3> QED
      BY <2>2, <3>1 DEF recoverOpenJobs
  <2>3. ASSUME NEW j \in Jobs, retry(c, j) \/ retryDeadLetterJob(c, j)
        PROVE  \E l : Become(c, l) /\ Quiet(l)
    <3>1. Quiet([local[c] EXCEPT !.pc = "retryCheck", !.kind = "retry",
                                 !.job = j, !.sub = SubOf[j]])
      BY <1>a DEF Quiet, Locals
    <3> QED
      BY <2>3, <3>1 DEF retry, retryDeadLetterJob, LossFree
  <2> QED
    BY <2>1, <2>2, <2>3 DEF RequestArrives
<1> QED
  BY <1>a, <1>1, <1>2, QuietKept, KeptByMove

LEMMA TickKept ==
    ASSUME TypeInv, KeptInv, NEW c \in Ticks, NEW old, recoverZombieJobs(c, old)
    PROVE  KeptInv'
<1> DEFINE zombies == {j \in Jobs : jobStatus[j] = "pending" /\ SubOf[j] \in old}
           m == [local[c] EXCEPT !.kind = "tick", !.todo = zombies]
<1>1. c \in Procs /\ c \in Callers /\ local[c] \in Locals
  BY DEF Callers, Procs, TypeInv, TypeOK, ServiceTypeOK
<1>2. Keeps
  BY SameQueueKeeps DEF recoverZombieJobs, dbVars
<1>3. m \in Locals /\ m.kind = "tick"
  BY <1>1 DEF Locals, Kinds
<1>4. Become(c, Continue(m))
  BY DEF recoverZombieJobs
<1> HIDE DEF m
<1>5. Quiet(Continue(m))
  BY <1>3, QuietShapes
<1> QED
  BY <1>1, <1>2, <1>4, <1>5, QuietKept, KeptByMove

LEMMA CallerFaultKept ==
    ASSUME TypeInv, ResultInv, KeptInv, NEW c \in Callers, CallerFault(c)
    PROVE  KeptInv'
<1>a. /\ c \in Procs /\ local[c] \in Locals
      /\ KeptFor(c, local[c], KeptJobs, deadLetter)
  BY DEF Procs, TypeInv, TypeOK, ServiceTypeOK, KeptInv
<1>1. \E l : Become(c, l) /\ Quiet(l)
  <2>1. Quiet(Idle) /\ Quiet(AfterError(local[c]))
    BY <1>a, QuietShapes DEF KeptFor
  <2> QED
    BY <2>1 DEF CallerFault, enqueueAddFails, Abort
<1>2. Keeps
  <2>1. CASE UNCHANGED queueVars
    <3>1. UNCHANGED dbVars
      BY DEF CallerFault, enqueueAddFails, Abort
    <3> QED
      BY <2>1, <3>1, SameQueueKeeps DEF dbVars
  <2>2. CASE enqueueAddFails(c) /\ enqueueAnalysisJob(local[c].job)
    <3>1. local[c].job \in Jobs
      BY <2>2, <1>a DEF enqueueAddFails, At, KeptFor
    <3> QED
      BY <2>2, <3>1, AddKeeps DEF enqueueAddFails
  <2> QED
    BY <2>1, <2>2 DEF CallerFault, enqueueAddFails, Abort
<1> QED
  BY <1>a, <1>1, <1>2, QuietKept, KeptByMove

\* A busy slot that goes on with its job, at a label of the processor.
LEMMA SlotGoesKept ==
    ASSUME TypeInv, KeptInv, Keeps, NEW p \in Slots, ~At(p, "idle"),
           NEW l, Become(p, l), SlotGoesOn(local[p], l),
           l.pc \notin {"add", "mark", "dlqRemove"},
           l.pc = "nack" /\ isFinalAttempt(l) => l.job \in deadLetter'
    PROVE  KeptInv'
<1>1. p \in Procs /\ local[p].job \in KeptJobs
  BY DEF Procs, KeptInv, KeptFor, At
<1>2. KeptFor(p, l, KeptJobs', deadLetter')
  BY <1>1, KeptStable DEF KeptFor, SlotGoesOn
<1> QED
  BY <1>1, <1>2, KeptByMove

\* The last attempt of an entry is given up only over its dead letter: the slot
\* counts the attempts as the queue does.
LEMMA RejectKeeps ==
    ASSUME TypeInv, LeaseInv, KeptInv, NEW p \in Slots, reject(p)
    PROVE  Keeps
<1> DEFINE k == local[p].job
<1>1. /\ p \in Procs /\ local[p] \in Locals /\ k \in Jobs
      /\ isFinalAttempt(local[p]) => k \in deadLetter
  BY DEF Procs, TypeInv, TypeOK, ServiceTypeOK, HasJob, NeedsJob, KeptInv, KeptFor,
     reject, At
<1>2. UNCHANGED <<result, jobStatus, deadLetter>>
  BY DEF reject, moveToFailed, queueVars, dbVars
<1>3. \A j \in Jobs : \/ entry'[j] = entry[j]
                      \/ j = k /\ entry'[j] = "delayed"
                      \/ j = k /\ entry'[j] = "failed" /\ k \in deadLetter
  <2>1. CASE holder[k] = p
    <3>1. made[k] = local[p].att
      BY <1>1, <2>1 DEF LeaseInv, Leases
    <3>2. \/ entry' = [entry EXCEPT ![k] = "delayed"]
          \/ entry' = [entry EXCEPT ![k] = "failed"] /\ ~(made[k] + 1 < MaxAttempts)
      BY <2>1 DEF reject, moveToFailed
    <3>3. ~(made[k] + 1 < MaxAttempts) => isFinalAttempt(local[p])
      BY <1>1, <3>1, QueueAssumption DEF isFinalAttempt, TypeInv, TypeOK, QueueTypeOK
    <3> QED
      BY <1>1, <3>2, <3>3 DEF TypeInv, TypeOK, QueueTypeOK
  <2>2. CASE holder[k] # p
    BY <2>2 DEF reject, moveToFailed, queueVars
  <2> QED
    BY <2>1, <2>2
<1> HIDE DEF k
<1> QED
  BY <1>2, <1>3 DEF Keeps, Live, Ended, DeadLettered

LEMMA SlotKept ==
    ASSUME TypeInv, ResultInv, LeaseInv, KeptInv, NEW p \in Slots, SlotStep(p)
    PROVE  KeptInv'
<1>a. /\ p \in Procs /\ local[p] \in Locals /\ SlotKind(local[p])
      /\ Knows(local[p], result) /\ KeptFor(p, local[p], KeptJobs, deadLetter)
  BY DEF Procs, TypeInv, TypeOK, ServiceTypeOK, ResultInv, LeaseInv, KeptInv
<1>b. /\ ~At(p, "idle") /\ local[p].job \in Jobs
      /\ local[p].kind \in {"run", "reuse", "fail"}
  BY <1>a, SlotStepGoesOn
<1>c. local[p].job \in KeptJobs
  BY <1>a, <1>b DEF KeptFor, At
<1>d. ASSUME NEW label \in Labels \ {"idle", "add", "mark", "dlqRemove", "nack"},
             Goto(p, label), Keeps
      PROVE  KeptInv'
  <2>1. SlotGoesOn(local[p], [local[p] EXCEPT !.pc = label])
    BY <1>a, <1>b, SlotMoveShapes
  <2>2. [local[p] EXCEPT !.pc = label].pc = label
    BY <1>a DEF Locals
  <2> QED
    BY <1>b, <1>d, <2>1, <2>2, SlotGoesKept DEF Goto
<1>1. CASE findUniqueByJobId(p)
  <2>1. Keeps
    BY <1>1, SameQueueKeeps DEF findUniqueByJobId, dbVars
  <2>2. CASE Goto(p, "start")
    BY <1>d, <2>1, <2>2 DEF Labels
  <2>3. CASE Become(p, [local[p] EXCEPT !.pc = "complete", !.kind = "reuse"])
    <3>1. /\ SlotGoesOn(local[p], [local[p] EXCEPT !.pc = "complete", !.kind = "reuse"])
          /\ [local[p] EXCEPT !.pc = "complete", !.kind = "reuse"].pc = "complete"
      BY <1>a, <1>b, SlotMoveShapes DEF Locals
    <3> QED
      BY <1>b, <2>1, <2>3, <3>1, SlotGoesKept
  <2> QED
    BY <1>1, <2>2, <2>3 DEF findUniqueByJobId
<1>2. CASE markRunning(p) \/ markFailed(p) \/ markCompleted(p)
  <2>1. Keeps
    BY <1>2, <1>c, SameQueueKeeps
    DEF markRunning, markFailed, markCompleted, TypeInv, TypeOK, ServiceTypeOK, TablesTypeOK
  <2> QED
    BY <1>2, <1>d, <2>1 DEF markRunning, markFailed, markCompleted, Labels
<1>3. CASE markSubmissionProcessing(p)
  BY <1>3, <1>d, SameQueueKeeps DEF markSubmissionProcessing, Labels
<1>4. CASE dispatch(p)
  <2>1. Keeps
    BY <1>4 DEF dispatch, Keeps, queueVars, Live
  <2> QED
    BY <1>4, <1>d, <2>1 DEF dispatch, Labels
<1>5. CASE dispatchThrows(p)
  <2>1. Keeps
    BY <1>5, SameQueueKeeps DEF dispatchThrows, dbVars
  <2>2. SlotGoesOn(local[p], Caught(local[p]))
    BY <1>a, <1>b, SlotMoveShapes
  <2>3. /\ Caught(local[p]).pc \in {"fail", "nack"}
        /\ Caught(local[p]).pc = "nack" => ~isFinalAttempt(Caught(local[p]))
    BY <1>a DEF Caught, isFinalAttempt, Locals
  <2> QED
    BY <1>5, <1>b, <2>1, <2>2, <2>3, SlotGoesKept DEF dispatchThrows
<1>6. CASE syncRead(p)
  <2>1. Keeps
    BY <1>6, SameQueueKeeps DEF syncRead, dbVars
  <2> DEFINE l == [local[p] EXCEPT !.pc = "syncWrite", !.next = NextStatus(local[p].sub)]
  <2>2. SlotGoesOn(local[p], l) /\ l.pc = "syncWrite"
    BY <1>a, <1>b, SlotMoveShapes, NextStatusShape DEF Locals
  <2>3. Become(p, l)
    BY <1>6 DEF syncRead
  <2> HIDE DEF l
  <2> QED
    BY <1>b, <2>1, <2>2, <2>3, SlotGoesKept
<1>7. CASE syncWrite(p)
  <2>1. Keeps
    BY <1>7, SameQueueKeeps DEF syncWrite
  <2>2. SlotGoesOn(local[p], AfterSync(local[p]))
    BY <1>a, <1>b, SlotMoveShapes
  <2>3. AfterSync(local[p]).pc \in {"ack", "deadLetter"}
    BY <1>a, <1>b DEF AfterSync, Locals
  <2> QED
    BY <1>7, <1>b, <2>1, <2>2, <2>3, SlotGoesKept DEF syncWrite
<1>8. CASE deadLetterJob(p)
  <2>1. Keeps /\ local[p].job \in deadLetter'
    BY <1>8, <1>b DEF deadLetterJob, moveToDeadLetter, Keeps, Live, dbVars
  <2>2. SlotGoesOn(local[p], [local[p] EXCEPT !.pc = "nack"])
    BY <1>a, <1>b, SlotMoveShapes DEF Labels
  <2>3. [local[p] EXCEPT !.pc = "nack"].pc = "nack"
    BY <1>a DEF Locals
  <2> QED
    BY <1>8, <1>b, <2>1, <2>2, <2>3, SlotGoesKept DEF deadLetterJob, Goto, SlotGoesOn
<1>9. CASE acknowledge(p) \/ reject(p)
  <2>1. ASSUME acknowledge(p) PROVE Keeps
    <3>1. local[p].job \in result
      BY <2>1, <1>a DEF acknowledge, At, Knows
    <3>2. \A j \in Jobs : \/ entry'[j] = entry[j]
                          \/ j \in result /\ entry'[j] = "completed"
      BY <2>1, <3>1 DEF acknowledge, moveToCompleted, queueVars, TypeInv, TypeOK, QueueTypeOK
    <3>3. UNCHANGED <<result, jobStatus, deadLetter>>
      BY <2>1 DEF acknowledge, moveToCompleted, queueVars, dbVars
    <3> QED
      BY <3>2, <3>3 DEF Keeps, Live, Ended
  <2>2. Keeps
    BY <1>9, <2>1, RejectKeeps
  <2>3. KeptFor(p, Idle, KeptJobs', deadLetter')
    BY DEF KeptFor, Idle
  <2> QED
    BY <1>9, <1>a, <2>2, <2>3, KeptByMove DEF acknowledge, reject
<1> QED
  BY <1>1, <1>2, <1>3, <1>4, <1>5, <1>6, <1>7, <1>8, <1>9
  DEF SlotStep, syncSubmissionStatus

LEMMA SlotFaultKept ==
    ASSUME LossFree, TypeInv, KeptInv, NEW p \in Slots, SlotFault(p)
    PROVE  KeptInv'
<1>1. Crash(p) \/ LockExpires(p)
  BY DEF SlotFault, Throws, Fault, LossFree
<1>2. Keeps
  BY <1>1 DEF Crash, LockExpires, dropLock, dbVars, Keeps, Live
<1>3. CASE Crash(p)
  <2>1. p \in Procs /\ KeptFor(p, Idle, KeptJobs', deadLetter')
    BY DEF Procs, KeptFor, Idle
  <2> QED
    BY <1>2, <1>3, <2>1, KeptByMove DEF Crash
<1>4. CASE LockExpires(p)
  BY <1>2, <1>4, KeptByStay DEF LockExpires
<1> QED
  BY <1>1, <1>3, <1>4

LEMMA TakeKept ==
    ASSUME TypeInv, KeptInv, NEW p \in Slots, NEW j \in Jobs, take(p, j)
    PROVE  KeptInv'
<1> DEFINE l == [local[p] EXCEPT !.pc = "lookup", !.kind = "run", !.job = j,
                                 !.sub = SubOf[j], !.att = made[j]]
<1>1. p \in Procs /\ local[p] \in Locals
  BY DEF Procs, TypeInv, TypeOK, ServiceTypeOK
<1>2. entry'[j] = "active" /\ \A i \in Jobs : i # j => entry'[i] = entry[i]
  BY DEF take, takeEntry, TypeInv, TypeOK, QueueTypeOK
<1>3. UNCHANGED <<result, jobStatus, deadLetter>>
  BY DEF take, takeEntry, dbVars
<1>4. Keeps /\ j \in KeptJobs'
  BY <1>2, <1>3 DEF Keeps, Live, Ended, KeptJobs
<1>5. l.pc = "lookup" /\ l.kind = "run" /\ l.job = j /\ Become(p, l)
  BY <1>1 DEF take, Locals
<1> HIDE DEF l
<1>6. KeptFor(p, l, KeptJobs', deadLetter')
  BY <1>4, <1>5 DEF KeptFor
<1> QED
  BY <1>1, <1>4, <1>5, <1>6, KeptByMove

\* The stalled check always puts the entry back: its stalls are fewer than the
\* locks lost so far, and those no more than it forgives.
LEMMA QueueStepKept ==
    ASSUME Forgiven, TypeInv, ResultInv, LeaseInv, KeptInv, NEW j \in Jobs, QueueStep(j)
    PROVE  KeptInv'
<1>1. local' = local /\ UNCHANGED <<result, jobStatus, deadLetter>>
  BY DEF QueueStep, Promote, Stalled, Evict, dbVars
<1>2. \A i \in Jobs : i # j => entry'[i] = entry[i]
  BY DEF QueueStep, Promote, Stalled, Evict, TypeInv, TypeOK, QueueTypeOK
<1>3. CASE Stalled(j)
  <2>1. stalls[j] < MaxStalled
    <3>1. stalls[j] + 1 <= faults.locks /\ faults.locks <= MaxStalled
      BY <1>3 DEF Stalled, LeaseInv, StallCount, Forgiven
    <3> QED
      BY <3>1, QueueAssumption
      DEF TypeInv, TypeOK, QueueTypeOK, ServiceTypeOK, FaultCounts
  <2>2. entry'[j] = "waiting"
    BY <1>3, <2>1 DEF Stalled, TypeInv, TypeOK, QueueTypeOK
  <2> QED
    BY <1>1, <1>2, <2>2, KeptByStay DEF Keeps, Live
<1>4. CASE Promote(j)
  <2>1. entry'[j] = "waiting"
    BY <1>4 DEF Promote, TypeInv, TypeOK, QueueTypeOK
  <2> QED
    BY <1>1, <1>2, <2>1, KeptByStay DEF Keeps, Live
<1>5. CASE Evict(j)
  <2>1. entry'[j] = "none" /\ ~Live(j)
    BY <1>5 DEF Evict, Live, TypeInv, TypeOK, QueueTypeOK
  <2> QED
    BY <1>1, <1>2, <2>1, KeptByStay DEF Keeps, Live
<1> QED
  BY <1>3, <1>4, <1>5 DEF QueueStep

\* Locks that were lost stay lost.
LEMMA ForgivenBefore ==
    ASSUME TypeInv, [Next]_vars, Forgiven'
    PROVE  Forgiven
<1>1. faults' = faults \/ \E kind : Fault(kind)
  <2>1. CASE UNCHANGED vars
    BY <2>1 DEF vars
  <2>2. ASSUME NEW c \in Callers, CallerStep(c) \/ CallerFault(c)
        PROVE  faults' = faults \/ \E kind : Fault(kind)
    BY <2>2
    DEF CallerStep, enqueueForSubmission, resetStaleRunning, listOpenJobs,
        retryCheckResult, retryResetJob, enqueue, enqueueAdd, markQueued,
        removeRetriedDeadLetter, markCompleted, syncSubmissionStatus, syncRead,
        syncWrite, CallerFault, enqueueAddFails, Abort
  <2>3. ASSUME NEW c, RequestArrives(c) \/ \E old : recoverZombieJobs(c, old)
        PROVE  faults' = faults
    BY <2>3 DEF RequestArrives, createSubmissionWithJobs, recoverOpenJobs, retry,
        retryDeadLetterJob, recoverZombieJobs
  <2>4. ASSUME NEW p \in Slots, SlotStep(p) \/ SlotFault(p)
        PROVE  faults' = faults \/ \E kind : Fault(kind)
    BY <2>4
    DEF SlotStep, findUniqueByJobId, markRunning, markSubmissionProcessing, dispatch,
        dispatchThrows, markCompleted, markFailed, syncSubmissionStatus, syncRead,
        syncWrite, deadLetterJob, acknowledge, reject, SlotFault, Throws, Crash,
        LockExpires
  <2>5. ASSUME NEW j, QueueStep(j) \/ \E p : take(p, j) PROVE faults' = faults
    BY <2>5 DEF QueueStep, take
  <2> QED
    BY <2>1, <2>2, <2>3, <2>4, <2>5 DEF Next
<1> QED
  BY <1>1, LocksGrow, QueueAssumption DEF Forgiven

LEMMA KeptStep ==
    ASSUME LossFree
    PROVE  /\ TypeInv /\ ResultInv /\ LeaseInv
           /\ Forgiven => KeptInv
           /\ [Next]_vars
           => (Forgiven => KeptInv)'
<1> SUFFICES ASSUME TypeInv, ResultInv, LeaseInv, Forgiven => KeptInv, [Next]_vars,
                    Forgiven'
             PROVE  KeptInv'
  OBVIOUS
<1>0. Forgiven /\ KeptInv
  BY ForgivenBefore
<1>1. CASE UNCHANGED vars
  <2>1. Keeps
    BY <1>1, SameQueueKeeps DEF vars, dbVars
  <2> QED
    BY <1>0, <1>1, <2>1, KeptByStay DEF vars
<1>2. CASE Next
  <2>1. Requests \subseteq Callers /\ Ticks \subseteq Callers
    BY DEF Callers
  <2> QED
    BY <1>0, <1>2, <2>1, CallerKept, RequestKept, TickKept, CallerFaultKept, SlotKept,
       SlotFaultKept, TakeKept, QueueStepKept DEF Next
<1> QED
  BY <1>1, <1>2

\* No accepted job is lost, whatever requests, recoveries, evictions, failed attempts,
\* aborted callers, refused calls, crashes and expired locks do: it is stored,
\* pending, live in the queue or dead-lettered until more locks have been lost than
\* the stalled check forgives.  Dead letters are not removed and no error escapes the
\* try block.
THEOREM NeverLost ==
    ASSUME LossFree
    PROVE  Spec => []NoJobLost
<1>1. Init => (Forgiven => KeptInv)
  BY KeptInit
<1>2. /\ TypeInv /\ ResultInv /\ LeaseInv
      /\ Forgiven => KeptInv
      /\ [Next]_vars
      => (Forgiven => KeptInv)'
  BY KeptStep
<1>3. (Forgiven => KeptInv) => NoJobLost
  BY DEF KeptInv, KeptJobs, Ended, NoJobLost, Submitted
<1> QED
  BY <1>1, <1>2, <1>3, ResultCorrect, LeaseCorrect, PTL DEF Spec
=============================================================================
