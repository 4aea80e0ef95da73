# Verification of the analysis backend

The repository is a NestJS backend that analyzes files, URLs, domains and hashes. An API process accepts submissions and
stores them in PostgreSQL with one row per analysis job; the jobs travel through BullMQ (Redis) to worker processes that
run the analyzers and store results and IOCs; clients read the outcome back through the API. This directory holds TLA+
models of that core, the TLC configurations that check them on small instances, and proofs checked by TLAPS.

Source paths below are relative to `src/src/`; `prisma/` and `README.md` are those of the repository.

## 1. Inventory

| Component | State it keeps | Operations that change state | Talks to |
|---|---|---|---|
| Queue service (`infra/queue`) over BullMQ | analysis queue, dead-letter queue, locks | enqueueAnalysisJob, moveToDeadLetter, removeDeadLetterJob; BullMQ's own take, complete, fail, promote, stalled check, eviction | jobs service, processor |
| Jobs service, controller, recovery scheduler (`modules/jobs`) | `analysis_jobs`, `submissions.status` | enqueue, enqueueMany, retry, recoverZombieJobs, recoverOpenJobs, retryDeadLetterJob, markRunning, markCompleted, markFailed, syncSubmissionStatus | queue, PostgreSQL |
| Queue processor (`workers/analysis-queue.processor.ts`) | what an invocation carries across its awaits | process, dispatch, final-attempt handling | queue, jobs service, analyzers |
| Submissions service, controller (`modules/submissions`) | `submissions`, its unique index on (type, sha256) | create, createUrl, createFile, uploadFile | storage, jobs service |
| Storage, multipart (`infra/storage`, `multipart.util.ts`) | objects of the bucket; per request a parser, a hashing pipeline and a `putObject` joined by two bounded streams | parseMultipartUpload, uploadSubmissionStream | submissions, static and sandbox analyzers |
| Analyzers (`workers/*.worker.ts`) | none of their own | handle of static, sandbox, url and ai | results, IOCs, storage, Docker, Safe Browsing, language model |
| Sandbox executor (`workers/sandbox-executor.worker.ts`) | a temporary directory per attempt, a container per docker client | handle, runInContainer, finally | storage, Docker, results |
| Results, IOCs (`modules/results`, `modules/iocs`) | `analysis_results` (one per job), `iocs` (no unique index) | ResultsService.create, IocsService.create | analyzers |
| Analysis read model (`modules/analysis`) | none | getAnalysis (several queries), aggregates, planJobTypes | all tables |
| Notifications, socket gateway (`modules/notifications`) | socket rooms, what each client was last sent | subscribe, disconnect, emitToSubmission | submissions, jobs service, processor |
| Accounts (`modules/auth`, `modules/users`) | `users`, with unique indexes on email and username | register, login, loginWithGoogle, refresh | none of the above |
| Logging, correlation, serializers, search index, bootstrap | none that matters | | |

How they interact: every call between the parts is an `await`, so between any two of them every other request, interval
callback and worker slot runs. PostgreSQL and Redis are separate: no transaction spans both. A job is one row and one
queue entry whose id is the row's id.

What is hard:

* **Interleaving.** A worker can take, run and finish a job between `enqueueAnalysisJob` and the update to `queued`; two
  jobs of one submission finish together; the scheduler's interval fires while its last recovery still runs, next to
  operators; two clients submit one hash at once.
* **Stale reads.** `syncSubmissionStatus` writes a status computed from rows read before; `recoverOpenJobs` resets rows by
  id whatever they have become; `GET /analysis/:id` reads table after table.
* **Failure.** The API dies between the commit and the enqueueing; Redis refuses an add or loses its answer; a worker dies
  or loses its lock anywhere; an error escapes the processor's `try` block.
* **Processes outside the event loop.** A multipart body that stops anywhere, streams that fill up, an unhandled rejection that
  ends every request of the process, a container that outlives the client that started it, sockets of another process.
* **Retries.** Attempts, stalled runs, three recovery paths and the dead-letter queue all meet in `Queue.add`, which does
  nothing while an entry of that id is kept.

What makes each component correct: a job or submission is never reported complete without results, no job is forgotten or
run by two slots at once, and each accepted job is eventually resolved (queue, jobs, processor); one submission per hash,
with its jobs and its file (submissions); whole objects under their hash, every upload answered (storage); results with their
IOCs, no IOC doubled (analyzers); reports of whole artifacts, no directory left behind (sandbox); no client told of a result
that is not there, or left waiting (notifications); one account per e-mail (accounts); scores in range, severities and
summaries that agree, honest answers (scoring, read model). `PROJECT.json` lists the hazards line by line with the
properties that would catch them.

## 2. Modules

| Module | Models |
|---|---|
| `AnalysisQueue` | `analysis-queue.service.ts`, and BullMQ as the options passed to it define it |
| `JobsService` (extends `AnalysisQueue`) | `jobs.service.ts` and its callers: the request that creates a submission, the operators' endpoints, the scheduler |
| `QueueProcessor` (extends `JobsService`) | an invocation of the worker's processor, and how it fails |
| `JobPipeline` (extends `QueueProcessor`) | the composition, its fairness and its properties |
| `AnalysisContract` | what the pipeline promises to a reader: results are never lost, completed means stored |
| `RiskScoring` | the pure functions: points, caps, severities, the fallback summary, the aggregates |
| `AnalysisResults` (extends `RiskScoring`) | the four analyzers await by await, results, IOCs and the reader of `GET /analysis/:id` |
| `Submissions` (keeps to `UploadContract`) | the four creating endpoints, the unique index and the bucket |
| `UploadContract` | what streams and `create` agree on: a file is stored whole in one step, handed over after it, and stays |
| `ArtifactUpload` (implements `UploadContract`) | `multipart.util.ts` and `storage.service.ts`: client, parser, hashing pipeline and `putObject` side by side |
| `SandboxExecutor` | a sandbox attempt, its directory, docker client, timeout and container |
| `AnalysisStream` | which client hears of which change: rows of two processes, events, the room |
| `Accounts` | registration, both logins and refresh against the unique indexes |
| `<Module>Proofs` | the theorems about the module it is named after: `JobPipeline`, `RiskScoring`, `AnalysisResults`, `Submissions`, `ArtifactUpload`, `SandboxExecutor`, `AnalysisStream`, `Accounts` |
| `MCJobPipeline`, `MCAnalysisResults` | instances for TLC |
| `MCEndpoints` | `Submissions` and `Accounts`, the endpoints that race for a unique index, for TLC |
| `MCRiskScoring`, `MCComponents` | the components that share no state with the pipeline, for TLC |

### State and actions against the code

**Queue.** `entry[j]` is the BullMQ state of the entry with job id `j`, `made[j]` its `attemptsMade`, `stalls[j]` its
stalled counter, `holder[j]` the slot that owns its lock, `deadLetter` the second queue, which has no worker. Order inside
a queue is not modelled: no property observes it, and fairness says that waiting entries are reached. `enqueueAnalysisJob`
is `Queue.add` with a job id: a no-op while an entry is kept in any state. `Evict` is `removeOnComplete`/`removeOnFail`
pushing an entry out. An entry whose lock is gone is retried by `Stalled` up to `MaxStalled` times and then failed without
a call of the processor. `faults` counts what has gone wrong, locks that were lost (`locks`: a dead or a stalled worker) apart
from failing calls and deaths of the API (`calls`), because BullMQ only forgives so many of the former.

**Jobs service.** `jobStatus` and `submissionStatus` are the two status columns, `result` the jobs with a row in
`analysis_results`. `local[p]` is what handler `p` carries across its awaits (`pc` names the await it is at): the list left
to enqueue (`todo`), the status it will write (`next`), the attempt it saw (`att`). One action is the code between two
awaits; reads that nothing can tell apart from one read are one step, and the comment at the action says why. An error of
`Queue.add` (`enqueueAddFails`) either happens before or after the entry was made. `Abort` is the death of the API process
under a handler.

**Processor.** `take`, `findUniqueByJobId`, `markRunning`, `dispatch`, the marking of success and failure, `acknowledge` and
`reject` follow `processWithCorrelation`. `Throws` is a failing query or Redis call; where the error goes is decided by the
region of the code it comes from (`OuterRegion`, `TryRegion`, `CatchRegion`). `Crash` ends the slot, `LockExpires` lets it go
on without its lock.

**Results.** `sample` is the submission and what its file or URL looks like, `results[j]` the stored row of a job, `iocs` the
number of rows per IOC type. A summary copies severity and score of the static report it found, or of none; the `riskScore`
in its data is that of the same report if the code wrote it, and anything (`AnyQuote`) if it is JSON that a language model
answered with. The pipeline appears only through what `AnalysisContract` promises (`markCompleted`,
`syncSubmissionStatus`, `reopen`), so `AnalysisResults` is checked against every behaviour the contract allows. Three theorems
close the circle: the pipeline implements the contract (`JobPipelineProofs!ContractImplemented`, run `submission`), the
analyzers keep to it (`ContractObserved`, property `ContractSteps` of run `results`), and every step it allows around the
analyzers is one of `AnalysisResults` (`ContractCovered`). A slot only takes a job that another slot runs after a lock expiry, which
is a counted fault. `view` is a reader between the queries of `getAnalysis`.

**Submissions.** A submission and an object key are named by the request that made them, both being fresh UUIDs. `rows` are
the committed submissions, `jobs` the job types committed with them, `objects` the keys that hold a file. The transaction is
one step that finds the unique index free or ends in P2002; `transactionFails` also covers a commit whose answer is lost, and
`uploadFails` a file that was stored although the answer of the storage was lost. What `create` answers with is a look-up of
its own after the commit: `enqueueJobsForSubmission` finds the jobs that are pending or queued, and of those that a recovery and
a worker have taken on meanwhile (`takenOn`, recorded in `begun`) it may find any. Storing is one step here; `ArtifactUpload`
takes it apart and shows that nothing else can be seen of it. The two meet in `UploadContract`: `ArtifactUpload` implements it up
to the hand-over (`UploadContractSpec`), `Submissions` takes no step with an upload that it does not allow
(`UploadsKeepContract`), so storing in one step is no simplification of its own.

**Upload.** `upload[u]` is one request: `next` and `left` what its client sends next, `source` and `buffered` the parser's file
stream, `hashed - taken` the blocks between hasher and `putObject`, `put` the latter's promise; `bucket[u]` counts the blocks of
the object, so a part of a file can be told from the whole. Both streams hold `HighWater` blocks; a full one stops its writer,
and through it the parser and the client. The body may break off (`onError`) or its connection go away (`ClientGone`), after which
no callback of the parser ever runs. `checkUserId` is a microtask after the file part's header and sees the fields that came so
far. `putFails` before `putObject` is awaited is an unhandled rejection, which is `Die` for every upload of the process.

**Sandbox.** `attempt[a].pc` is the await `handle` is at, `dirs` and `artifact` the temporary directory and what the pipeline
has written into it, `container[a].saw` what the container found when it read its mount. `Leave` is every way out of the `try`
block: the `finally` block removes the directory, and the result that is being returned is stored after that. `execFile`'s
timeout ends nothing by itself: it signals the docker client, which passes the signal on and stays attached until the container
is gone, and only then does the wait end. So `timeoutKills` is the container giving in, and neither it nor `containerExits` has
fairness; `clientCloses` ends the wait. A client that is lost (`clientLost`) leaves its container running, and so does
`WorkerDies`, which ends every attempt and removes nothing.

**Notifications.** `row` are the status columns, `due` the events that handlers of the API have yet to publish after their
update, `heard[c]` the last status client `c` was sent of each subject. Handlers of the workers change rows and tell nobody: a
worker is an application context without a socket server. Which writes can overlap follows `JobsService`; its queue is replaced
by the weaker fact that a job ever added may be started at any time. `computed` are the statuses the jobs have called for so far:
any of them may be in the hands of a sync that has read the jobs and not yet written, however many rows have changed since, so
every order of overlapping syncs is explored without a bound on their number.
`unwritten` is a history variable.

**Accounts.** `accounts` are the requests whose row is committed, `auth[r]` what request `r` was sent and carries. `usersCreate`
finds both indexes free or throws P2002. Equal passwords stand for a hash that verifies, a token for the account in its claim.

**Scoring.** A file or URL is the set of findings the scores tell apart; the pattern matching behind a finding is abstracted.
Scores are the integers the code adds up before it divides by 100.

## 3. Runs

| Run | Instance | Checks | States |
|---|---|---|---|
| `all_faults` | 1 job, 2 slots, 1 request, 1 tick, recover and dead-letter retry, 1 fault of any kind | `TypeOK`, `CompletedHasResult`, `AckedHasResult` | 3.3 M |
| `submission` | 2 jobs of one submission, 2 slots, 1 attempt, 1 crash or abort | `SubmissionCompletedHasResults`, `ContractSpec` (refinement) | 3.1 M |
| `operated` | 1 job, 2 slots, 1 request, 2 ticks, retry and recover, 2 faults of abort, redis, crash | `NoDoubleRun`, `NoRework`, `NoJobLost` | 3.2 M |
| `resolved` | `FairSpec`, 1 job, no operator, 2 faults | `Resolved` (liveness) | 0.09 M |
| `reported` | `OperatedSpec`, 1 job, 2 slots, recover, 1 fault but stall | `EventuallyReported` (liveness) | 0.17 M |
| `endpoints` | 3 requests of any endpoint, 2 contents, 1 fault or 1 job taken on by others; or 3 account requests, 1 fault | `TypeOK`, `SameHashSameSubmission`, `ShownWithJobs`, `NoConflictShown`, `UploadRowHasFile`, `UploadsKeepContract` (refinement); `AuthTypeOK`, `SameEmailSameAccount`, `LoginNeedsPassword` | 2.5 M |
| `results` | 6 kinds of submission, 2 slots, 1 failure, 1 expired lock | `TypeOK`, `ResultHasIocs`, `NoDuplicateIocs`, `ViewHonest`, `AggregateWithinMax`, `SummaryOfStatic`, `ContractSteps` (steps of the contract) | 1.7 M |
| `components` | all findings of a file with a three-part name, and of a URL; 2 uploads of 6 bodies; 1 job, 1 client; 2 sandbox attempts; 1 fault each | see below | 0.26 M |

`components` checks four components that share neither state nor calls. Variable `about` says which of them a behaviour is about
and never changes; the others stay in their initial state, so no product of unrelated states is built and each component is
explored as if alone. In that initial state nothing is enabled that fairness asks for.

| About | Invariants | Action and liveness properties |
|---|---|---|
| `scoring` | `ScoresAgree` | `NeverLower` |
| `upload` | `UploadTypeOK`, `StoredWhole`, `HashOfStored` | `UploadAnswered` (liveness), `UploadContractSpec` (refinement) |
| `stream` | `StreamTypeOK`, `CompletedHeardHasResult` | `PendingIsHeard` (liveness) |
| `sandbox` | `SandboxTypeOK`, `DirsOwned`, `ReportOfWholeFile` | `AttemptEnds` (liveness) |

Bounds and why they are enough:

* `MaxAttempts` is 2 where the code has 3: one attempt that is retried and one that is final are all the code tells apart.
  `submission` has one attempt, because it is about two jobs that end, not about how often they are tried.
* `MaxStalled` is 1 everywhere: the processor sets `concurrency` and nothing else, so `maxStalledCount` is BullMQ's default.
  Two workers may die in `operated` and `resolved`, and then the stalled check fails the entry with no call of the processor:
  the job stays `running` with no dead letter. `NoJobLost` and `Resolved` end their claim there (`Forgiven`: no more locks
  were lost than are forgiven one entry); with it dropped TLC finds that job.
* Two slots are enough for two invocations of one job or of two jobs; one request and one tick are two concurrent callers.
  A finished caller may start again, so their number is a bound on concurrency, not on how many calls are made.
* `HighWater` is 1 block and the longest body has 3: longer than both streams together, so each of them is full with the client
  still sending. Two uploads are needed for one to take the other down. `WithStorage` is TRUE in TLC; without storage there is
  no `putObject` and less can happen, and the theorems cover both values.
* One job that others take on before `create` lists the jobs counts against `MaxFaults` of `endpoints`, to bound it.
* `MaxDue` 2 lets one handler publish two events, or two handlers overlap with one each. One job and one client suffice because
  each property is about one client and one job; the theorem is for any number.
* Three account requests are two that race for an account and one that logs in to it; two e-mails, usernames and passwords each
  allow both the right and the wrong one.
* `MaxFaults` bounds the faults of a behaviour. Each fault leaves handlers, rows and entries in states that the following
  handlers meet in every order; the safety theorems below hold for any number.
* `PROJECT.json` says of every property which plausible bug of the code it catches under these bounds: each has a mutant of a
  definition, kept in the modules and marked as such, under which TLC reports the property violated.

Deadlock is checked in the runs of the pipeline and of `AnalysisResults`. Elsewhere the system really stops (`CHECK_DEADLOCK
FALSE`): requests of `MCEndpoints` and the parts of `MCComponents` come to an end, and an upload whose client is gone waits for
ever, which is what the code does. Slots, and requests and contents of `Submissions`, are symmetric; the liveness runs use no
symmetry.

### Where documentation and code disagree

These runs are expected to fail, each with one property that states what a document or comment of the repository says.

| Run | Says | Does |
|---|---|---|
| `doc_processing` | README.md:102: processing means that a job is queued or running | The sync that read first may write last: two jobs that finish together leave the submission processing for ever |
| `doc_dlq_retry` | jobs.controller.ts:103: a dead letter's retry puts the job in the queue again | The failed entry is still kept, so the add does nothing; then the dead letter is removed |
| `doc_upload` | submissions.controller.ts:48: an upload stores the file and makes its submission | If a metadata submission has the hash, the upload is answered with that one, whose key holds no file |
| `doc_user_id` | submissions.controller.ts:74: 400 when the field user_id is missing | The fields are looked at when the file part begins: a user_id that follows the file, as in the order of the body's own schema, may be refused as missing |

Seen by reading while modelling, without a run: `recoverJobs` never syncs the submission, which stays `accepted` while its jobs
are in Redis (README.md:101); a metadata submission gets a fresh object key, so a file uploaded before it is never the one it
names (submissions.controller.ts:83); a known hash under another type makes a new submission (submissions.controller.ts:32); an
AI summary made before the static report is stored keeps a score of 0 (ai-analyzer.worker.ts:27); a failing query while a valid
URL's domain is saved is swallowed as an invalid URL (url-analyzer.worker.ts:56); an error outside the processor's `try` block,
or inside its `catch` block, on the last attempt skips the dead-letter list (jobs.controller.ts:82 says that exhausted jobs are
on it). README.md:171 shows an update with status `running`, but only workers publish that status and a worker's
`gateway.server` is undefined, so no client hears it, nor of anything else a worker does; a client also misses a job whose
enqueueing is cut off between the add and the update (jobs.service.ts:144). The stalled check fails an entry whose worker dies
twice, and nobody dead-letters it: its job stays `running` (analysis-queue.processor.ts:20 sets no `maxStalledCount`).
README.md:193 asks for a timeout kill of the sandbox, but `execFile` only signals the docker client and waits on, and the
container's first process may ignore the signal it is passed; `containerId` is never assigned (sandbox-executor.worker.ts:86),
so a container that outlives its client is never removed; and docker's `run` has no `--timeout` option, so a client that refuses
it ends every run in the fallback. The model allows all of these. Google's display name is taken for the unique username, so two
people of one name cannot both sign in (google.strategy.ts:28).

### Fairness

Safety runs assume none. `FairSpec` assumes: a started handler goes on (weak fairness of `CallerStep` and `SlotStep`: the event
loop runs every continuation, and analyzers return); the scheduler's interval keeps firing and every submission becomes old
enough (strong fairness of `recoverZombieJobs` with all submissions, because a tick may be busy in between); each waiting entry
is reached (strong fairness of `take` per job, because slots come and go and the queue is first in first out); BullMQ promotes
delayed entries and runs its stalled check (weak). `OperatedSpec` adds an operator who calls `POST /jobs/queue/recover` again
and again, also after every timeout. Nothing is assumed of clients, evictions or faults; `throw` is not a fault of `operated`
and `resolved`, because an error outside the `try` block, or inside the `catch` block, on the last attempt really does strand
the job. `NoJobLost`, `Resolved` and `EventuallyReported` are checked without the dead-letter endpoint: its removal comes
several awaits after its look-up and may take away a newer dead letter than the one retried.

The `FairSpec` of `MCComponents` joins three assumptions. `UploadFairness`: a client that stays sends on, the event loop runs
every callback, `putObject` settles once it has all its input; a client may go away at any time, and then nothing is claimed.
`SandboxFairness`: storage, the docker client and the database answer; nothing is assumed of a container, not even that it stops
when told to, so `AttemptEnds` leaves out the attempt whose container runs for ever. `StreamFairness`: the scheduler comes to
every pending job, and a handler that has added a job writes its row and publishes it. Strong fairness of the write makes up for
`MaxDue`, a bound of the model that may disable it again and again; in the code nothing does. No run with liveness uses
symmetry.

## 4. Proofs

The theorems hold for every value of the constants under the assumptions named in the modules (`QueueAssumption`,
`ServiceAssumption`, `SubmissionsAssumption`, `ResultsAssumption`, `UploadAssumption`, `SandboxAssumption`, `StreamAssumption`,
`AccountsAssumption`): disjoint sets of processes, natural numbers where numbers are meant. Sets need not be finite.

**`JobPipelineProofs`.** `TypeCorrect`; `CompletedSafe`, `SubmissionCompletedSafe`, `AckedSafe`; `SingleRun`, `NeverReworked`;
`NeverLost`; `ContractImplemented`.

* `TypeInv` is `TypeOK` with the fact that a slot at work has a job (`HasJob`).
* `CompletedHasResult` is not inductive: a handler about to write `completed` must know that the result is there.
  `ResultInv` adds `Knows`: whatever label stands for "the result exists" (about to mark complete, to acknowledge, to write a
  `completed` submission status computed earlier) holds in the results of now. Results only grow, so what a handler knew
  before an await is still true after it: that is why a stale read is harmless here.
* `NoDoubleRun` needs `LockInv`: a slot at work holds the lock of an active entry of its job, so another slot finds nothing
  waiting. It holds while no live slot loses its lock (`"stall" \notin FaultKinds`); with expired locks the property claims
  nothing, and overlapping runs do occur. `NoRework` follows from the same invariant: only the lock's owner stores the result.
* `NeverLost` has a hypothesis on the constants, `LossFree`: no operator retries a dead letter and no error escapes the
  processor's `try` block. `NoJobLost` itself claims nothing once more locks were lost than the stalled check forgives
  (`Forgiven`), which the number of faults does not exclude. Each of the three is needed: without it TLC finds a job that is
  lost, because that is what the code (or BullMQ's stalled check) then does. `operated` is an instance of it. Two invariants
  carry the proof. `LeaseInv`, for every configuration, follows the locks: whoever holds one is a slot at work on that entry
  (`Leases`), the kind of work of a slot is known from the step it is at (`SlotKind`), and the stalls of an entry and the lock
  it has just lost are paid for by lost locks (`StallCount`), so the stalled check fails no entry while `Forgiven` holds, which
  it does up to the first step that breaks it (`ForgivenBefore`). `KeptInv` follows a job: once added it is kept, live in the
  queue or ended with a result or a dead letter, and everybody whose next step relies on that (a caller about to write `queued`,
  a slot at work, a slot about to use up the last attempt) is about a kept job; `KeptStable` is that no other step loses a kept
  one. What is invariant is `Forgiven => KeptInv` (`KeptStep`).
* `ContractImplemented` is `Spec => ContractSpec`, the refinement that `submission` checks on an instance. The contract only reports
  for accepted submissions, so a handler must not touch a job of a submission that is not there: `AcceptedInv` says that whatever
  has a row, an entry, a dead letter or a handler at work belongs to an accepted submission. Each action is then shown to have one
  of six effects on the tables (`Tables`: a submission is created, a job is written or reset, a submission is written, a result
  is stored, or nothing), and each effect to be a step of the contract or a stutter (`TablesContract`), which needs `ResultInv`
  where a status becomes `completed`.

**`SubmissionsProofs`.** `RowsInv` says what committed rows have in common (one per type and hash, with the jobs of the type);
`RequestInv` what a request may believe about them: after P2002 the row it lost to exists, what it was shown is a row of its own
type and hash. `OneSubmissionPerHash` and `RaceLoserReuses` follow, and `JobsShown` with `BegunInv`: what an answer of `create`
lacks are jobs that others took on. `begun` is left out of all but that proof (`RequestsTypeOK`, `ServiceNext`). `FileInv` adds
that an upload past its storing has its file, which gives `UploadsKeepFiles`. `ContractKept` is the refinement `Spec =>
UploadsKeepContract`. It needs `RouteInv`, that only an upload ever reaches the storage: each step then moves the mapped label
of one request the way the contract does (`Kept`, `OneRequest`), and a crash fails every request but those that were answered.

**`AnalysisResultsProofs`.** `SlotInv` ties the step an analyzer is at to the IOCs it has saved; `StoredInv` and `ShownInv` give
`ResultsHaveIocs` and `ViewsHonest`, overlapping runs included: jobs are read before results, and results stay. `AloneInv`,
valid until a lock expires, says that what a slot found in a table before an await still holds, from which `IocsNotDoubled` and
`SummariesOfStatic` follow; the latter is about severity and score whoever wrote the summary, and about the quoted `riskScore`
where the language model did not. `ReportsInv` says that a scored report has the severity its score calls for, in the slots, in
the table and in what the reader has read; with `AggregateSeverity` below it gives `AggregatesWithinMax`, for every answer and
with overlapping runs. `ContractObserved` rests on `PlannedInv` (only planned jobs are run and stored); `ContractCovered` is its
converse for the steps of the pipeline.

**`RiskScoringProofs`.** Ranges of the three scores, `SeverityMonotone`, and the agreement of the fallback summary with the
severity at every integer. The aggregate of a set of results is a fold, about which the library proves nothing and whose induction
theorems no prover here can apply. The proofs get around it with a least counterexample: the fold is a function on the finite
subsets (`SumIsTotal`), a bound that fails for one of them fails for a smallest one (`LeastNumber`), and that one cannot be,
because taking one result out of it leaves a smaller failure. So `TotalBounds`, `AggregateAtMostHighest` (the rounded mean of any
finite set of results is at most their highest score) and `AggregateSeverity` hold for sets of any size, where `results`
only meets sets of at most three. `ScoresAlwaysAgree` and `ScoresNeverLower` are about the walk through the findings:
`InputsOK` keeps the inputs well formed, and each kind of finding is shown to grow the points it counts for
(`StaticRiskGrows`, `UrlRiskGrows` and the lemmas before them, for every file and URL and not only those the walk meets).

**`ArtifactUploadProofs`.** Uploads meet only in a crash, so the invariant is a predicate of one request and its object:
`ParserOK` (where the parser is, and what that says of the file stream), `BlocksOK` (no block is lost: sent, buffered and hashed
add up to the file until the stream breaks), `LabelOK` (where `uploadFile` is) and `ObjectOK` (an object is made of a stream that
ended). From it follow `ObjectsWhole`, `HashIsOfObject` and the refinement `ContractImplemented`, for every size of file and
high-water mark: each step moves the mapped label of one request the way `UploadContract` does, and a crash or an unhandled
rejection is the contract's `Crash` or `Fail`; the requests it handed over stay so, since what `create` does next is not its own.

**`SandboxExecutorProofs`.** `AttemptInv` says in which steps an attempt owns its directory, and that its container can only have
exited while the attempt still waited if it read the whole artifact. `DirectoriesOwned`, `ReportsWhole`.

**`AnalysisStreamProofs`.** Whatever carries a status, a row, an event or a client's memory, is vouched for by the results of now
(`RowsVouched`, `ComputedVouched`, `DueVouched`, `HeardVouched`); results only grow, so a status may be written, and an event
published, as late as it likes.
`CompletedIsTrue`.

**`AccountsProofs`.** `AuthInv`: committed accounts have different e-mails, and the account a request has found exists and has
its e-mail and, past the comparison, its password. `OneAccountPerEmail`, `PasswordNeeded`.

Only model-checked: `Resolved`, `EventuallyReported`, `UploadAnswered`, `PendingIsHeard` and `AttemptEnds`. They are liveness under
fairness, which is outside the prover. Every safety invariant and every action property that a passing run checks is stated by a
theorem.

## 5. Not modelled

* What a multipart body says beyond its `user_id` and its file: other fields, and a second file part, which is ignored.
* Bytes: a file is a number of blocks, a hash stands for what was hashed, a container's output for what it read. Pattern matching
  is abstracted to the findings the scores tell apart.
* Password hashing, token signing and the guards of the endpoints: library calls, taken at their word.
* The order of two events on one socket is that of their publication; delivery by socket.io is not taken apart.
* Logging, correlation ids, serializers, the search index, the read-only look-ups and the bootstrap: without state, or pure
  conversions of finished answers.
* Analyzers that never return: the fairness of `resolved` assumes that they do.
* `createForSubmission` and `createPendingJob` of the jobs service have no caller.

## 6. Plan

Done: every component that changes state has its module; the pipeline and the upload are shown and proved to implement their
contracts; the analyzers are proved to observe theirs and to be covered by it, `create` to keep the upload's; all safety properties
of the runs are theorems.

Next:

1. The event stream over the real queue of `JobsService` instead of its abstraction, should the state space allow; or a proof that
   the rows of the pipeline only change as `AnalysisStream` lets them.
2. The safety half of `Resolved`: that a job without a result always has a step of the queue or the scheduler ahead of it.

How to run: `tlc -config <run>.cfg <module>` for the module named in `PROJECT.json`, `tlapm <module>Proofs.tla` for the proofs.
