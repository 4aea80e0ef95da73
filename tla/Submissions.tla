----------------------------- MODULE Submissions -----------------------------
(***************************************************************************)
(* src/modules/submissions/submissions.service.ts: the requests that       *)
(* create a submission or find the one that already exists, with the       *)
(* unique index on (type, sha256) and the bucket of uploaded files.        *)
(*                                                                         *)
(* A submission and an object key are named by the request that created    *)
(* them: both are fresh UUIDs.  Of enqueueing only its look-up is here,    *)
(* whose jobs the answer lists; JobsService takes the rest apart.          *)
(***************************************************************************)
EXTENDS Naturals

CONSTANTS
    Requests,           \* requests of the four creating endpoints
    Contents,           \* file contents, each with its own sha-256
    NoSha,              \* a request without the optional sha256
    NoRequest,
    Routes,             \* endpoints in use, a subset of AllRoutes
    StorageConfigured,  \* the MINIO_* variables are set
    MaxFaults           \* failing calls, crashes and jobs taken on by others

AllRoutes == {"create", "url", "file", "upload"}
Types == {"file", "url", "domain", "hash"}

ASSUME SubmissionsAssumption ==
    /\ NoSha \notin Contents /\ NoRequest \notin Requests
    /\ Routes \subseteq AllRoutes
    /\ StorageConfigured \in BOOLEAN
    /\ MaxFaults \in Nat

VARIABLES
    rows,      \* the requests whose submission is committed, with its jobs
    jobs,      \* the job types of each committed submission
    objects,   \* the object keys that hold a file
    local,     \* what each request carries across its awaits, and its answer
    begun,     \* the jobs of each submission others took on before create listed them
    faults

vars == <<rows, jobs, objects, local, begun, faults>>

JobTypes == {"static_analysis", "sandbox", "url_scan", "ai_summary"}

\* Mutant: a job type the queue has no worker for.
planUnknownJobTypes(type) == {"url_scan", "summary"}
planJobTypes(type) ==
    IF type = "file" THEN {"static_analysis", "sandbox", "ai_summary"}
                     ELSE {"url_scan", "ai_summary"}

Labels == {"new", "upload", "stored", "find", "insert", "findAgain", "enqueue", "reply",
           "done"}
Outcomes == {"none", "created", "reused", "rejected", "error", "conflict"}

\* content: the file behind the request, with its hash in sha unless that was left
\* out.
Locals == [pc : Labels, route : AllRoutes \cup {"none"}, type : Types \cup {"none"},
           content : Contents, sha : Contents \cup {NoSha},
           outcome : Outcomes, shown : Requests \cup {NoRequest},
           shownJobs : SUBSET JobTypes]

RequestsTypeOK ==
    /\ rows \subseteq Requests
    /\ jobs \in [Requests -> SUBSET JobTypes]
    /\ objects \subseteq Requests
    /\ local \in [Requests -> Locals]
    /\ faults \in Nat

TypeOK == RequestsTypeOK /\ begun \in [Requests -> SUBSET JobTypes]

Init ==
    /\ rows = {} /\ objects = {}
    /\ jobs = [r \in Requests |-> {}]
    /\ local \in [Requests ->
         {[pc |-> "new", route |-> "none", type |-> "none", content |-> c,
           sha |-> NoSha, outcome |-> "none", shown |-> NoRequest,
           shownJobs |-> {}] : c \in Contents}]
    /\ begun = [r \in Requests |-> {}]
    /\ faults = 0

At(r, label) == local[r].pc = label
Become(r, l) == local' = [local EXCEPT ![r] = l]
Goto(r, label) == Become(r, [local[r] EXCEPT !.pc = label])

Answered(l, outcome) == [l EXCEPT !.pc = "done", !.outcome = outcome]
Showing(l, outcome, q) ==
    [Answered(l, outcome) EXCEPT !.shown = q, !.shownJobs = jobs[q]]

Shows(r) == local[r].outcome \in {"created", "reused"}

Fault == faults < MaxFaults /\ faults' = faults + 1

-----------------------------------------------------------------------------
(* The endpoints *)

Arrives(r, route, type, sha) ==
    [local[r] EXCEPT !.route = route, !.type = type, !.sha = sha]

\* POST /submissions.  A request may lack the url or file_name of its type, or
\* the hash of a hash submission (validateSubmission).
create(r, type) ==
    /\ At(r, "new") /\ "create" \in Routes
    /\ \E sha \in {local[r].content, NoSha} :
         LET l == Arrives(r, "create", type, sha)
         IN  \/ type # "hash" /\ Become(r, Answered(l, "rejected"))
             \/ type = "hash" /\ sha = NoSha /\ Become(r, Answered(l, "rejected"))
             \/ /\ type = "hash" => sha # NoSha
                /\ Become(r, [l EXCEPT !.pc = "find"])
    /\ UNCHANGED <<rows, jobs, objects, faults>>

\* POST /submissions/url, with or without its url
createUrl(r) ==
    /\ At(r, "new") /\ "url" \in Routes
    /\ LET l == Arrives(r, "url", "url", NoSha)
       IN  Become(r, [l EXCEPT !.pc = "find"]) \/ Become(r, Answered(l, "rejected"))
    /\ UNCHANGED <<rows, jobs, objects, faults>>

\* POST /submissions/file: metadata, with an object key of its own.
createFile(r) ==
    /\ At(r, "new") /\ "file" \in Routes
    /\ \E sha \in {local[r].content, NoSha} :
         LET l == Arrives(r, "file", "file", sha)
         IN  Become(r, [l EXCEPT !.pc = "find"]) \/ Become(r, Answered(l, "rejected"))
    /\ UNCHANGED <<rows, jobs, objects, faults>>

\* POST /submissions/file/upload: the hash is computed while the file is stored.
\* A request without a file, or whose user_id does not come before it, is refused.
uploadFile(r) ==
    /\ At(r, "new") /\ "upload" \in Routes
    /\ LET l == Arrives(r, "upload", "file", local[r].content)
       IN  Become(r, [l EXCEPT !.pc = "upload"]) \/ Become(r, Answered(l, "rejected"))
    /\ UNCHANGED <<rows, jobs, objects, faults>>

\* Mutant: putObject is not awaited, and fails later.
uploadUnawaited(r) ==
    /\ At(r, "upload")
    /\ \/ StorageConfigured /\ objects' = objects \cup {r}
       \/ UNCHANGED objects
    /\ Goto(r, "stored")
    /\ UNCHANGED <<rows, jobs, faults>>

uploadSubmissionStream(r) ==
    /\ At(r, "upload")
    /\ objects' = IF StorageConfigured THEN objects \cup {r} ELSE objects
    /\ Goto(r, "stored")
    /\ UNCHANGED <<rows, jobs, faults>>

\* The file may be in the bucket although the answer of the storage was lost.
uploadFails(r) ==
    /\ At(r, "upload") /\ Fault
    /\ \/ UNCHANGED objects
       \/ StorageConfigured /\ objects' = objects \cup {r}
    /\ Become(r, Answered(local[r], "rejected"))
    /\ UNCHANGED <<rows, jobs>>

\* uploadFile hands key and hash over to create.
createUploaded(r) ==
    /\ At(r, "stored")
    /\ Goto(r, "find")
    /\ UNCHANGED <<rows, jobs, objects, faults>>

-----------------------------------------------------------------------------
(* SubmissionsService.create *)

\* The submissions the unique index holds for the type and hash of r.
Same(r) == {q \in rows : /\ local[r].sha # NoSha
                         /\ local[q].sha = local[r].sha
                         /\ local[q].type = local[r].type}

findReusableBySha256(r) ==
    /\ At(r, "find")
    /\ \/ /\ Same(r) = {}
          /\ Goto(r, "insert")
       \/ \E q \in Same(r) : Become(r, Showing(local[r], "reused", q))
    /\ UNCHANGED <<rows, jobs, objects, faults>>

Commit(r) ==
    /\ rows' = rows \cup {r}
    /\ jobs' = [jobs EXCEPT ![r] = planJobTypes(local[r].type)]

\* Mutants: no unique index; the jobs are created after the commit.
insertWithoutIndex(r) ==
    /\ At(r, "insert")
    /\ Commit(r)
    /\ Goto(r, "enqueue")
    /\ UNCHANGED <<objects, faults>>
insertJobsLater(r) ==
    /\ At(r, "insert")
    /\ \/ Same(r) = {} /\ rows' = rows \cup {r} /\ Goto(r, "enqueue")
       \/ Same(r) # {} /\ Goto(r, "findAgain") /\ UNCHANGED rows
    /\ UNCHANGED <<objects, jobs, faults>>

\* One transaction: the submission and its jobs, or P2002.
createSubmissionWithJobs(r) ==
    /\ At(r, "insert")
    /\ \/ /\ Same(r) = {}
          /\ Commit(r)
          /\ Goto(r, "enqueue")
       \/ /\ Same(r) # {}
          /\ Goto(r, "findAgain")
          /\ UNCHANGED <<rows, jobs>>
    /\ UNCHANGED <<objects, faults>>

\* Mutant: a failed transaction takes the file back, also when only the answer to
\* its commit was lost.
transactionFailsCleanly(r) ==
    /\ At(r, "insert") /\ Fault
    /\ \/ Same(r) = {} /\ Commit(r)
       \/ UNCHANGED <<rows, jobs>>
    /\ Become(r, Answered(local[r], "error"))
    /\ objects' = objects \ {r}

\* It fails or times out; the answer to the commit may be what is lost.
transactionFails(r) ==
    /\ At(r, "insert") /\ Fault
    /\ \/ Same(r) = {} /\ Commit(r)
       \/ UNCHANGED <<rows, jobs>>
    /\ Become(r, Answered(local[r], "error"))
    /\ UNCHANGED objects

\* Mutant: the unique violation is thrown to the client.
throwConflict(r) ==
    /\ At(r, "findAgain")
    /\ Become(r, Answered(local[r], "conflict"))
    /\ UNCHANGED <<rows, jobs, objects, faults>>

\* The loser of a race reads the winner's submission.
reuseAfterConflict(r) ==
    /\ At(r, "findAgain")
    /\ \/ /\ Same(r) = {}
          /\ Become(r, Answered(local[r], "conflict"))
       \/ \E q \in Same(r) : Become(r, Showing(local[r], "reused", q))
    /\ UNCHANGED <<rows, jobs, objects, faults>>

\* The committed jobs are there for everybody: an operator's recovery adds one and a
\* worker starts it, or more of them, before create comes to list them.  No fault,
\* but bounded with them.
takenOn(q) ==
    /\ At(q, "enqueue") /\ Fault
    /\ \E type \in jobs[q] \ begun[q] : begun' = [begun EXCEPT ![q] = @ \cup {type}]
    /\ UNCHANGED <<rows, jobs, objects, local>>

\* enqueueForSubmission lists the jobs that are pending or queued, and those are what
\* create answers with.  One that was taken on may have been reset meanwhile.
enqueueJobsForSubmission(r) ==
    /\ At(r, "enqueue")
    /\ \E open \in SUBSET jobs[r] :
         /\ jobs[r] \ begun[r] \subseteq open
         /\ Become(r, [local[r] EXCEPT !.pc = "reply", !.shownJobs = open])
    /\ UNCHANGED <<rows, jobs, objects, faults>>

reply(r) ==
    /\ At(r, "reply")
    /\ Become(r, [Answered(local[r], "created") EXCEPT !.shown = r])
    /\ UNCHANGED <<rows, jobs, objects, faults>>

\* Any query, or the enqueueing, fails: the error goes to the client, what is
\* committed stays (recordEnqueueFailure only notes the reason).
queryFails(r) ==
    /\ local[r].pc \in {"find", "findAgain", "enqueue", "reply"} /\ Fault
    /\ Become(r, Answered(local[r], "error"))
    /\ UNCHANGED <<rows, jobs, objects>>

\* The API process dies with every request it serves.
Crash ==
    /\ Fault
    /\ local' = [r \in Requests |->
                   IF local[r].pc \in {"new", "done"} THEN local[r]
                   ELSE Answered(local[r], "error")]
    /\ UNCHANGED <<rows, jobs, objects>>

-----------------------------------------------------------------------------
RequestStep(r) ==
    \/ uploadSubmissionStream(r) \/ uploadFails(r) \/ createUploaded(r)
    \/ findReusableBySha256(r) \/ createSubmissionWithJobs(r) \/ transactionFails(r)
    \/ reuseAfterConflict(r) \/ enqueueJobsForSubmission(r) \/ reply(r) \/ queryFails(r)

ServiceNext ==
    \/ \E r \in Requests :
         \/ \E type \in Types : create(r, type)
         \/ createUrl(r) \/ createFile(r) \/ uploadFile(r)
         \/ RequestStep(r)
    \/ Crash

Next ==
    \/ ServiceNext /\ UNCHANGED begun
    \/ \E q \in Requests : takenOn(q)

Spec == Init /\ [][Next]_vars

-----------------------------------------------------------------------------
\* Two clients that are shown a submission for the same type and hash are shown
\* the same one, however their look-ups and inserts interleave and whichever of
\* them failed or died half way.
SameHashSameSubmission ==
    \A r, q \in Requests :
        /\ Shows(r) /\ Shows(q)
        /\ local[r].type = local[q].type
        /\ local[r].sha = local[q].sha /\ local[r].sha # NoSha
        => local[r].shown = local[q].shown

\* Whoever is shown a submission is shown the jobs its type calls for: a request that
\* finds the submission of another one, still busy or long dead, never sees it without
\* them, and the one that created it lacks none but those that others took on before
\* it listed them.
ShownWithJobs ==
    \A r \in Requests :
        Shows(r) =>
            LET planned == planJobTypes(local[r].type)
            IN  /\ local[r].shownJobs \subseteq planned
                /\ planned \ local[r].shownJobs
                     \subseteq IF local[r].outcome = "created" THEN begun[r] ELSE {}

\* Losing the race for the unique index is never an error of the client's
\* (submissions.service.spec.ts tests one order of it).
NoConflictShown == \A r \in Requests : local[r].outcome # "conflict"

\* A submission made by an upload has its file in the bucket from the moment the
\* workers can see its row, also when the answer of a query or of the transaction
\* was lost: the file is stored before the transaction begins.
UploadRowHasFile ==
    StorageConfigured =>
        \A q \in rows : local[q].route = "upload" => q \in objects

\* create goes with the uploads as their contract, which the streams implement
\* (ArtifactUpload), lets it: none is handed over before its file is stored, and
\* neither a failed query, a lost answer nor a crash takes a stored file away.
Contract == INSTANCE UploadContract WITH
    Uploads <- Requests,
    stored <- objects,
    at <- [r \in Requests |->
        CASE local[r].route # "upload" -> "new"
          [] local[r].route = "upload" /\ At(r, "upload") -> "upload"
          [] local[r].route = "upload" /\ At(r, "stored") -> "stored"
          [] /\ local[r].route = "upload" /\ At(r, "done")
             /\ local[r].outcome \in {"rejected", "error"} -> "failed"
          [] OTHER -> "create"]

UploadsKeepContract == Contract!Spec

-----------------------------------------------------------------------------
(* What the API documentation says and the code does not do *)

\* submissions.controller.ts: an upload stores the file and creates the file
\* submission.  The submission an upload is shown has a stored file.
UploadIsAnalyzed ==
    \A r \in Requests :
        StorageConfigured /\ local[r].route = "upload" /\ Shows(r)
            => local[r].shown \in objects
=============================================================================
