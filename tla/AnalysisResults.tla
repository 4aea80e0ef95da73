--------------------------- MODULE AnalysisResults ---------------------------
(***************************************************************************)
(* The analyzers behind dispatch() of the queue processor, the results and *)
(* IOCs they store for one submission, and a reader of GET /analysis/:id.  *)
(*                                                                         *)
(* Every await is the border of a step.  What the job pipeline shows of a  *)
(* job and of the submission is taken from AnalysisContract, which the     *)
(* pipeline implements: completed only over stored results, and withdrawn  *)
(* at any time.                                                            *)
(***************************************************************************)
EXTENDS RiskScoring

CONSTANTS
    Slots,        \* concurrent invocations of the processor
    Samples,      \* submissions to analyze, see SampleType
    Found,        \* how many suspicious strings a container's output may hold
    MaxFaults     \* how many faults of each kind a behaviour may contain

\* A crash or a failed query; a lock that expires while its slot goes on.
FaultKinds == {"failure", "expiry"}

JobTypes == {"static_analysis", "sandbox", "url_scan", "ai_summary"}
IocTypes == {"hash", "url", "domain"}

SampleTypes == {"file", "url", "domain", "hash"}

SampleType == [type : SampleTypes, file : Files,
               url : Urls, sha256 : BOOLEAN, storage_key : BOOLEAN,
               safeMime : BOOLEAN]

ASSUME ResultsAssumption ==
    /\ Samples \subseteq SampleType
    /\ Found \subseteq 0 .. 12
    /\ MaxFaults \in Nat

VARIABLES
    sample,       \* the submission's row and what its file and URL look like
    iocs,         \* how many rows of each type the table of IOCs has
    results,      \* the row of each job in analysis_results
    completed,    \* jobs shown as completed
    closed,       \* the submission is shown as completed
    local,        \* what each slot carries across its awaits
    view,         \* what the reader has read so far
    faults        \* how many faults of each kind there were

vars == <<sample, iocs, results, completed, closed, local, view, faults>>

\* The riskScore in a reply of the language model: any value, or none at all.
AnyQuote == -1

\* A row of analysis_results: quoted is the riskScore inside data.
Reports == [severity : Severities, score : 0 .. 100 \cup {NoScore},
            quoted : 0 .. 100 \cup {AnyQuote}]
NoReport == [severity |-> NoSeverity, score |-> NoScore, quoted |-> 0]

ReportOf(risk) == [severity |-> scoreToSeverity(risk), score |-> risk, quoted |-> risk]

planJobTypes(type) ==
    IF type = "file" THEN {"static_analysis", "sandbox", "ai_summary"}
                     ELSE {"url_scan", "ai_summary"}

Planned == planJobTypes(sample.type)

Stored == {j \in JobTypes : results[j] # NoReport}

Labels == {"idle", "scan", "iocFind", "iocCreate", "download", "sandbox",
           "aiRead", "store"}

Idle == [pc |-> "idle", job |-> "none", todo |-> <<>>, report |-> NoReport]

NoView == [done |-> 0, closed |-> FALSE, completed |-> {},
           results |-> [j \in JobTypes |-> NoReport]]

TypeOK ==
    /\ sample \in Samples
    /\ iocs \in [IocTypes -> Nat]
    /\ results \in [JobTypes -> Reports \cup {NoReport}]
    /\ completed \subseteq JobTypes
    /\ closed \in BOOLEAN
    /\ local \in [Slots -> [pc : Labels, job : JobTypes \cup {"none"},
                            todo : Seq(IocTypes),
                            report : Reports \cup {NoReport}]]
    /\ view \in [done : 0 .. 3, closed : BOOLEAN,
                 completed : SUBSET JobTypes,
                 results : [JobTypes -> Reports \cup {NoReport}]]
    /\ faults \in [FaultKinds -> Nat]

Init ==
    /\ sample \in Samples
    /\ iocs = [t \in IocTypes |-> 0]
    /\ results = [j \in JobTypes |-> NoReport]
    /\ completed = {} /\ closed = FALSE
    /\ local = [p \in Slots |-> Idle]
    /\ view = NoView
    /\ faults = [kind \in FaultKinds |-> 0]

At(p, label) == local[p].pc = label
Become(p, l) == local' = [local EXCEPT ![p] = l]

Fault(kind) ==
    /\ faults[kind] < MaxFaults
    /\ faults' = [faults EXCEPT ![kind] = @ + 1]

\* Two slots have run one job at once.
Overlap == faults["expiry"] > 0

-----------------------------------------------------------------------------
(* dispatch *)

\* Where an analyzer goes once the IOCs of its list are saved.
AfterIocs(l) ==
    CASE l.todo # <<>>                               -> [l EXCEPT !.pc = "iocFind"]
      [] l.todo = <<>> /\ l.job = "static_analysis"  -> [l EXCEPT !.pc = "download"]
      [] OTHER                                       -> [l EXCEPT !.pc = "store"]

\* The first step of each analyzer, behind the lookup of the processor.
Dispatched(l) ==
    CASE l.job = "static_analysis" ->
             AfterIocs([l EXCEPT !.todo = IF sample.sha256 THEN <<"hash">> ELSE <<>>])
      [] l.job = "sandbox"    -> [l EXCEPT !.pc = "sandbox"]
      [] l.job = "url_scan"   -> [l EXCEPT !.pc = "scan"]
      [] l.job = "ai_summary" -> [l EXCEPT !.pc = "aiRead"]

\* A job that a slot is running is only handed out again when the lock of that
\* slot has expired.
dispatch(p, j) ==
    /\ At(p, "idle") /\ j \in Planned \ Stored
    /\ \/ (\A q \in Slots : local[q].job # j) /\ UNCHANGED faults
       \/ (\E q \in Slots : local[q].job = j) /\ Fault("expiry")
    /\ Become(p, Dispatched([local[p] EXCEPT !.job = j]))
    /\ UNCHANGED <<sample, iocs, results, completed, closed, view>>

\* checkSafeBrowsing: an error or a missing key counts as no threat.
analyzeUrl(p) ==
    /\ At(p, "scan")
    /\ \E threats \in BOOLEAN :
         Become(p, AfterIocs([local[p] EXCEPT
             !.report = ReportOf(urlRisk(sample.url, threats)),
             !.todo = IF sample.url.valid THEN <<"url", "domain">> ELSE <<"url">>]))
    /\ UNCHANGED <<sample, iocs, results, completed, closed, view, faults>>

\* IocsService.create: findFirst, and create when there is none.
Saved(l) == AfterIocs([l EXCEPT !.todo = Tail(@)])

\* Mutant: create without looking.
createIocBlindly(p) ==
    /\ At(p, "iocFind")
    /\ Become(p, [local[p] EXCEPT !.pc = "iocCreate"])
    /\ UNCHANGED <<sample, iocs, results, completed, closed, view, faults>>

findIoc(p) ==
    /\ At(p, "iocFind")
    /\ Become(p, IF iocs[Head(local[p].todo)] > 0
                 THEN Saved(local[p])
                 ELSE [local[p] EXCEPT !.pc = "iocCreate"])
    /\ UNCHANGED <<sample, iocs, results, completed, closed, view, faults>>

createIoc(p) ==
    /\ At(p, "iocCreate")
    /\ iocs' = [iocs EXCEPT ![Head(local[p].todo)] = @ + 1]
    /\ Become(p, Saved(local[p]))
    /\ UNCHANGED <<sample, results, completed, closed, view, faults>>

\* Mutant: the try block holds both IOCs.
swallowIocError(p) ==
    /\ local[p].pc \in {"iocFind", "iocCreate"}
    /\ Fault("failure")
    /\ Become(p, Saved(local[p]))
    /\ UNCHANGED <<sample, iocs, results, completed, closed, view>>

\* The domain is saved inside `try { } catch { /* invalid url */ }`, which also
\* takes a failing query for an invalid URL.
swallowDomainError(p) ==
    /\ local[p].pc \in {"iocFind", "iocCreate"} /\ Head(local[p].todo) = "domain"
    /\ Fault("failure")
    /\ Become(p, Saved(local[p]))
    /\ UNCHANGED <<sample, iocs, results, completed, closed, view>>

\* downloadToBuffer fails, or the file is taken apart.  Nothing is downloaded
\* without a storage key.
analyzeFile(p) ==
    /\ At(p, "download")
    /\ \E downloaded \in BOOLEAN :
         /\ downloaded => sample.storage_key
         /\ Become(p, [local[p] EXCEPT
                !.pc = "store", !.report = ReportOf(staticRisk(sample.file, downloaded))])
    /\ UNCHANGED <<sample, iocs, results, completed, closed, view, faults>>

\* Safe types, missing storage and a failing container all report a zero.
runSandbox(p) ==
    /\ At(p, "sandbox")
    /\ \E found \in Found \cup {0} :
         /\ found > 0 => sample.storage_key /\ ~sample.safeMime
         /\ Become(p, [local[p] EXCEPT
                !.pc = "store", !.report = ReportOf(sandboxRisk(found))])
    /\ UNCHANGED <<sample, iocs, results, completed, closed, view, faults>>

\* AiAnalyzerWorker copies severity and score of the static report it finds.  The
\* data beside them, with their riskScore, is fallbackSummary's, or whatever JSON
\* Gemini replied with.
Summaries(report) ==
    LET copied == IF report = NoReport
                  THEN [severity |-> "info", score |-> NoScore, quoted |-> 0]
                  ELSE report
    IN  {copied, [copied EXCEPT !.quoted = AnyQuote]}

\* Mutant: the look-up does not ask for the type of the job.
readAnyReport(p) ==
    /\ At(p, "aiRead")
    /\ \E j \in JobTypes : \E summary \in Summaries(results[j]) :
         Become(p, [local[p] EXCEPT !.pc = "store", !.report = summary])
    /\ UNCHANGED <<sample, iocs, results, completed, closed, view, faults>>

readStaticReport(p) ==
    /\ At(p, "aiRead")
    /\ \E summary \in Summaries(results["static_analysis"]) :
         Become(p, [local[p] EXCEPT !.pc = "store", !.report = summary])
    /\ UNCHANGED <<sample, iocs, results, completed, closed, view, faults>>

\* ResultsService.create: an upsert; a failing index is only logged.
createResult(p) ==
    /\ At(p, "store")
    /\ results' = [results EXCEPT ![local[p].job] = local[p].report]
    /\ Become(p, Idle)
    /\ UNCHANGED <<sample, iocs, completed, closed, view, faults>>

\* The analyzer throws or its process dies; the job will be tried again.
Abandon(p) ==
    /\ ~At(p, "idle") /\ Fault("failure")
    /\ Become(p, Idle)
    /\ UNCHANGED <<sample, iocs, results, completed, closed, view>>

-----------------------------------------------------------------------------
(* What the pipeline shows, by its contract *)

markCompleted(j) ==
    /\ j \in Stored
    /\ completed' = completed \cup {j}
    /\ UNCHANGED <<sample, iocs, results, closed, local, view, faults>>

\* A late update to queued, a retry or a recovery, which resets several at once.
reopen(J) ==
    /\ completed' = completed \ J
    /\ UNCHANGED <<sample, iocs, results, closed, local, view, faults>>

\* Mutant: one completed job is enough.
syncOfSome(b) ==
    /\ b => completed # {}
    /\ closed' = b
    /\ UNCHANGED <<sample, iocs, results, completed, local, view, faults>>

syncSubmissionStatus(b) ==
    /\ b => Planned \subseteq Stored
    /\ closed' = b
    /\ UNCHANGED <<sample, iocs, results, completed, local, view, faults>>

-----------------------------------------------------------------------------
(* getAnalysis: Prisma reads a relation after its parent, in a query of its    *)
(* own.                                                                      *)

QueryOrderReversed == <<"results", "jobs", "submission">>  \* mutant
QueryOrder == <<"submission", "jobs", "results">>

\* view.done counts the queries that have returned.
getAnalysis ==
    /\ view.done < Len(QueryOrder)
    /\ LET query == QueryOrder[view.done + 1]
       IN  view' = [view EXCEPT
               !.done = @ + 1,
               !.closed    = IF query = "submission" THEN closed ELSE @,
               !.completed = IF query = "jobs" THEN completed ELSE @,
               !.results   = IF query = "results" THEN results ELSE @]
    /\ UNCHANGED <<sample, iocs, results, completed, closed, local, faults>>

respond ==
    /\ view.done = Len(QueryOrder)
    /\ view' = NoView
    /\ UNCHANGED <<sample, iocs, results, completed, closed, local, faults>>

-----------------------------------------------------------------------------
SlotStep(p) ==
    \/ analyzeUrl(p) \/ findIoc(p) \/ createIoc(p) \/ swallowDomainError(p)
    \/ analyzeFile(p) \/ runSandbox(p) \/ readStaticReport(p)
    \/ createResult(p) \/ Abandon(p)

Next ==
    \/ \E p \in Slots : (\E j \in JobTypes : dispatch(p, j)) \/ SlotStep(p)
    \/ \E j \in JobTypes : markCompleted(j)
    \/ \E J \in SUBSET completed : reopen(J)
    \/ \E b \in BOOLEAN : syncSubmissionStatus(b)
    \/ getAnalysis \/ respond

Spec == Init /\ [][Next]_vars

-----------------------------------------------------------------------------
\* An analyzer saves its IOCs before its result, so that a stored result never
\* lacks them: the analysis is not run again once the result is there.  Holds
\* across crashes and for two slots that analyze the same job.
ResultHasIocs ==
    /\ results["static_analysis"] # NoReport /\ sample.sha256 => iocs["hash"] > 0
    /\ results["url_scan"] # NoReport => iocs["url"] > 0

\* IocsService.create looks before it creates, and no unique index backs it: no
\* row is doubled, however often a job is retried, as long as no two slots
\* analyze one job.
NoDuplicateIocs == Overlap \/ \A t \in IocTypes : iocs[t] <= 1

\* GET /analysis/:id is several queries while the workers go on.  What it shows
\* as completed, a job or the whole submission, it shows with the results.
ViewHonest ==
    view.done = Len(QueryOrder) =>
        /\ \A j \in view.completed : view.results[j] # NoReport
        /\ view.closed => \A j \in Planned : view.results[j] # NoReport

ViewResults ==
    {[job |-> j, severity |-> view.results[j].severity, score |-> view.results[j].score] :
        j \in {i \in JobTypes : view.results[i] # NoReport}}

\* The aggregate score of an answer never calls for a severity above the
\* maxSeverity beside it, although summaries copy a score and a severity they
\* have not computed.
AggregateWithinMax ==
    LET aggregate == aggregateScore(ViewResults)
    IN  aggregate # NoScore =>
          Rank[scoreToSeverity(aggregate \div 100)] <= Rank[maxSeverity(ViewResults)]

\* The severity and the score of an AI summary are those of the submission's static
\* report, or of none, and so is the riskScore it quotes unless the language model
\* wrote it; never those of another job.  Two overlapping runs of the static analysis
\* may store different reports.
SummaryOfStatic ==
    Overlap \/ results["ai_summary"] \in
                  {NoReport} \cup Summaries(NoReport)
                             \cup Summaries(results["static_analysis"])

-----------------------------------------------------------------------------
(* The contract of the pipeline, of which this is one accepted submission *)

\* A job of the contract is one that a type of submission plans.
PlannedJobs == {job \in SampleTypes \X JobTypes : job[2] \in planJobTypes(job[1])}
SubmissionOf == [job \in SampleTypes \X JobTypes |-> job[1]]

Contract == INSTANCE AnalysisContract WITH
    Submissions <- SampleTypes,
    Jobs     <- PlannedJobs,
    SubOf    <- SubmissionOf,
    accepted <- {sample.type},
    stored   <- {sample.type} \X Stored,
    reported <- {sample.type} \X completed,
    closed   <- IF closed THEN {sample.type} ELSE {}

\* The analyzers and what is assumed of the pipeline around them do nothing to the
\* submission that AnalysisContract forbids: a job its type does not plan stores no
\* result, and none is lost when analyses fail, repeat or overlap.
ContractSteps == [][Contract!Next]_(Contract!contractVars)
=============================================================================
