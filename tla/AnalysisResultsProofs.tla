------------------------ MODULE AnalysisResultsProofs ------------------------
(***************************************************************************)
(* What holds of AnalysisResults for any number of slots, crashes and      *)
(* failed queries.  SlotInv says how far each analyzer has come with its   *)
(* IOCs and its report, which carries the invariant across the retries.    *)
(***************************************************************************)
EXTENDS AnalysisResults, RiskScoringProofs

IocSteps == {"iocFind", "iocCreate"}

HashSaved == sample.sha256 => iocs["hash"] > 0
UrlSaved == iocs["url"] > 0

SlotInv(l) ==
    /\ l.pc = "idle" => l.job = "none"
    /\ l.pc = "scan" => l.job = "url_scan"
    /\ l.pc = "sandbox" => l.job = "sandbox"
    /\ l.pc = "aiRead" => l.job = "ai_summary"
    /\ l.pc \in IocSteps =>
         \/ l.job = "static_analysis" /\ l.todo = <<"hash">>
         \/ /\ l.job = "url_scan" /\ l.report \in Reports
            /\ \/ l.todo \in {<<"url", "domain">>, <<"url">>}
               \/ l.todo = <<"domain">> /\ UrlSaved
    /\ l.pc = "download" => l.job = "static_analysis" /\ HashSaved
    /\ l.pc = "store" =>
         /\ l.job \in JobTypes /\ l.report \in Reports
         /\ l.job = "static_analysis" => HashSaved
         /\ l.job = "url_scan" => UrlSaved

StoredInv ==
    /\ results["static_analysis"] # NoReport => HashSaved
    /\ results["url_scan"] # NoReport => UrlSaved

\* Whatever is shown as completed is stored, also what the reader has read.
ShownInv ==
    /\ completed \cup view.completed \subseteq Stored
    /\ closed \/ view.closed => Planned \subseteq Stored

IInv ==
    /\ TypeOK
    /\ \A p \in Slots : SlotInv(local[p])
    /\ StoredInv
    /\ ShownInv
    /\ ViewHonest

-----------------------------------------------------------------------------
(* Types *)

Locals == [pc : Labels, job : JobTypes \cup {"none"}, todo : Seq(IocTypes),
           report : Reports \cup {NoReport}]
Views == [done : 0 .. 3, closed : BOOLEAN, completed : SUBSET JobTypes,
          results : [JobTypes -> Reports \cup {NoReport}]]

LEMMA ReportType ==
  ASSUME NEW risk \in 0 .. 100
  PROVE  ReportOf(risk) \in Reports
  BY SeverityType DEF ReportOf, Reports

LEMMA NoReportType == NoReport \notin Reports
  BY DEF NoReport, Reports, Severities, NoSeverity

LEMMA SummaryType ==
  ASSUME NEW report \in Reports \cup {NoReport}
  PROVE  Summaries(report) \subseteq Reports
  <1> DEFINE copied == IF report = NoReport
                       THEN [severity |-> "info", score |-> NoScore, quoted |-> 0]
                       ELSE report
  <1>1. copied \in Reports
    BY DEF Reports, Severities
  <1> HIDE DEF copied
  <1>2. [copied EXCEPT !.quoted = AnyQuote] \in Reports
    BY <1>1 DEF Reports
  <1>3. Summaries(report) = {copied, [copied EXCEPT !.quoted = AnyQuote]}
    BY DEF copied, Summaries
  <1> QED
    BY <1>1, <1>2, <1>3

LEMMA SampleParts ==
  ASSUME TypeOK
  PROVE  sample.file \in Files /\ sample.url \in Urls
  BY ResultsAssumption DEF TypeOK, SampleType

LEMMA PlannedType == Planned \subseteq JobTypes
  BY DEF Planned, planJobTypes, JobTypes

\* AfterIocs goes on with the list, or to the download or the store behind it.
LEMMA AfterIocsFields ==
  ASSUME NEW l \in Locals
  PROVE  /\ AfterIocs(l) \in Locals
         /\ AfterIocs(l).job = l.job /\ AfterIocs(l).todo = l.todo
         /\ AfterIocs(l).report = l.report
         /\ AfterIocs(l).pc =
              IF l.todo # <<>> THEN "iocFind"
              ELSE IF l.job = "static_analysis" THEN "download" ELSE "store"
  BY DEF AfterIocs, Locals, Labels

-----------------------------------------------------------------------------
(* Steps of a slot *)

\* IOCs are never taken away, so that what other slots rely on stays true.
LEMMA SlotInvKept ==
  ASSUME NEW l, SlotInv(l), iocs \in [IocTypes -> Nat], iocs' \in [IocTypes -> Nat],
         \A t \in IocTypes : iocs'[t] >= iocs[t], sample' = sample
  PROVE  /\ SlotInv(l)'
         /\ HashSaved => HashSaved'
         /\ UrlSaved => UrlSaved'
  <1>1. (HashSaved => HashSaved') /\ (UrlSaved => UrlSaved')
    BY DEF HashSaved, UrlSaved, IocTypes
  <1> QED
    BY <1>1 DEF SlotInv

LEMMA SlotStepInv ==
  ASSUME IInv, NEW p \in Slots, NEW l \in Locals, Become(p, l), SlotInv(l)',
         iocs' \in [IocTypes -> Nat], \A t \in IocTypes : iocs'[t] >= iocs[t],
         UNCHANGED <<sample, results, completed, closed, view>>,
         faults' \in [FaultKinds -> Nat]
  PROVE  IInv'
  <1>1. /\ local \in [Slots -> Locals] /\ iocs \in [IocTypes -> Nat]
        /\ local' = [local EXCEPT ![p] = l]
    BY DEF IInv, TypeOK, Locals, Become
  <1>2. TypeOK'
    BY <1>1 DEF IInv, TypeOK, Locals
  <1>3. ASSUME NEW q \in Slots PROVE SlotInv(local[q])'
    <2>1. CASE q = p
      BY <1>1, <2>1
    <2>2. CASE q # p
      <3>1. local'[q] = local[q] /\ SlotInv(local[q])
        BY <1>1, <2>2 DEF IInv
      <3> QED
        BY <1>1, <3>1, SlotInvKept
    <2> QED
      BY <2>1, <2>2
  <1>4. StoredInv'
    <2>1. (HashSaved => HashSaved') /\ (UrlSaved => UrlSaved')
      BY <1>1 DEF HashSaved, UrlSaved, IocTypes
    <2> QED
      BY <2>1 DEF IInv, StoredInv
  <1>5. ShownInv' /\ ViewHonest'
    BY DEF IInv, ShownInv, ViewHonest, Stored, Planned
  <1> QED
    BY <1>2, <1>3, <1>4, <1>5 DEF IInv

\* The same for a slot that touches no IOC.
LEMMA QuietStepInv ==
  ASSUME IInv, NEW p \in Slots, NEW l \in Locals, Become(p, l), SlotInv(l),
         UNCHANGED <<sample, iocs, results, completed, closed, view>>,
         faults' \in [FaultKinds -> Nat]
  PROVE  IInv'
  <1>1. iocs \in [IocTypes -> Nat] /\ \A t \in IocTypes : iocs'[t] >= iocs[t]
    BY DEF IInv, TypeOK
  <1>2. SlotInv(l)'
    BY <1>1, SlotInvKept
  <1> QED
    BY <1>1, <1>2, SlotStepInv

LEMMA IdleType == Idle \in Locals /\ SlotInv(Idle)
  BY DEF Idle, Locals, Labels, SlotInv, IocSteps

\* What a step may use of the slot it is about.
LEMMA SlotFacts ==
  ASSUME IInv, NEW p \in Slots
  PROVE  /\ local[p] \in Locals /\ SlotInv(local[p])
         /\ faults \in [FaultKinds -> Nat] /\ iocs \in [IocTypes -> Nat]
  BY DEF IInv, TypeOK, Locals

\* A fault is counted under its own kind.
LEMMA FaultType ==
  ASSUME IInv, NEW k \in FaultKinds, Fault(k)
  PROVE  /\ faults' \in [FaultKinds -> Nat]
         /\ \A other \in FaultKinds : faults'[other] >= faults[other]
         /\ faults'[k] > 0
  BY DEF IInv, TypeOK, Fault

LEMMA DispatchInv ==
  ASSUME IInv, NEW p \in Slots, NEW j \in JobTypes, dispatch(p, j)
  PROVE  IInv'
  <1> DEFINE l == [local[p] EXCEPT !.job = j]
             m == Dispatched(l)
             todo == IF sample.sha256 THEN <<"hash">> ELSE <<>>
             n == [l EXCEPT !.todo = todo]
  <1>1. l \in Locals /\ l.job = j
    BY SlotFacts DEF Locals
  <1>2. todo \in Seq(IocTypes)
    <2>1. <<"hash">> \in Seq(IocTypes)
      BY DEF IocTypes
    <2>2. <<>> \in Seq(IocTypes)
      OBVIOUS
    <2> QED
      BY <2>1, <2>2
  <1>3. n \in Locals /\ n.job = j /\ n.todo = todo
    BY <1>1, <1>2 DEF Locals
  <1>4. todo # <<>> => todo = <<"hash">>
    OBVIOUS
  <1>5. todo = <<>> => ~sample.sha256
    <2>1. <<"hash">> # <<>>
      OBVIOUS
    <2> QED
      BY <2>1
  <1> HIDE DEF l, todo
  <1>6. m \in Locals /\ SlotInv(m)
    <2>1. CASE j = "static_analysis"
      <3>1. m = AfterIocs(n)
        BY <1>1, <2>1 DEF Dispatched, todo
      <3> HIDE DEF m, n
      <3>2. /\ m \in Locals /\ m.job = j /\ m.todo = todo
            /\ m.pc = IF todo # <<>> THEN "iocFind" ELSE "download"
        BY <1>3, <2>1, <3>1, AfterIocsFields
      <3> QED
        BY <1>4, <1>5, <2>1, <3>2 DEF SlotInv, IocSteps, HashSaved
    <2>2. CASE j = "sandbox"
      <3>1. m = [l EXCEPT !.pc = "sandbox"]
        BY <1>1, <2>2 DEF Dispatched
      <3> QED
        BY <1>1, <2>2, <3>1 DEF SlotInv, IocSteps, Locals, Labels
    <2>3. CASE j = "url_scan"
      <3>1. m = [l EXCEPT !.pc = "scan"]
        BY <1>1, <2>3 DEF Dispatched
      <3> QED
        BY <1>1, <2>3, <3>1 DEF SlotInv, IocSteps, Locals, Labels
    <2>4. CASE j = "ai_summary"
      <3>1. m = [l EXCEPT !.pc = "aiRead"]
        BY <1>1, <2>4 DEF Dispatched
      <3> QED
        BY <1>1, <2>4, <3>1 DEF SlotInv, IocSteps, Locals, Labels
    <2> QED
      BY <2>1, <2>2, <2>3, <2>4 DEF JobTypes
  <1>7. Become(p, m) /\ UNCHANGED <<sample, iocs, results, completed, closed, view>>
    BY DEF dispatch, l
  <1>8. faults' \in [FaultKinds -> Nat]
    BY SlotFacts, FaultType DEF dispatch, FaultKinds
  <1> HIDE DEF m
  <1> QED
    BY <1>6, <1>7, <1>8, QuietStepInv

LEMMA ScanInv ==
  ASSUME IInv, NEW p \in Slots, analyzeUrl(p)
  PROVE  IInv'
  <1>1. /\ local[p] \in Locals /\ local[p].pc = "scan" /\ local[p].job = "url_scan"
    BY SlotFacts DEF analyzeUrl, At, SlotInv
  <1> DEFINE todo == IF sample.url.valid THEN <<"url", "domain">> ELSE <<"url">>
             l(threats) == [local[p] EXCEPT !.report = ReportOf(urlRisk(sample.url, threats)),
                                            !.todo = todo]
  <1>2. PICK threats \in BOOLEAN : Become(p, AfterIocs(l(threats)))
    BY DEF analyzeUrl
  <1> DEFINE r == ReportOf(urlRisk(sample.url, threats))
             n == l(threats)
             m == AfterIocs(n)
  <1>3. r \in Reports
    BY UrlRiskInRange, SampleParts, ReportType DEF IInv
  <1>4. todo \in Seq(IocTypes) /\ todo \in {<<"url", "domain">>, <<"url">>} /\ todo # <<>>
    <2>1. <<"url", "domain">> \in Seq(IocTypes) /\ <<"url", "domain">> # <<>>
      BY DEF IocTypes
    <2>2. <<"url">> \in Seq(IocTypes) /\ <<"url">> # <<>>
      BY DEF IocTypes
    <2> QED
      BY <2>1, <2>2
  <1> HIDE DEF r, todo
  <1>5. n \in Locals /\ n.job = "url_scan" /\ n.todo = todo /\ n.report = r
    BY <1>1, <1>3, <1>4 DEF Locals, r
  <1> HIDE DEF n
  <1>6. /\ m \in Locals /\ m.job = "url_scan" /\ m.todo = todo /\ m.report = r
        /\ m.pc = "iocFind"
    BY <1>4, <1>5, AfterIocsFields
  <1>7. Become(p, m)
    BY <1>2 DEF n
  <1> HIDE DEF m, l
  <1>8. SlotInv(m)
    BY <1>3, <1>4, <1>6 DEF SlotInv, IocSteps
  <1> QED
    BY <1>6, <1>7, <1>8, SlotFacts, QuietStepInv DEF analyzeUrl

\* What is left of the list once its head is saved.
LEMMA SavedInv ==
  ASSUME NEW l \in Locals, SlotInv(l), l.pc \in IocSteps,
         iocs \in [IocTypes -> Nat], iocs' \in [IocTypes -> Nat], sample' = sample,
         \A t \in IocTypes : iocs'[t] >= iocs[t],
         Head(l.todo) # "domain" => iocs'[Head(l.todo)] > 0
  PROVE  Saved(l) \in Locals /\ SlotInv(Saved(l))'
  <1> DEFINE n == [l EXCEPT !.todo = Tail(@)]
             m == AfterIocs(n)
  <1>0. Saved(l) = m
    BY DEF Saved
  <1>1. CASE l.job = "static_analysis" /\ l.todo = <<"hash">>
    <2>1. Head(l.todo) = "hash" /\ Tail(l.todo) = <<>> /\ <<>> \in Seq(IocTypes)
      BY <1>1
    <2>2. n \in Locals /\ n.todo = <<>> /\ n.job = "static_analysis"
      BY <1>1, <2>1 DEF Locals
    <2> HIDE DEF n
    <2>3. /\ m \in Locals /\ m.pc = "download" /\ m.job = "static_analysis"
      BY <2>2, AfterIocsFields
    <2> HIDE DEF m
    <2>4. HashSaved'
      BY <2>1 DEF HashSaved
    <2> QED
      BY <1>0, <2>3, <2>4 DEF SlotInv, IocSteps
  <1>2. CASE l.job = "url_scan" /\ l.report \in Reports /\ l.todo = <<"url", "domain">>
    <2>1. /\ Head(l.todo) = "url" /\ Tail(l.todo) = <<"domain">>
          /\ <<"domain">> \in Seq(IocTypes) /\ <<"domain">> # <<>>
      BY <1>2 DEF IocTypes
    <2>2. /\ n \in Locals /\ n.todo = <<"domain">> /\ n.job = "url_scan"
          /\ n.report = l.report
      BY <1>2, <2>1 DEF Locals
    <2> HIDE DEF n
    <2>3. /\ m \in Locals /\ m.pc = "iocFind" /\ m.job = "url_scan"
          /\ m.todo = <<"domain">> /\ m.report = l.report
      BY <2>1, <2>2, AfterIocsFields
    <2> HIDE DEF m
    <2>4. UrlSaved'
      BY <2>1 DEF UrlSaved
    <2> QED
      BY <1>0, <1>2, <2>3, <2>4 DEF SlotInv, IocSteps
  <1>3. CASE l.job = "url_scan" /\ l.report \in Reports /\ l.todo \in {<<"url">>, <<"domain">>}
    <2>1. Tail(l.todo) = <<>> /\ <<>> \in Seq(IocTypes)
      <3>1. CASE l.todo = <<"url">>
        BY <3>1
      <3>2. CASE l.todo = <<"domain">>
        BY <3>2
      <3> QED
        BY <1>3, <3>1, <3>2
    <2>2. n \in Locals /\ n.todo = <<>> /\ n.job = "url_scan" /\ n.report = l.report
      BY <1>3, <2>1 DEF Locals
    <2> HIDE DEF n
    <2>3. /\ m \in Locals /\ m.pc = "store" /\ m.job = "url_scan" /\ m.report = l.report
      BY <2>2, AfterIocsFields
    <2> HIDE DEF m
    <2>4. UrlSaved'
      <3>1. CASE l.todo = <<"url">>
        BY <3>1 DEF UrlSaved
      <3>2. CASE l.todo = <<"domain">>
        <4>1. l.todo \notin {<<"url", "domain">>, <<"url">>} /\ l.todo # <<"hash">>
          BY <3>2
        <4>2. UrlSaved
          BY <4>1 DEF SlotInv
        <4> QED
          BY <4>2 DEF UrlSaved, IocTypes
      <3> QED
        BY <1>3, <3>1, <3>2
    <2> QED
      BY <1>0, <1>3, <2>3, <2>4 DEF SlotInv, IocSteps, JobTypes
  <1> QED
    BY <1>1, <1>2, <1>3 DEF SlotInv

\* The head of a list of IOCs is one of their types.
LEMMA HeadType ==
  ASSUME NEW l \in Locals, SlotInv(l), l.pc \in IocSteps
  PROVE  Head(l.todo) \in IocTypes
  BY DEF SlotInv, IocTypes

LEMMA IocInv ==
  ASSUME IInv, NEW p \in Slots, findIoc(p) \/ createIoc(p) \/ swallowDomainError(p)
  PROVE  IInv'
  <1>0. PICK l \in Locals : l = local[p]
    BY SlotFacts
  <1> DEFINE t == Head(l.todo)
  <1>1. l \in Locals /\ SlotInv(l) /\ iocs \in [IocTypes -> Nat]
        /\ faults \in [FaultKinds -> Nat]
    BY <1>0, SlotFacts
  <1>2. l.pc \in IocSteps
    BY <1>0 DEF findIoc, createIoc, swallowDomainError, At, IocSteps
  <1>3. t \in IocTypes
    BY <1>1, <1>2, HeadType
  <1>4. UNCHANGED <<sample, results, completed, closed, view>> /\ faults' \in [FaultKinds -> Nat]
    BY <1>1, FaultType DEF findIoc, createIoc, swallowDomainError, FaultKinds
  <1>5. ASSUME Become(p, Saved(l)), iocs' \in [IocTypes -> Nat],
               \A u \in IocTypes : iocs'[u] >= iocs[u],
               t # "domain" => iocs'[t] > 0
        PROVE  IInv'
    <2>1. Saved(l) \in Locals /\ SlotInv(Saved(l))'
      BY <1>1, <1>2, <1>4, <1>5, SavedInv
    <2> QED
      BY <1>4, <1>5, <2>1, SlotStepInv
  <1>6. CASE findIoc(p)
    <2>1. iocs' = iocs /\ iocs' \in [IocTypes -> Nat] /\ \A u \in IocTypes : iocs'[u] >= iocs[u]
      BY <1>1, <1>6 DEF findIoc
    <2>2. CASE iocs[t] > 0
      BY <1>0, <1>5, <1>6, <2>1, <2>2 DEF findIoc
    <2>3. CASE ~(iocs[t] > 0)
      <3> DEFINE m == [l EXCEPT !.pc = "iocCreate"]
      <3>1. Become(p, m)
        BY <1>0, <1>6, <2>3 DEF findIoc
      <3>2. /\ m \in Locals /\ m.pc = "iocCreate" /\ m.job = l.job /\ m.todo = l.todo
            /\ m.report = l.report
        BY <1>1 DEF Locals, Labels
      <3> HIDE DEF m
      <3>3. SlotInv(m)
        BY <1>1, <1>2, <3>2 DEF SlotInv, IocSteps
      <3> QED
        BY <1>4, <2>1, <3>1, <3>2, <3>3, QuietStepInv
    <2> QED
      BY <2>2, <2>3
  <1>7. CASE createIoc(p)
    <2>1. iocs' = [iocs EXCEPT ![t] = @ + 1] /\ Become(p, Saved(l))
      BY <1>0, <1>7 DEF createIoc
    <2> HIDE DEF t
    <2>2. /\ iocs' \in [IocTypes -> Nat] /\ \A u \in IocTypes : iocs'[u] >= iocs[u]
          /\ iocs'[t] > 0
      BY <1>1, <1>3, <2>1
    <2> QED
      BY <1>5, <2>1, <2>2
  <1>8. CASE swallowDomainError(p)
    <2>1. iocs' = iocs /\ iocs' \in [IocTypes -> Nat] /\ \A u \in IocTypes : iocs'[u] >= iocs[u]
      BY <1>1, <1>8 DEF swallowDomainError
    <2> QED
      BY <1>0, <1>5, <1>8, <2>1 DEF swallowDomainError
  <1> QED
    BY <1>6, <1>7, <1>8

\* An analyzer whose report is ready goes on to store it.
LEMMA ReportInv ==
  ASSUME IInv, NEW p \in Slots, NEW report \in Reports,
         local[p].pc \in {"download", "sandbox", "aiRead"},
         Become(p, [local[p] EXCEPT !.pc = "store", !.report = report]),
         UNCHANGED <<sample, iocs, results, completed, closed, view, faults>>
  PROVE  IInv'
  <1> DEFINE m == [local[p] EXCEPT !.pc = "store", !.report = report]
  <1>1. local[p] \in Locals /\ SlotInv(local[p]) /\ faults \in [FaultKinds -> Nat]
    BY SlotFacts
  <1>2. m \in Locals /\ m.pc = "store" /\ m.job = local[p].job /\ m.report = report
    BY <1>1 DEF Locals, Labels
  <1>3. Become(p, m)
    OBVIOUS
  <1> HIDE DEF m
  <1>4. SlotInv(m)
    BY <1>1, <1>2 DEF SlotInv, IocSteps, JobTypes
  <1> QED
    BY <1>1, <1>2, <1>3, <1>4, QuietStepInv

LEMMA AnalyzerInv ==
  ASSUME IInv, NEW p \in Slots,
         analyzeFile(p) \/ runSandbox(p) \/ readStaticReport(p)
  PROVE  IInv'
  <1>1. CASE analyzeFile(p)
    <2>1. PICK downloaded \in BOOLEAN :
            Become(p, [local[p] EXCEPT !.pc = "store",
                         !.report = ReportOf(staticRisk(sample.file, downloaded))])
      BY <1>1 DEF analyzeFile
    <2>2. ReportOf(staticRisk(sample.file, downloaded)) \in Reports
      BY StaticRiskInRange, SampleParts, ReportType DEF IInv
    <2> QED
      BY <1>1, <2>1, <2>2, ReportInv DEF analyzeFile, At
  <1>2. CASE runSandbox(p)
    <2>1. PICK found \in Found \cup {0} :
            Become(p, [local[p] EXCEPT !.pc = "store", !.report = ReportOf(sandboxRisk(found))])
      BY <1>2 DEF runSandbox
    <2>2. ReportOf(sandboxRisk(found)) \in Reports
      BY ResultsAssumption, SandboxRiskInRange, ReportType
    <2> QED
      BY <1>2, <2>1, <2>2, ReportInv DEF runSandbox, At
  <1>3. CASE readStaticReport(p)
    <2>1. PICK summary \in Summaries(results["static_analysis"]) :
            Become(p, [local[p] EXCEPT !.pc = "store", !.report = summary])
      BY <1>3 DEF readStaticReport
    <2>2. summary \in Reports
      BY SummaryType DEF IInv, TypeOK, JobTypes
    <2> QED
      BY <1>3, <2>1, <2>2, ReportInv DEF readStaticReport, At
  <1> QED
    BY <1>1, <1>2, <1>3

\* What has a result keeps one.
LEMMA StoreInv ==
  ASSUME IInv, NEW p \in Slots, createResult(p)
  PROVE  IInv'
  <1> DEFINE j == local[p].job
             report == local[p].report
  <1>1. /\ local \in [Slots -> Locals] /\ results \in [JobTypes -> Reports \cup {NoReport}]
        /\ local[p].pc = "store"
        /\ j \in JobTypes /\ report \in Reports
        /\ j = "static_analysis" => HashSaved
        /\ j = "url_scan" => UrlSaved
    BY SlotFacts DEF IInv, TypeOK, Locals, createResult, At, SlotInv
  <1> HIDE DEF j, report
  <1>2. /\ results' = [results EXCEPT ![j] = report]
        /\ local' = [local EXCEPT ![p] = Idle]
        /\ UNCHANGED <<sample, iocs, completed, closed, view, faults>>
    BY DEF createResult, Become, j, report
  <1>3. report # NoReport
    BY <1>1, NoReportType
  <1>4. TypeOK'
    BY <1>1, <1>2, IdleType DEF IInv, TypeOK, Locals
  <1>5. ASSUME NEW q \in Slots PROVE SlotInv(local[q])'
    <2>1. local'[q] = local[q] \/ local'[q] = Idle
      BY <1>1, <1>2
    <2>2. SlotInv(local[q]) /\ SlotInv(Idle)
      BY IdleType DEF IInv
    <2> QED
      BY <1>2, <2>1, <2>2 DEF SlotInv, HashSaved, UrlSaved
  <1>6. StoredInv'
    BY <1>1, <1>2 DEF IInv, StoredInv, HashSaved, UrlSaved, JobTypes
  <1>7. Stored \subseteq Stored'
    BY <1>1, <1>2, <1>3 DEF Stored
  <1>8. ShownInv'
    BY <1>2, <1>7 DEF IInv, ShownInv, Planned
  <1>9. ViewHonest'
    BY <1>2 DEF IInv, ViewHonest, Planned
  <1> QED
    BY <1>4, <1>5, <1>6, <1>8, <1>9 DEF IInv

LEMMA AbandonInv ==
  ASSUME IInv, NEW p \in Slots, Abandon(p)
  PROVE  IInv'
  <1>1. faults' \in [FaultKinds -> Nat]
    BY FaultType DEF Abandon, FaultKinds
  <1> QED
    BY <1>1, IdleType, QuietStepInv DEF Abandon

-----------------------------------------------------------------------------
(* What the pipeline shows, and the reader *)

LEMMA ShowInv ==
  ASSUME IInv,
         \/ \E j \in JobTypes : markCompleted(j)
         \/ \E J \in SUBSET completed : reopen(J)
         \/ \E b \in BOOLEAN : syncSubmissionStatus(b)
  PROVE  IInv'
  <1>1. UNCHANGED <<sample, iocs, results, local, view, faults>>
    BY DEF markCompleted, reopen, syncSubmissionStatus
  <1>2. TypeOK'
    BY <1>1 DEF IInv, TypeOK, markCompleted, reopen, syncSubmissionStatus
  <1>3. ShownInv'
    <2>1. Stored' = Stored /\ Planned' = Planned
      BY <1>1 DEF Stored, Planned
    <2> QED
      BY <1>1, <2>1 DEF IInv, ShownInv, markCompleted, reopen, syncSubmissionStatus
  <1>4. StoredInv' /\ ViewHonest' /\ \A p \in Slots : SlotInv(local[p])'
    BY <1>1 DEF IInv, StoredInv, ViewHonest, SlotInv, HashSaved, UrlSaved, Planned
  <1> QED
    BY <1>2, <1>3, <1>4 DEF IInv

LEMMA ViewType ==
  ASSUME NEW v \in Views, NEW d \in 0 .. 3, NEW b \in BOOLEAN, NEW c \in SUBSET JobTypes,
         NEW r \in [JobTypes -> Reports \cup {NoReport}]
  PROVE  [v EXCEPT !.done = d, !.closed = b, !.completed = c, !.results = r] \in Views
  BY DEF Views

LEMMA NoViewType == NoView \in Views
  BY DEF NoView, Views, JobTypes

\* A reader's step is harmless when the view it leaves is.
LEMMA ReadInv ==
  ASSUME IInv, view' \in Views,
         view'.completed \subseteq Stored, view'.closed => Planned \subseteq Stored,
         view'.done = 3 => view'.results = results,
         UNCHANGED <<sample, iocs, results, completed, closed, local, faults>>
  PROVE  IInv'
  <1>1. TypeOK'
    BY DEF IInv, TypeOK, Views
  <1>2. Stored' = Stored /\ Planned' = Planned
    BY DEF Stored, Planned
  <1>3. ShownInv'
    BY <1>2 DEF IInv, ShownInv
  <1>4. ViewHonest'
    BY <1>2, PlannedType DEF ViewHonest, QueryOrder, Stored
  <1>5. StoredInv' /\ \A p \in Slots : SlotInv(local[p])'
    BY DEF IInv, StoredInv, SlotInv, HashSaved, UrlSaved
  <1> QED
    BY <1>1, <1>3, <1>4, <1>5 DEF IInv

LEMMA ReaderInv ==
  ASSUME IInv, getAnalysis \/ respond
  PROVE  IInv'
  <1>1. /\ view \in Views /\ closed \in BOOLEAN /\ completed \subseteq JobTypes
        /\ results \in [JobTypes -> Reports \cup {NoReport}]
        /\ completed \subseteq Stored /\ view.completed \subseteq Stored
        /\ closed => Planned \subseteq Stored
        /\ view.closed => Planned \subseteq Stored
    BY DEF IInv, TypeOK, ShownInv, Views
  <1>2. CASE respond
    <2>1. NoView.completed = {} /\ NoView.closed = FALSE /\ NoView.done = 0
      BY DEF NoView
    <2> QED
      BY <1>2, <2>1, NoViewType, ReadInv DEF respond
  <1>3. CASE getAnalysis
    <2> DEFINE query == QueryOrder[view.done + 1]
    <2>1. /\ view.done \in 0 .. 2
          /\ UNCHANGED <<sample, iocs, results, completed, closed, local, faults>>
      BY <1>1, <1>3 DEF getAnalysis, QueryOrder, Views
    <2>2. view.done = 2 => query = "results"
      BY DEF QueryOrder
    <2>3. view' = [view EXCEPT
               !.done = @ + 1,
               !.closed    = IF query = "submission" THEN closed ELSE @,
               !.completed = IF query = "jobs" THEN completed ELSE @,
               !.results   = IF query = "results" THEN results ELSE @]
      BY <1>3 DEF getAnalysis
    <2> HIDE DEF query
    <2>4. /\ view'.done = view.done + 1
          /\ view'.completed = IF query = "jobs" THEN completed ELSE view.completed
          /\ view'.results = IF query = "results" THEN results ELSE view.results
      BY <1>1, <2>3 DEF Views
    <2>5. view'.closed = IF query = "submission" THEN closed ELSE view.closed
      BY <1>1, <2>3 DEF Views
    <2>6. view' \in Views
      <3> DEFINE b == IF query = "submission" THEN closed ELSE view.closed
                 c == IF query = "jobs" THEN completed ELSE view.completed
                 r == IF query = "results" THEN results ELSE view.results
      <3>1. /\ view.done + 1 \in 0 .. 3 /\ b \in BOOLEAN /\ c \in SUBSET JobTypes
            /\ r \in [JobTypes -> Reports \cup {NoReport}]
        BY <1>1, <2>1 DEF Views
      <3>2. view' = [view EXCEPT !.done = view.done + 1, !.closed = b,
                                 !.completed = c, !.results = r]
        BY <2>3
      <3> HIDE DEF b, c, r
      <3> QED
        BY <1>1, <3>1, <3>2, ViewType
    <2> QED
      BY <1>1, <2>1, <2>2, <2>4, <2>5, <2>6, ReadInv
  <1> QED
    BY <1>2, <1>3

-----------------------------------------------------------------------------
(* The theorems for overlapping and single runs alike *)

LEMMA InitInv == Init => IInv
  <1> SUFFICES ASSUME Init PROVE IInv
    OBVIOUS
  <1>1. TypeOK
    BY NoViewType, IdleType DEF Init, TypeOK, Views, Locals, IocTypes
  <1>2. Stored = {}
    BY DEF Init, Stored
  <1>3. \A p \in Slots : SlotInv(local[p])
    BY IdleType DEF Init
  <1>4. view.completed = {} /\ view.closed = FALSE /\ view.done = 0
    BY DEF Init, NoView
  <1> QED
    BY <1>1, <1>2, <1>3, <1>4
       DEF Init, IInv, StoredInv, ShownInv, ViewHonest, QueryOrder, JobTypes

LEMMA StutterInv ==
  ASSUME IInv, UNCHANGED vars
  PROVE  IInv'
  BY DEF IInv, TypeOK, SlotInv, StoredInv, ShownInv, ViewHonest, HashSaved, UrlSaved,
         Stored, Planned, vars

LEMMA NextInv ==
  ASSUME IInv, [Next]_vars
  PROVE  IInv'
  <1>1. ASSUME NEW p \in Slots, SlotStep(p) PROVE IInv'
    BY <1>1, ScanInv, IocInv, AnalyzerInv, StoreInv, AbandonInv DEF SlotStep
  <1>2. ASSUME NEW p \in Slots, NEW j \in JobTypes, dispatch(p, j) PROVE IInv'
    BY <1>2, DispatchInv
  <1> QED
    BY <1>1, <1>2, ShowInv, ReaderInv, StutterInv DEF Next

\* The invariant from which the properties follow.
THEOREM Invariance == Spec => []IInv
  <1>1. IInv /\ [Next]_vars => IInv'
    BY NextInv
  <1> QED
    BY <1>1, InitInv, PTL DEF Spec

\* Every variable keeps its type: no analyzer stores a score outside 0 to 100 or a
\* severity that does not exist.
THEOREM TypeCorrect == Spec => []TypeOK
  <1>1. IInv => TypeOK
    BY DEF IInv
  <1> QED
    BY <1>1, Invariance, PTL

\* A stored result never lacks its hash or URL among the IOCs, whatever crashed
\* and however many slots ran the same job at once.
THEOREM ResultsHaveIocs == Spec => []ResultHasIocs
  <1>1. IInv => ResultHasIocs
    BY DEF IInv, StoredInv, HashSaved, UrlSaved, ResultHasIocs
  <1> QED
    BY <1>1, Invariance, PTL

\* What GET /analysis/:id shows as completed it shows with results, although its
\* queries are not one transaction.
THEOREM ViewsHonest == Spec => []ViewHonest
  <1>1. IInv => ViewHonest
    BY DEF IInv
  <1> QED
    BY <1>1, Invariance, PTL

-----------------------------------------------------------------------------
(* While no two slots run the same job *)

AiReports == Summaries(NoReport) \cup Summaries(results["static_analysis"])

\* No job is run twice at a time or once its result is stored, so that what a slot
\* found of its IOCs and of the static report is still true when it uses it.
AloneInv ==
    /\ \A p, q \in Slots : p # q /\ local[p].job # "none" => local[p].job # local[q].job
    /\ \A p \in Slots : local[p].job # "none" => results[local[p].job] = NoReport
    /\ \A t \in IocTypes : iocs[t] <= 1
    /\ \A p \in Slots : local[p].pc = "iocCreate" => iocs[Head(local[p].todo)] = 0
    /\ results["ai_summary"] \in {NoReport} \cup AiReports
    /\ \A p \in Slots :
         local[p].pc = "store" /\ local[p].job = "ai_summary" => local[p].report \in AiReports

\* A slot that stores nothing and goes on alone.
LEMMA AloneStep ==
  ASSUME IInv, AloneInv, NEW p \in Slots, NEW l \in Locals, Become(p, l), results' = results,
         l.job # "none" => /\ results[l.job] = NoReport
                           /\ \A q \in Slots : q # p => local[q].job # l.job,
         \A t \in IocTypes : iocs'[t] <= 1,
         l.pc = "iocCreate" => iocs'[Head(l.todo)] = 0,
         \A q \in Slots : q # p /\ local[q].pc = "iocCreate"
                             => iocs'[Head(local[q].todo)] = 0,
         l.pc = "store" /\ l.job = "ai_summary" => l.report \in AiReports
  PROVE  AloneInv'
  <1>1. local' = [local EXCEPT ![p] = l] /\ local \in [Slots -> Locals]
    BY DEF IInv, TypeOK, Locals, Become
  <1>2. local'[p] = l /\ \A q \in Slots : q # p => local'[q] = local[q]
    BY <1>1
  <1>3. AiReports' = AiReports
    BY DEF AiReports
  <1> QED
    BY <1>2, <1>3 DEF AloneInv

\* The same for a slot that keeps its job or drops it, and touches no IOC.
LEMMA AloneQuietStep ==
  ASSUME IInv, AloneInv, NEW p \in Slots, NEW l \in Locals, Become(p, l),
         results' = results, iocs' = iocs, l.job \in {"none", local[p].job},
         l.pc = "iocCreate" => iocs[Head(l.todo)] = 0,
         l.pc = "store" /\ l.job = "ai_summary" => l.report \in AiReports
  PROVE  AloneInv'
  <1>1. l.job # "none" => /\ results[l.job] = NoReport
                          /\ \A q \in Slots : q # p => local[q].job # l.job
    BY DEF AloneInv
  <1>2. /\ \A t \in IocTypes : iocs'[t] <= 1
        /\ l.pc = "iocCreate" => iocs'[Head(l.todo)] = 0
        /\ \A q \in Slots : q # p /\ local[q].pc = "iocCreate"
                             => iocs'[Head(local[q].todo)] = 0
    BY DEF AloneInv
  <1> QED
    BY <1>1, <1>2, AloneStep

LEMMA DispatchAlone ==
  ASSUME IInv, AloneInv, ~Overlap', NEW p \in Slots, NEW j \in JobTypes, dispatch(p, j)
  PROVE  AloneInv'
  <1>1. PICK l \in Locals : l = [local[p] EXCEPT !.job = j]
    BY SlotFacts DEF Locals
  <1>2. l.job = j
    BY <1>1, SlotFacts DEF Locals
  <1> DEFINE todo == IF sample.sha256 THEN <<"hash">> ELSE <<>>
             n == [l EXCEPT !.todo = todo]
             m == Dispatched(l)
  <1>3. m \in Locals /\ m.job = j /\ m.pc # "iocCreate" /\ ~(m.pc = "store" /\ j = "ai_summary")
    <2>1. CASE j = "static_analysis"
      <3>1. todo \in Seq(IocTypes)
        <4>1. <<"hash">> \in Seq(IocTypes) /\ <<>> \in Seq(IocTypes)
          BY DEF IocTypes
        <4> QED
          BY <4>1
      <3> HIDE DEF todo
      <3>2. n \in Locals /\ n.job = j
        BY <1>2, <3>1 DEF Locals
      <3>3. m = AfterIocs(n)
        BY <1>2, <2>1 DEF Dispatched, todo
      <3> HIDE DEF m, n
      <3> QED
        BY <2>1, <3>2, <3>3, AfterIocsFields
    <2>2. CASE j = "sandbox"
      BY <1>2, <2>2 DEF Dispatched, Locals, Labels
    <2>3. CASE j = "url_scan"
      BY <1>2, <2>3 DEF Dispatched, Locals, Labels
    <2>4. CASE j = "ai_summary"
      BY <1>2, <2>4 DEF Dispatched, Locals, Labels
    <2> QED
      BY <2>1, <2>2, <2>3, <2>4 DEF JobTypes
  <1>4. /\ results[j] = NoReport /\ \A q \in Slots : local[q].job # j
        /\ results' = results /\ iocs' = iocs
    <2>1. ~Fault("expiry")
      BY FaultType DEF Overlap, FaultKinds
    <2> QED
      BY <2>1, PlannedType DEF dispatch, Stored
  <1>5. Become(p, m)
    BY <1>1 DEF dispatch
  <1> HIDE DEF m
  <1>6. /\ \A t \in IocTypes : iocs'[t] <= 1
        /\ \A q \in Slots : q # p /\ local[q].pc = "iocCreate"
                             => iocs'[Head(local[q].todo)] = 0
    BY <1>4 DEF AloneInv
  <1> QED
    BY <1>3, <1>4, <1>5, <1>6, AloneStep

LEMMA ScanAlone ==
  ASSUME IInv, AloneInv, NEW p \in Slots, analyzeUrl(p)
  PROVE  AloneInv'
  <1>1. /\ local[p] \in Locals /\ local[p].job = "url_scan"
    BY SlotFacts DEF analyzeUrl, At, SlotInv
  <1>2. PICK threats \in BOOLEAN :
          Become(p, AfterIocs([local[p] EXCEPT
             !.report = ReportOf(urlRisk(sample.url, threats)),
             !.todo = IF sample.url.valid THEN <<"url", "domain">> ELSE <<"url">>]))
    BY DEF analyzeUrl
  <1> DEFINE r == ReportOf(urlRisk(sample.url, threats))
             todo == IF sample.url.valid THEN <<"url", "domain">> ELSE <<"url">>
             n == [local[p] EXCEPT !.report = r, !.todo = todo]
             m == AfterIocs(n)
  <1>3. r \in Reports
    BY UrlRiskInRange, SampleParts, ReportType DEF IInv
  <1>4. todo \in Seq(IocTypes)
    <2>1. <<"url", "domain">> \in Seq(IocTypes) /\ <<"url">> \in Seq(IocTypes)
      BY DEF IocTypes
    <2> QED
      BY <2>1
  <1>5. Become(p, m)
    BY <1>2
  <1> HIDE DEF r, todo
  <1>6. n \in Locals /\ n.job = "url_scan"
    BY <1>1, <1>3, <1>4 DEF Locals
  <1> HIDE DEF n
  <1>7. m \in Locals /\ m.job = "url_scan" /\ m.pc # "iocCreate"
    BY <1>6, AfterIocsFields
  <1> HIDE DEF m
  <1> QED
    BY <1>1, <1>5, <1>7, AloneQuietStep DEF analyzeUrl

LEMMA SavedFields ==
  ASSUME NEW l \in Locals, SlotInv(l), l.pc \in IocSteps
  PROVE  /\ Saved(l) \in Locals /\ Saved(l).job = l.job
         /\ Saved(l).pc # "iocCreate" /\ l.job # "ai_summary"
  <1> DEFINE n == [l EXCEPT !.todo = Tail(@)]
  <1>1. Tail(l.todo) \in Seq(IocTypes)
    <2>1. l.todo \in Seq(IocTypes)
      BY DEF Locals
    <2>2. \/ l.todo = <<"hash">> \/ l.todo = <<"url", "domain">>
          \/ l.todo = <<"url">> \/ l.todo = <<"domain">>
      BY DEF SlotInv
    <2>3. l.todo # <<>>
      BY <2>2, SMTT(30)
    <2> QED
      BY <2>1, <2>3
  <1>2. n \in Locals /\ n.job = l.job
    BY <1>1 DEF Locals
  <1>3. Saved(l) = AfterIocs(n)
    BY DEF Saved
  <1> HIDE DEF n
  <1>4. Saved(l) \in Locals /\ Saved(l).job = l.job /\ Saved(l).pc # "iocCreate"
    BY <1>2, <1>3, AfterIocsFields
  <1>5. l.job # "ai_summary"
    BY DEF SlotInv
  <1> QED
    BY <1>4, <1>5

\* The IOCs of two analyzers are of different types.
LEMMA OtherHead ==
  ASSUME NEW l \in Locals, NEW m \in Locals, SlotInv(l), SlotInv(m), l.job # m.job,
         l.pc \in IocSteps, m.pc \in IocSteps
  PROVE  Head(l.todo) # Head(m.todo)
  <1>1. /\ l.job \in {"static_analysis", "url_scan"}
        /\ l.job = "static_analysis" => Head(l.todo) = "hash"
        /\ l.job = "url_scan" => Head(l.todo) \in {"url", "domain"}
    BY DEF SlotInv
  <1>2. /\ m.job \in {"static_analysis", "url_scan"}
        /\ m.job = "static_analysis" => Head(m.todo) = "hash"
        /\ m.job = "url_scan" => Head(m.todo) \in {"url", "domain"}
    BY DEF SlotInv
  <1> QED
    BY <1>1, <1>2

LEMMA IocAlone ==
  ASSUME IInv, AloneInv, NEW p \in Slots,
         findIoc(p) \/ createIoc(p) \/ swallowDomainError(p)
  PROVE  AloneInv'
  <1>0. PICK l \in Locals : l = local[p]
    BY SlotFacts
  <1> DEFINE t == Head(l.todo)
             m == [l EXCEPT !.pc = "iocCreate"]
  <1>1. /\ SlotInv(l) /\ iocs \in [IocTypes -> Nat] /\ l.pc \in IocSteps
        /\ results' = results
    BY <1>0, SlotFacts DEF findIoc, createIoc, swallowDomainError, At, IocSteps
  <1>2. /\ Saved(l) \in Locals /\ Saved(l).job = l.job
        /\ Saved(l).pc # "iocCreate" /\ l.job # "ai_summary"
    BY <1>1, SavedFields
  <1>3. CASE Become(p, Saved(l)) /\ iocs' = iocs
    BY <1>0, <1>1, <1>2, <1>3, AloneQuietStep
  <1>4. CASE Become(p, m) /\ iocs' = iocs /\ iocs[t] = 0
    <2>1. m \in Locals /\ m.job = l.job /\ m.todo = l.todo /\ m.pc = "iocCreate"
      BY DEF Locals, Labels
    <2> HIDE DEF m
    <2> QED
      BY <1>0, <1>1, <1>4, <2>1, AloneQuietStep
  <1>5. CASE createIoc(p)
    <2>1. t \in IocTypes
      BY <1>1, HeadType
    <2>2. iocs[t] = 0 /\ l.job # "none"
      BY <1>0, <1>1, <1>5 DEF AloneInv, createIoc, At, SlotInv, IocSteps
    <2>3. iocs' = [iocs EXCEPT ![t] = @ + 1] /\ Become(p, Saved(l))
      BY <1>0, <1>5 DEF createIoc
    <2>4. \A q \in Slots : q # p /\ local[q].pc = "iocCreate" => Head(local[q].todo) # t
      <3> SUFFICES ASSUME NEW q \in Slots, q # p, local[q].pc = "iocCreate"
                   PROVE  Head(local[q].todo) # t
        OBVIOUS
      <3>1. local[q].job # l.job
        BY <1>0, <2>2 DEF AloneInv
      <3>2. local[q] \in Locals /\ SlotInv(local[q]) /\ local[q].pc \in IocSteps
        BY SlotFacts DEF IocSteps
      <3> QED
        BY <1>1, <3>1, <3>2, OtherHead
    <2>5. \A q \in Slots : local[q].pc = "iocCreate" => Head(local[q].todo) \in IocTypes
      BY SlotFacts, HeadType DEF IocSteps
    <2> HIDE DEF t
    <2>6. \A u \in IocTypes : iocs'[u] <= 1
      BY <1>1, <2>1, <2>2, <2>3 DEF AloneInv
    <2>7. \A q \in Slots : q # p /\ local[q].pc = "iocCreate"
                             => iocs'[Head(local[q].todo)] = 0
      BY <1>1, <2>1, <2>3, <2>4, <2>5 DEF AloneInv
    <2>8. results[l.job] = NoReport /\ \A q \in Slots : q # p => local[q].job # l.job
      BY <1>0, <2>2 DEF AloneInv
    <2> QED
      BY <1>1, <1>2, <2>3, <2>6, <2>7, <2>8, AloneStep
  <1>6. CASE findIoc(p)
    <2>1. t \in IocTypes
      BY <1>1, HeadType
    <2>2. iocs[t] > 0 \/ iocs[t] = 0
      BY <1>1, <2>1
    <2> QED
      BY <1>0, <1>3, <1>4, <1>6, <2>2 DEF findIoc
  <1>7. CASE swallowDomainError(p)
    BY <1>0, <1>3, <1>7 DEF swallowDomainError
  <1> QED
    BY <1>5, <1>6, <1>7

LEMMA ReportAlone ==
  ASSUME IInv, AloneInv, NEW p \in Slots, NEW report \in Reports,
         local[p].pc \in {"download", "sandbox"} \/ report \in AiReports,
         local[p].pc \in {"download", "sandbox", "aiRead"},
         Become(p, [local[p] EXCEPT !.pc = "store", !.report = report]),
         results' = results, iocs' = iocs
  PROVE  AloneInv'
  <1> DEFINE m == [local[p] EXCEPT !.pc = "store", !.report = report]
  <1>1. m \in Locals /\ m.pc = "store" /\ m.job = local[p].job /\ m.report = report
    BY SlotFacts DEF Locals, Labels
  <1>2. local[p].job = "ai_summary" => report \in AiReports
    BY SlotFacts DEF SlotInv
  <1>3. Become(p, m)
    OBVIOUS
  <1> HIDE DEF m
  <1> QED
    BY <1>1, <1>2, <1>3, AloneQuietStep

LEMMA AnalyzerAlone ==
  ASSUME IInv, AloneInv, NEW p \in Slots,
         analyzeFile(p) \/ runSandbox(p) \/ readStaticReport(p)
  PROVE  AloneInv'
  <1>1. CASE analyzeFile(p)
    <2>1. PICK downloaded \in BOOLEAN :
            Become(p, [local[p] EXCEPT !.pc = "store",
                         !.report = ReportOf(staticRisk(sample.file, downloaded))])
      BY <1>1 DEF analyzeFile
    <2>2. ReportOf(staticRisk(sample.file, downloaded)) \in Reports
      BY StaticRiskInRange, SampleParts, ReportType DEF IInv
    <2> QED
      BY <1>1, <2>1, <2>2, ReportAlone DEF analyzeFile, At
  <1>2. CASE runSandbox(p)
    <2>1. PICK found \in Found \cup {0} :
            Become(p, [local[p] EXCEPT !.pc = "store", !.report = ReportOf(sandboxRisk(found))])
      BY <1>2 DEF runSandbox
    <2>2. ReportOf(sandboxRisk(found)) \in Reports
      BY ResultsAssumption, SandboxRiskInRange, ReportType
    <2> QED
      BY <1>2, <2>1, <2>2, ReportAlone DEF runSandbox, At
  <1>3. CASE readStaticReport(p)
    <2>1. PICK summary \in Summaries(results["static_analysis"]) :
            Become(p, [local[p] EXCEPT !.pc = "store", !.report = summary])
      BY <1>3 DEF readStaticReport
    <2>2. summary \in Reports
      BY SummaryType DEF IInv, TypeOK, JobTypes
    <2> QED
      BY <1>3, <2>1, <2>2, ReportAlone DEF readStaticReport, At, AiReports
  <1> QED
    BY <1>1, <1>2, <1>3

\* A summary made before the static report is stored is the summary of none.
LEMMA StoreAlone ==
  ASSUME IInv, AloneInv, NEW p \in Slots, createResult(p)
  PROVE  AloneInv'
  <1> DEFINE j == local[p].job
             report == local[p].report
  <1>1. /\ local \in [Slots -> Locals] /\ results \in [JobTypes -> Reports \cup {NoReport}]
        /\ local[p].pc = "store" /\ j \in JobTypes /\ j # "none"
    BY SlotFacts DEF IInv, TypeOK, Locals, createResult, At, SlotInv, JobTypes
  <1>2. /\ j = "ai_summary" => report \in AiReports
        /\ results[j] = NoReport
        /\ \A q \in Slots : q # p => local[q].job # j
    BY <1>1 DEF AloneInv
  <1>3. /\ results' = [results EXCEPT ![j] = report] /\ iocs' = iocs
        /\ local' = [local EXCEPT ![p] = Idle]
    BY DEF createResult, Become
  <1> HIDE DEF j, report
  <1>4. /\ Idle.job = "none" /\ Idle.pc = "idle"
        /\ local'[p] = Idle /\ \A q \in Slots : q # p => local'[q] = local[q]
    BY <1>1, <1>3 DEF Idle
  <1>5. AiReports \subseteq AiReports' \/ j = "static_analysis"
    BY <1>1, <1>3 DEF AiReports, JobTypes
  <1>6. j = "static_analysis" => AiReports = Summaries(NoReport)
    BY <1>2 DEF AiReports
  <1>7. AiReports \subseteq AiReports'
    BY <1>5, <1>6 DEF AiReports
  <1>8. (\A q \in Slots : local[q].job # "none" => results[local[q].job] = NoReport)'
    <2> SUFFICES ASSUME NEW q \in Slots, q # p, local[q].job # "none"
                 PROVE  results'[local[q].job] = NoReport
      BY <1>4
    <2>1. local[q].job \in JobTypes /\ local[q].job # j /\ results[local[q].job] = NoReport
      BY <1>1, <1>2 DEF AloneInv, Locals
    <2> QED
      BY <1>1, <1>3, <2>1
  <1>9. (results["ai_summary"] \in {NoReport} \cup AiReports)'
    <2>1. CASE j = "ai_summary"
      BY <1>1, <1>2, <1>3, <1>7, <2>1
    <2>2. CASE j # "ai_summary"
      <3>1. results'["ai_summary"] = results["ai_summary"]
        BY <1>1, <1>3, <2>2 DEF JobTypes
      <3> QED
        BY <1>7, <3>1 DEF AloneInv
    <2> QED
      BY <2>1, <2>2
  <1> QED
    BY <1>3, <1>4, <1>7, <1>8, <1>9 DEF AloneInv

LEMMA AloneNext ==
  ASSUME IInv, AloneInv, ~Overlap', [Next]_vars
  PROVE  AloneInv'
  <1>1. ASSUME NEW p \in Slots, Abandon(p) PROVE AloneInv'
    <2>1. Idle \in Locals /\ Idle.job = "none" /\ Idle.pc = "idle"
      BY IdleType DEF Idle
    <2> QED
      BY <1>1, <2>1, AloneQuietStep DEF Abandon
  <1>2. ASSUME NEW p \in Slots, SlotStep(p) PROVE AloneInv'
    BY <1>1, <1>2, ScanAlone, IocAlone, AnalyzerAlone, StoreAlone DEF SlotStep
  <1>3. ASSUME NEW p \in Slots, NEW j \in JobTypes, dispatch(p, j) PROVE AloneInv'
    BY <1>3, DispatchAlone
  <1>4. ASSUME UNCHANGED <<local, results, iocs>> PROVE AloneInv'
    BY <1>4 DEF AloneInv, AiReports
  <1>5. CASE \/ \E j \in JobTypes : markCompleted(j)
             \/ \E J \in SUBSET completed : reopen(J)
             \/ \E b \in BOOLEAN : syncSubmissionStatus(b)
    BY <1>4, <1>5 DEF markCompleted, reopen, syncSubmissionStatus
  <1>6. CASE getAnalysis \/ respond \/ UNCHANGED vars
    BY <1>4, <1>6 DEF getAnalysis, respond, vars
  <1> QED
    BY <1>2, <1>3, <1>5, <1>6 DEF Next

LEMMA AloneInit == Init => AloneInv
  <1> SUFFICES ASSUME Init PROVE AloneInv
    OBVIOUS
  <1>1. \A p \in Slots : local[p].job = "none" /\ local[p].pc = "idle"
    BY DEF Init, Idle
  <1>2. (\A t \in IocTypes : iocs[t] = 0) /\ results["ai_summary"] = NoReport
    BY DEF Init, JobTypes
  <1> QED
    BY <1>1, <1>2 DEF AloneInv

\* Faults are only counted up.
LEMMA OverlapStays ==
  ASSUME IInv, Overlap, [Next]_vars
  PROVE  Overlap'
  <1>1. faults \in [FaultKinds -> Nat]
    BY DEF IInv, TypeOK
  <1>2. faults' = faults \/ Fault("failure") \/ Fault("expiry")
    <2>1. ASSUME NEW p \in Slots, SlotStep(p) PROVE faults' = faults \/ Fault("failure")
      BY <2>1 DEF SlotStep, analyzeUrl, findIoc, createIoc, swallowDomainError,
                  analyzeFile, runSandbox, readStaticReport, createResult, Abandon
    <2>2. ASSUME NEW p \in Slots, NEW j \in JobTypes, dispatch(p, j)
          PROVE  faults' = faults \/ Fault("expiry")
      BY <2>2 DEF dispatch
    <2>3. CASE \/ \E j \in JobTypes : markCompleted(j)
               \/ \E J \in SUBSET completed : reopen(J)
      BY <2>3 DEF markCompleted, reopen
    <2>4. ASSUME NEW b \in BOOLEAN, syncSubmissionStatus(b) PROVE faults' = faults
      BY <2>4 DEF syncSubmissionStatus
    <2>5. ASSUME getAnalysis \/ respond \/ UNCHANGED vars PROVE faults' = faults
      BY <2>5 DEF getAnalysis, respond, vars
    <2> QED
      BY <2>1, <2>2, <2>3, <2>4, <2>5 DEF Next
  <1>3. faults'["expiry"] \in Nat /\ faults'["expiry"] >= faults["expiry"]
    BY <1>1, <1>2, FaultType DEF FaultKinds
  <1> QED
    BY <1>1, <1>3 DEF Overlap, FaultKinds

LEMMA AloneInvariance == Spec => [](Overlap \/ AloneInv)
  <1>1. IInv /\ (Overlap \/ AloneInv) /\ [Next]_vars => (Overlap \/ AloneInv)'
    BY AloneNext, OverlapStays
  <1> QED
    BY <1>1, AloneInit, Invariance, PTL DEF Spec

\* However often analyses are retried, no IOC is stored twice as long as no job is
\* run by two slots at once.
THEOREM IocsNotDoubled == Spec => []NoDuplicateIocs
  <1>1. Overlap \/ AloneInv => NoDuplicateIocs
    BY DEF AloneInv, NoDuplicateIocs
  <1> QED
    BY <1>1, AloneInvariance, PTL

\* A summary has the severity and the score of the submission's static report, or of
\* none at all, and quotes that riskScore unless the language model wrote it, as long
\* as no job is run by two slots at once.
THEOREM SummariesOfStatic == Spec => []SummaryOfStatic
  <1>1. Overlap \/ AloneInv => SummaryOfStatic
    BY DEF AloneInv, AiReports, SummaryOfStatic
  <1> QED
    BY <1>1, AloneInvariance, PTL

-----------------------------------------------------------------------------
(* The severity beside a score *)

\* A report with a score has the severity this score calls for.
Consistent(report) ==
    report.score # NoScore => report.severity = scoreToSeverity(report.score)

\* So have the reports in the slots, the stored ones and what the reader has read.
ReportsInv ==
    /\ \A p \in Slots : Consistent(local[p].report)
    /\ \A j \in JobTypes : Consistent(results[j]) /\ Consistent(view.results[j])

LEMMA ConsistentReports ==
  /\ Consistent(NoReport)
  /\ \A risk \in 0 .. 100 : Consistent(ReportOf(risk))
  /\ \A report \in Reports \cup {NoReport} :
       Consistent(report) => \A summary \in Summaries(report) : Consistent(summary)
  <1>1. /\ Consistent(NoReport)
        /\ \A risk \in 0 .. 100 : Consistent(ReportOf(risk))
    BY DEF Consistent, NoReport, ReportOf, NoScore
  <1>2. ASSUME NEW report \in Reports \cup {NoReport}, Consistent(report),
               NEW summary \in Summaries(report)
        PROVE  Consistent(summary)
    <2>1. CASE report = NoReport
      <3>1. summary.score = NoScore
        BY <1>2, <2>1 DEF Summaries
      <3> QED
        BY <3>1 DEF Consistent
    <2>2. CASE report # NoReport
      <3>1. summary = report \/ summary = [report EXCEPT !.quoted = AnyQuote]
        BY <2>2 DEF Summaries
      <3>2. summary.score = report.score /\ summary.severity = report.severity
        BY <2>2, <3>1 DEF Reports
      <3> QED
        BY <1>2, <3>2 DEF Consistent
    <2> QED
      BY <2>1, <2>2
  <1> QED
    BY <1>1, <1>2

\* Saving IOCs leaves the report alone.
LEMMA AfterIocsReport ==
  ASSUME NEW l \in Locals
  PROVE  AfterIocs(l).report = l.report
  BY AfterIocsFields

\* A slot that stores nothing and carries a consistent report.
LEMMA ReportsStep ==
  ASSUME IInv, ReportsInv, NEW p \in Slots, NEW l, Become(p, l),
         Consistent(l.report), UNCHANGED <<results, view>>
  PROVE  ReportsInv'
  <1>1. local \in [Slots -> Locals] /\ local' = [local EXCEPT ![p] = l]
    BY DEF IInv, TypeOK, Locals, Become
  <1>2. ASSUME NEW q \in Slots PROVE Consistent(local'[q].report)
    BY <1>1 DEF ReportsInv
  <1> QED
    BY <1>2 DEF ReportsInv

LEMMA DispatchReports ==
  ASSUME IInv, ReportsInv, NEW p \in Slots, NEW j \in JobTypes, dispatch(p, j)
  PROVE  ReportsInv'
  <1>1. PICK l \in Locals : l = [local[p] EXCEPT !.job = j]
    BY SlotFacts DEF Locals
  <1> DEFINE todo == IF sample.sha256 THEN <<"hash">> ELSE <<>>
             n == [l EXCEPT !.todo = todo]
             m == Dispatched(l)
  <1>2. l.job = j /\ l.report = local[p].report
    BY <1>1, SlotFacts DEF Locals
  <1>3. n \in Locals /\ n.report = l.report /\ n.job = j
    <2>1. todo \in Seq(IocTypes)
      <3>1. <<"hash">> \in Seq(IocTypes) /\ <<>> \in Seq(IocTypes)
        BY DEF IocTypes
      <3> QED
        BY <3>1
    <2> HIDE DEF todo
    <2> QED
      BY <1>2, <2>1 DEF Locals
  <1>4. m.report = l.report
    <2>1. CASE j = "static_analysis"
      <3>1. m = AfterIocs(n)
        BY <1>2, <2>1 DEF Dispatched
      <3> HIDE DEF m, n
      <3> QED
        BY <1>3, <3>1, AfterIocsReport
    <2>2. CASE j # "static_analysis"
      BY <1>2, <2>2 DEF Dispatched, JobTypes, Locals
    <2> QED
      BY <2>1, <2>2
  <1>5. Consistent(m.report) /\ Become(p, m)
    BY <1>1, <1>2, <1>4 DEF ReportsInv, dispatch
  <1> HIDE DEF m
  <1> QED
    BY <1>5, ReportsStep DEF dispatch

LEMMA ScanReports ==
  ASSUME IInv, ReportsInv, NEW p \in Slots, analyzeUrl(p)
  PROVE  ReportsInv'
  <1>1. PICK threats \in BOOLEAN :
          Become(p, AfterIocs([local[p] EXCEPT
             !.report = ReportOf(urlRisk(sample.url, threats)),
             !.todo = IF sample.url.valid THEN <<"url", "domain">> ELSE <<"url">>]))
    BY DEF analyzeUrl
  <1> DEFINE r == ReportOf(urlRisk(sample.url, threats))
             todo == IF sample.url.valid THEN <<"url", "domain">> ELSE <<"url">>
             n == [local[p] EXCEPT !.report = r, !.todo = todo]
             m == AfterIocs(n)
  <1>2. r \in Reports /\ Consistent(r)
    BY UrlRiskInRange, SampleParts, ReportType, ConsistentReports DEF IInv
  <1>3. todo \in Seq(IocTypes)
    <2>1. <<"url", "domain">> \in Seq(IocTypes) /\ <<"url">> \in Seq(IocTypes)
      BY DEF IocTypes
    <2> QED
      BY <2>1
  <1>4. Become(p, m)
    BY <1>1
  <1> HIDE DEF r, todo
  <1>5. n \in Locals /\ n.report = r
    BY <1>2, <1>3, SlotFacts DEF Locals
  <1> HIDE DEF n
  <1>6. m.report = r
    BY <1>5, AfterIocsReport
  <1> HIDE DEF m
  <1> QED
    BY <1>2, <1>4, <1>6, ReportsStep DEF analyzeUrl

LEMMA IocReports ==
  ASSUME IInv, ReportsInv, NEW p \in Slots,
         findIoc(p) \/ createIoc(p) \/ swallowDomainError(p)
  PROVE  ReportsInv'
  <1>1. PICK l \in Locals : l = local[p]
    BY SlotFacts
  <1> DEFINE n == [l EXCEPT !.todo = Tail(@)]
             m == [l EXCEPT !.pc = "iocCreate"]
  <1>2. SlotInv(l) /\ l.pc \in IocSteps
    BY <1>1, SlotFacts DEF findIoc, createIoc, swallowDomainError, At, IocSteps
  <1>3. Saved(l).report = l.report
    <2>1. Tail(l.todo) \in Seq(IocTypes)
      <3>1. l.todo \in Seq(IocTypes)
        BY DEF Locals
      <3>2. \/ l.todo = <<"hash">> \/ l.todo = <<"url", "domain">>
            \/ l.todo = <<"url">> \/ l.todo = <<"domain">>
        BY <1>2 DEF SlotInv
      <3>3. l.todo # <<>>
        BY <3>2, SMTT(30)
      <3> QED
        BY <3>1, <3>3
    <2>2. n \in Locals /\ n.report = l.report
      BY <2>1 DEF Locals
    <2>3. Saved(l) = AfterIocs(n)
      BY DEF Saved
    <2> HIDE DEF n
    <2> QED
      BY <2>2, <2>3, AfterIocsReport
  <1>4. m.report = l.report
    BY DEF Locals
  <1>5. Consistent(Saved(l).report) /\ Consistent(m.report)
    BY <1>1, <1>3, <1>4 DEF ReportsInv
  <1>6. Become(p, Saved(l)) \/ Become(p, m)
    BY <1>1 DEF findIoc, createIoc, swallowDomainError
  <1>7. UNCHANGED <<results, view>>
    BY DEF findIoc, createIoc, swallowDomainError
  <1> HIDE DEF m
  <1> QED
    BY <1>5, <1>6, <1>7, ReportsStep

\* An analyzer reports a score of its own, or what the static report says.
LEMMA AnalyzerReports ==
  ASSUME IInv, ReportsInv, NEW p \in Slots,
         analyzeFile(p) \/ runSandbox(p) \/ readStaticReport(p)
  PROVE  ReportsInv'
  <1>1. PICK report : /\ Consistent(report)
                      /\ Become(p, [local[p] EXCEPT !.pc = "store", !.report = report])
    <2>1. CASE analyzeFile(p)
      <3>1. PICK downloaded \in BOOLEAN :
              Become(p, [local[p] EXCEPT !.pc = "store",
                           !.report = ReportOf(staticRisk(sample.file, downloaded))])
        BY <2>1 DEF analyzeFile
      <3>2. Consistent(ReportOf(staticRisk(sample.file, downloaded)))
        BY StaticRiskInRange, SampleParts, ConsistentReports DEF IInv
      <3> QED
        BY <3>1, <3>2
    <2>2. CASE runSandbox(p)
      <3>1. PICK found \in Found \cup {0} :
              Become(p, [local[p] EXCEPT !.pc = "store",
                           !.report = ReportOf(sandboxRisk(found))])
        BY <2>2 DEF runSandbox
      <3>2. Consistent(ReportOf(sandboxRisk(found)))
        BY ResultsAssumption, SandboxRiskInRange, ConsistentReports
      <3> QED
        BY <3>1, <3>2
    <2>3. CASE readStaticReport(p)
      <3>1. PICK summary \in Summaries(results["static_analysis"]) :
              Become(p, [local[p] EXCEPT !.pc = "store", !.report = summary])
        BY <2>3 DEF readStaticReport
      <3>2. Consistent(summary)
        BY ConsistentReports DEF IInv, TypeOK, ReportsInv, JobTypes
      <3> QED
        BY <3>1, <3>2
    <2> QED
      BY <2>1, <2>2, <2>3
  <1> DEFINE m == [local[p] EXCEPT !.pc = "store", !.report = report]
  <1>2. m.report = report
    BY SlotFacts DEF Locals
  <1>3. Become(p, m)
    BY <1>1
  <1> HIDE DEF m
  <1>4. UNCHANGED <<results, view>>
    BY DEF analyzeFile, runSandbox, readStaticReport
  <1> QED
    BY <1>1, <1>2, <1>3, <1>4, ReportsStep

LEMMA StoreReports ==
  ASSUME IInv, ReportsInv, NEW p \in Slots, createResult(p)
  PROVE  ReportsInv'
  <1>1. /\ local \in [Slots -> Locals] /\ results \in [JobTypes -> Reports \cup {NoReport}]
        /\ local[p].job \in JobTypes
    BY SlotFacts DEF IInv, TypeOK, Locals, createResult, At, SlotInv
  <1>2. /\ results' = [results EXCEPT ![local[p].job] = local[p].report]
        /\ local' = [local EXCEPT ![p] = Idle] /\ view' = view
    BY DEF createResult, Become
  <1>3. Consistent(Idle.report)
    BY ConsistentReports DEF Idle
  <1>4. ASSUME NEW q \in Slots PROVE Consistent(local'[q].report)
    BY <1>1, <1>2, <1>3 DEF ReportsInv
  <1>5. ASSUME NEW j \in JobTypes PROVE Consistent(results'[j])
    BY <1>1, <1>2 DEF ReportsInv
  <1> QED
    BY <1>2, <1>4, <1>5 DEF ReportsInv

LEMMA ReaderReports ==
  ASSUME IInv, ReportsInv, getAnalysis \/ respond
  PROVE  ReportsInv'
  <1>1. UNCHANGED <<results, local>>
    BY DEF getAnalysis, respond
  <1>2. view'.results = view.results \/ view'.results = results \/ view' = NoView
    <2>1. CASE getAnalysis
      <3>1. view \in Views
        BY DEF IInv, TypeOK, Views
      <3> DEFINE query == QueryOrder[view.done + 1]
      <3>2. view'.results = IF query = "results" THEN results ELSE view.results
        BY <2>1, <3>1 DEF getAnalysis, Views
      <3> QED
        BY <3>2
    <2> QED
      BY <2>1 DEF respond
  <1>3. ASSUME NEW j \in JobTypes PROVE Consistent(NoView.results[j])
    BY ConsistentReports DEF NoView
  <1> QED
    BY <1>1, <1>2, <1>3 DEF ReportsInv

LEMMA ReportsNext ==
  ASSUME IInv, ReportsInv, [Next]_vars
  PROVE  ReportsInv'
  <1>1. ASSUME NEW p \in Slots, Abandon(p) PROVE ReportsInv'
    BY <1>1, ConsistentReports, ReportsStep DEF Abandon, Idle
  <1>2. ASSUME NEW p \in Slots, SlotStep(p) PROVE ReportsInv'
    BY <1>1, <1>2, ScanReports, IocReports, AnalyzerReports, StoreReports DEF SlotStep
  <1>3. ASSUME NEW p \in Slots, NEW j \in JobTypes, dispatch(p, j) PROVE ReportsInv'
    BY <1>3, DispatchReports
  <1>4. ASSUME UNCHANGED <<local, results, view>> PROVE ReportsInv'
    BY <1>4 DEF ReportsInv
  <1>5. CASE \/ \E j \in JobTypes : markCompleted(j)
             \/ \E J \in SUBSET completed : reopen(J)
             \/ \E b \in BOOLEAN : syncSubmissionStatus(b)
    BY <1>4, <1>5 DEF markCompleted, reopen, syncSubmissionStatus
  <1>6. CASE UNCHANGED vars
    BY <1>4, <1>6 DEF vars
  <1> QED
    BY <1>2, <1>3, <1>5, <1>6, ReaderReports DEF Next

LEMMA ReportsInit == Init => ReportsInv
  BY ConsistentReports DEF Init, ReportsInv, Idle, NoView

LEMMA ReportsInvariance == Spec => [](IInv /\ ReportsInv)
  <1>1. IInv /\ ReportsInv /\ [Next]_vars => ReportsInv'
    BY ReportsNext
  <1> QED
    BY <1>1, ReportsInit, Invariance, PTL DEF Spec

\* A row of the answer for the job j.
ViewRow(j) ==
    [job |-> j, severity |-> view.results[j].severity, score |-> view.results[j].score]

\* The answer has a row for some of the four jobs.
LEMMA ViewResultsFinite == IsFiniteSet(ViewResults)
  <1> DEFINE Rows == {ViewRow("static_analysis"), ViewRow("sandbox"),
                      ViewRow("url_scan"), ViewRow("ai_summary")}
  <1>1. IsFiniteSet(Rows)
    <2> DEFINE A == {ViewRow("static_analysis")} \cup {ViewRow("sandbox")}
               B == {ViewRow("url_scan")} \cup {ViewRow("ai_summary")}
    <2>1. IsFiniteSet(A) /\ IsFiniteSet(B)
      BY FS_Singleton, FS_Union
    <2>2. Rows = A \cup B
      OBVIOUS
    <2> HIDE DEF A, B, Rows
    <2> QED
      BY <2>1, <2>2, FS_Union
  <1>2. ViewResults \subseteq Rows
    BY DEF ViewResults, ViewRow, JobTypes
  <1> QED
    BY <1>1, <1>2, FS_Subset

\* The aggregate score of GET /analysis/:id never calls for a severity above the
\* maxSeverity it is shown with: in every answer, whatever was copied into the
\* summaries and however many analyses overlapped.
THEOREM AggregatesWithinMax == Spec => []AggregateWithinMax
  <1>1. IInv /\ ReportsInv => AggregateWithinMax
    <2> SUFFICES ASSUME IInv, ReportsInv, aggregateScore(ViewResults) # NoScore
                 PROVE  Rank[scoreToSeverity(aggregateScore(ViewResults) \div 100)]
                          <= Rank[maxSeverity(ViewResults)]
      BY DEF AggregateWithinMax
    <2>1. ASSUME NEW r \in ViewResults
          PROVE  /\ r.score \in 0 .. 100 \cup {NoScore}
                 /\ r.severity \in Severities
                 /\ r.score # NoScore => r.severity = scoreToSeverity(r.score)
      <3>1. PICK j \in JobTypes :
              /\ view.results[j] # NoReport
              /\ r.severity = view.results[j].severity /\ r.score = view.results[j].score
        BY DEF ViewResults
      <3>2. view.results[j] \in Reports /\ Consistent(view.results[j])
        BY <3>1 DEF IInv, TypeOK, ReportsInv
      <3> QED
        BY <3>1, <3>2 DEF Reports, Consistent
    <2> QED
      BY <2>1, ViewResultsFinite, AggregateSeverity
  <1> QED
    BY <1>1, ReportsInvariance, PTL

-----------------------------------------------------------------------------
(* The contract of the pipeline *)

\* Only jobs that the type of the submission plans are run and have results.
PlannedInv ==
    /\ \A p \in Slots : local[p].job \in Planned \cup {"none"}
    /\ Stored \subseteq Planned

LEMMA PlannedStep ==
  ASSUME IInv, PlannedInv, [Next]_vars
  PROVE  PlannedInv' /\ sample' = sample
  <1>1. /\ local \in [Slots -> Locals] /\ results \in [JobTypes -> Reports \cup {NoReport}]
        /\ \A p \in Slots : SlotInv(local[p])
    BY DEF IInv, TypeOK, Locals
  <1>2. ASSUME NEW p \in Slots, NEW l, Become(p, l), l.job \in Planned \cup {"none"},
               UNCHANGED <<sample, results>>
        PROVE  PlannedInv' /\ sample' = sample
    <2>1. local' = [local EXCEPT ![p] = l]
      BY <1>2 DEF Become
    <2>2. Planned' = Planned /\ Stored' = Stored
      BY <1>2 DEF Planned, Stored
    <2>3. ASSUME NEW q \in Slots PROVE local'[q].job \in Planned \cup {"none"}
      BY <1>1, <1>2, <2>1 DEF PlannedInv
    <2> QED
      BY <1>2, <2>2, <2>3 DEF PlannedInv
  <1>3. ASSUME NEW p \in Slots, NEW j \in JobTypes, dispatch(p, j)
        PROVE  PlannedInv' /\ sample' = sample
    <2>1. PICK l \in Locals : l = [local[p] EXCEPT !.job = j]
      BY <1>1 DEF Locals
    <2>2. l.job = j
      BY <1>1, <2>1 DEF Locals
    <2>3. Dispatched(l).job = j
      <3> DEFINE todo == IF sample.sha256 THEN <<"hash">> ELSE <<>>
                 n == [l EXCEPT !.todo = todo]
      <3>1. CASE j = "static_analysis"
        <4>1. <<"hash">> \in Seq(IocTypes) /\ <<>> \in Seq(IocTypes)
          BY DEF IocTypes
        <4>2. todo \in Seq(IocTypes)
          BY <4>1
        <4> HIDE DEF todo
        <4>3. n \in Locals /\ n.job = j
          BY <2>2, <4>2 DEF Locals
        <4>4. Dispatched(l) = AfterIocs(n)
          BY <2>2, <3>1 DEF Dispatched, todo
        <4> HIDE DEF n
        <4> QED
          BY <4>3, <4>4, AfterIocsFields
      <3>2. CASE j # "static_analysis"
        BY <2>2, <3>2 DEF Dispatched, JobTypes, Locals
      <3> QED
        BY <3>1, <3>2
    <2>4. Become(p, Dispatched(l)) /\ j \in Planned /\ UNCHANGED <<sample, results>>
      BY <1>3, <2>1 DEF dispatch
    <2> QED
      BY <1>2, <2>3, <2>4
  <1>4. ASSUME NEW p \in Slots, SlotStep(p)
        PROVE  PlannedInv' /\ sample' = sample
    <2>1. PICK l \in Locals : l = local[p]
      BY <1>1
    <2>2. l.job \in Planned \cup {"none"} /\ SlotInv(l)
      BY <1>1, <2>1 DEF PlannedInv
    <2>3. CASE analyzeUrl(p)
      <3>1. PICK threats \in BOOLEAN :
              Become(p, AfterIocs([l EXCEPT
                 !.report = ReportOf(urlRisk(sample.url, threats)),
                 !.todo = IF sample.url.valid THEN <<"url", "domain">> ELSE <<"url">>]))
        BY <2>1, <2>3 DEF analyzeUrl
      <3> DEFINE r == ReportOf(urlRisk(sample.url, threats))
                 todo == IF sample.url.valid THEN <<"url", "domain">> ELSE <<"url">>
                 n == [l EXCEPT !.report = r, !.todo = todo]
                 m == AfterIocs(n)
      <3>2. r \in Reports
        BY UrlRiskInRange, SampleParts, ReportType DEF IInv
      <3>3. todo \in Seq(IocTypes)
        <4>1. <<"url", "domain">> \in Seq(IocTypes) /\ <<"url">> \in Seq(IocTypes)
          BY DEF IocTypes
        <4> QED
          BY <4>1
      <3>4. Become(p, m)
        BY <3>1
      <3> HIDE DEF r, todo
      <3>5. n \in Locals /\ n.job = l.job
        BY <3>2, <3>3 DEF Locals
      <3> HIDE DEF n
      <3>6. m.job = l.job
        BY <3>5, AfterIocsFields
      <3> HIDE DEF m
      <3> QED
        BY <1>2, <2>2, <2>3, <3>4, <3>6 DEF analyzeUrl
    <2>4. CASE findIoc(p) \/ createIoc(p) \/ swallowDomainError(p)
      <3> DEFINE m == [l EXCEPT !.pc = "iocCreate"]
      <3>1. l.pc \in IocSteps
        BY <2>1, <2>4 DEF findIoc, createIoc, swallowDomainError, At, IocSteps
      <3>2. Saved(l).job = l.job /\ m.job = l.job
        BY <2>2, <3>1, SavedFields DEF Locals
      <3>3. Become(p, Saved(l)) \/ Become(p, m)
        BY <2>1, <2>4 DEF findIoc, createIoc, swallowDomainError
      <3> HIDE DEF m
      <3> QED
        BY <1>2, <2>2, <2>4, <3>2, <3>3 DEF findIoc, createIoc, swallowDomainError
    <2>5. CASE analyzeFile(p) \/ runSandbox(p) \/ readStaticReport(p)
      <3>1. PICK report : Become(p, [l EXCEPT !.pc = "store", !.report = report])
        BY <2>1, <2>5 DEF analyzeFile, runSandbox, readStaticReport
      <3> DEFINE m == [l EXCEPT !.pc = "store", !.report = report]
      <3>2. m.job = l.job /\ Become(p, m)
        BY <3>1 DEF Locals
      <3> HIDE DEF m
      <3> QED
        BY <1>2, <2>2, <2>5, <3>2 DEF analyzeFile, runSandbox, readStaticReport
    <2>6. CASE createResult(p)
      <3>1. l.job \in JobTypes
        BY <2>1, <2>2, <2>6 DEF createResult, At, SlotInv
      <3>2. l.job \in Planned
        BY <2>2, <3>1 DEF JobTypes
      <3>3. /\ results' = [results EXCEPT ![l.job] = l.report] /\ sample' = sample
            /\ local' = [local EXCEPT ![p] = Idle]
        BY <2>1, <2>6 DEF createResult, Become
      <3>4. Planned' = Planned /\ Stored' \subseteq Stored \cup {l.job}
        BY <1>1, <3>1, <3>3 DEF Planned, Stored
      <3>5. ASSUME NEW q \in Slots PROVE local'[q].job \in Planned \cup {"none"}
        BY <1>1, <3>3 DEF PlannedInv, Idle
      <3> QED
        BY <3>2, <3>3, <3>4, <3>5 DEF PlannedInv
    <2>7. CASE Abandon(p)
      BY <1>2, <2>7 DEF Abandon, Idle
    <2> QED
      BY <1>4, <2>3, <2>4, <2>5, <2>6, <2>7 DEF SlotStep
  <1>5. ASSUME UNCHANGED <<sample, results, local>>
        PROVE  PlannedInv' /\ sample' = sample
    BY <1>5 DEF PlannedInv, Planned, Stored
  <1>6. CASE \/ \E j \in JobTypes : markCompleted(j)
             \/ \E J \in SUBSET completed : reopen(J)
             \/ \E b \in BOOLEAN : syncSubmissionStatus(b)
    BY <1>5, <1>6 DEF markCompleted, reopen, syncSubmissionStatus
  <1>7. CASE getAnalysis \/ respond \/ UNCHANGED vars
    BY <1>5, <1>7 DEF getAnalysis, respond, vars
  <1> QED
    BY <1>3, <1>4, <1>6, <1>7 DEF Next

LEMMA PlannedInvariance == Spec => [](IInv /\ PlannedInv)
  <1>1. Init => PlannedInv
    BY DEF Init, PlannedInv, Stored, Idle
  <1>2. IInv /\ PlannedInv /\ [Next]_vars => PlannedInv'
    BY PlannedStep
  <1> QED
    BY <1>1, <1>2, Invariance, PTL DEF Spec

\* What a step does to what the contract speaks of.
LEMMA ContractEffects ==
  ASSUME IInv, PlannedInv, [Next]_vars
  PROVE  \/ UNCHANGED <<Stored, completed, closed>>
         \/ /\ \E j \in Planned : Stored' = Stored \cup {j}
            /\ UNCHANGED <<completed, closed>>
         \/ /\ \E j \in Stored : completed' = completed \cup {j}
            /\ UNCHANGED <<Stored, closed>>
         \/ /\ \E J \in SUBSET completed : completed' = completed \ J
            /\ UNCHANGED <<Stored, closed>>
         \/ /\ closed' \in BOOLEAN /\ (closed' => Planned \subseteq Stored)
            /\ UNCHANGED <<Stored, completed>>
  <1>1. ASSUME UNCHANGED <<results, completed, closed>>
        PROVE  UNCHANGED <<Stored, completed, closed>>
    BY <1>1 DEF Stored
  <1>2. ASSUME NEW p \in Slots, createResult(p)
        PROVE  /\ \E j \in Planned : Stored' = Stored \cup {j}
               /\ UNCHANGED <<completed, closed>>
    <2> DEFINE j == local[p].job
    <2>1. /\ results \in [JobTypes -> Reports \cup {NoReport}]
          /\ j \in JobTypes /\ local[p].report \in Reports
      BY <1>2, SlotFacts DEF IInv, TypeOK, createResult, At, SlotInv
    <2>2. j \in Planned
      BY <2>1 DEF PlannedInv, JobTypes
    <2>3. results' = [results EXCEPT ![j] = local[p].report]
      BY <1>2 DEF createResult
    <2>4. local[p].report # NoReport
      BY <2>1, NoReportType
    <2>5. UNCHANGED <<completed, closed>>
      BY <1>2 DEF createResult
    <2> HIDE DEF j
    <2>6. Stored' = Stored \cup {j}
      BY <2>1, <2>3, <2>4 DEF Stored
    <2> QED
      BY <2>2, <2>5, <2>6
  <1>3. ASSUME NEW p \in Slots, SlotStep(p)
        PROVE  UNCHANGED <<results, completed, closed>> \/ createResult(p)
    BY <1>3 DEF SlotStep, analyzeUrl, findIoc, createIoc, swallowDomainError,
                analyzeFile, runSandbox, readStaticReport, Abandon
  <1>4. ASSUME NEW p \in Slots, NEW j \in JobTypes, dispatch(p, j)
        PROVE  UNCHANGED <<results, completed, closed>>
    BY <1>4 DEF dispatch
  <1>5. CASE getAnalysis \/ respond \/ UNCHANGED vars
    BY <1>1, <1>5 DEF getAnalysis, respond, vars
  <1>6. CASE \E j \in JobTypes : markCompleted(j)
    BY <1>6 DEF markCompleted, Stored
  <1>7. CASE \E J \in SUBSET completed : reopen(J)
    BY <1>7 DEF reopen, Stored
  <1>8. CASE \E b \in BOOLEAN : syncSubmissionStatus(b)
    BY <1>8 DEF syncSubmissionStatus, Stored
  <1> QED
    BY <1>1, <1>2, <1>3, <1>4, <1>5, <1>6, <1>7, <1>8 DEF Next

\* The job j of this submission, in the contract.
LEMMA OwnJob ==
  ASSUME TypeOK
  PROVE  /\ sample.type \in SampleTypes
         /\ \A j \in Planned : /\ <<sample.type, j>> \in PlannedJobs
                               /\ SubmissionOf[<<sample.type, j>>] = sample.type
         /\ \A job \in PlannedJobs :
              SubmissionOf[job] = sample.type => job \in {sample.type} \X Planned
  <1>1. sample.type \in SampleTypes
    BY ResultsAssumption DEF TypeOK, SampleType
  <1>2. ASSUME NEW j \in Planned
        PROVE  /\ <<sample.type, j>> \in PlannedJobs
               /\ SubmissionOf[<<sample.type, j>>] = sample.type
    BY <1>1, PlannedType DEF Planned, PlannedJobs, SubmissionOf
  <1>3. ASSUME NEW job \in PlannedJobs, SubmissionOf[job] = sample.type
        PROVE  job \in {sample.type} \X Planned
    BY <1>3 DEF Planned, PlannedJobs, SubmissionOf
  <1> QED
    BY <1>1, <1>2, <1>3

\* The analyzers and the assumptions about the pipeline do nothing to the submission
\* that the contract, which the pipeline implements, forbids.
THEOREM ContractObserved == Spec => ContractSteps
  <1> DEFINE type == sample.type
             stored == {type} \X Stored
             reported == {type} \X completed
             shut == IF closed THEN {type} ELSE {}
  <1>1. ASSUME IInv, PlannedInv, [Next]_vars
        PROVE  [Contract!Next]_(Contract!contractVars)
    <2>1. TypeOK /\ sample' = sample /\ Stored \subseteq Planned
      BY <1>1, PlannedStep DEF IInv, PlannedInv
    <2>2. type \in SampleTypes /\ {type}' = {type}
      BY <2>1, OwnJob
    <2>3. CASE UNCHANGED <<Stored, completed, closed>>
      BY <2>1, <2>3 DEF Contract!contractVars
    <2>4. CASE /\ \E j \in Planned : Stored' = Stored \cup {j}
               /\ UNCHANGED <<completed, closed>>
      <3>1. PICK j \in Planned : Stored' = Stored \cup {j}
        BY <2>4
      <3>2. CASE j \in Stored
        <4>1. Stored' = Stored
          BY <3>1, <3>2
        <4> QED
          BY <2>3, <2>4, <4>1
      <3>3. CASE j \notin Stored
        <4>1. stored' = stored \cup {<<type, j>>} /\ <<type, j>> \notin stored
          BY <2>1, <3>1, <3>3
        <4>2. reported' = reported /\ shut' = shut
          BY <2>1, <2>4
        <4>3. Contract!Store(<<type, j>>)
          BY <2>1, <2>2, <4>1, <4>2, OwnJob DEF Contract!Store
        <4>4. <<type, j>> \in PlannedJobs
          BY <2>1, OwnJob
        <4> QED
          BY <4>3, <4>4 DEF Contract!Next
      <3> QED
        BY <3>2, <3>3
    <2>5. CASE /\ \E j \in Stored : completed' = completed \cup {j}
               /\ UNCHANGED <<Stored, closed>>
      <3>1. PICK j \in Stored : completed' = completed \cup {j}
        BY <2>5
      <3>2. reported' = reported \cup {<<type, j>>} /\ <<type, j>> \in stored
        BY <2>1, <3>1
      <3>3. stored' = stored /\ shut' = shut
        BY <2>1, <2>5
      <3>4. Contract!Report(<<type, j>>)
        BY <2>2, <3>2, <3>3 DEF Contract!Report
      <3>5. <<type, j>> \in PlannedJobs
        BY <2>1, OwnJob
      <3> QED
        BY <3>4, <3>5 DEF Contract!Next
    <2>6. CASE /\ \E J \in SUBSET completed : completed' = completed \ J
               /\ UNCHANGED <<Stored, closed>>
      <3>1. PICK J \in SUBSET completed : completed' = completed \ J
        BY <2>6
      <3> DEFINE pairs == {type} \X J
      <3>2. reported' = reported \ pairs /\ pairs \in SUBSET reported
        BY <2>1, <3>1
      <3>3. stored' = stored /\ shut' = shut
        BY <2>1, <2>6
      <3> HIDE DEF pairs
      <3>4. \E withdrawn \in SUBSET reported : Contract!Withdraw(withdrawn)
        BY <2>2, <3>2, <3>3, Zenon DEF Contract!Withdraw
      <3> QED
        BY <3>4 DEF Contract!Next
    <2>7. CASE /\ closed' \in BOOLEAN /\ (closed' => Planned \subseteq Stored)
               /\ UNCHANGED <<Stored, completed>>
      <3>1. stored' = stored /\ reported' = reported /\ closed \in BOOLEAN
        BY <2>1, <2>7 DEF TypeOK
      <3>2. CASE closed'
        <4>1. shut' = shut \cup {type}
          BY <2>1, <3>2
        <4>2. {job \in PlannedJobs : SubmissionOf[job] = type} \subseteq stored
          <5>1. {type} \X Planned \subseteq stored
            BY <2>7, <3>2
          <5> QED
            BY <2>1, <5>1, OwnJob
        <4>3. Contract!Close(type)
          BY <2>2, <3>1, <4>1, <4>2 DEF Contract!Close
        <4> QED
          BY <2>2, <4>3 DEF Contract!Next
      <3>3. CASE ~closed'
        <4>1. shut' = shut \ {type}
          BY <3>3
        <4>2. Contract!Reopen(type)
          BY <2>2, <3>1, <4>1 DEF Contract!Reopen
        <4> QED
          BY <2>2, <4>2 DEF Contract!Next
      <3> QED
        BY <3>2, <3>3
    <2> QED
      BY <1>1, <2>3, <2>4, <2>5, <2>6, <2>7, ContractEffects
  <1> QED
    BY <1>1, PlannedInvariance, PTL DEF Spec, ContractSteps

\* And whatever the contract allows the pipeline to do to the submission while the
\* analyzers, their tables and the reader stand still is a step of this specification:
\* what is proved of it is proved of every pipeline that keeps the contract.
THEOREM ContractCovered ==
  ASSUME IInv, PlannedInv, completed' \subseteq JobTypes, closed' \in BOOLEAN,
         [Contract!Next]_(Contract!contractVars),
         UNCHANGED <<sample, iocs, results, local, view, faults>>
  PROVE  [Next]_vars
  <1> DEFINE type == sample.type
             stored == {type} \X Stored
             reported == {type} \X completed
             shut == IF closed THEN {type} ELSE {}
  <1>1. /\ TypeOK /\ Stored \subseteq JobTypes /\ completed \subseteq JobTypes
        /\ closed \in BOOLEAN /\ {type}' = {type} /\ stored' = stored
    BY DEF IInv, TypeOK, Stored
  <1>2. /\ reported' = reported <=> completed' = completed
        /\ shut' = shut <=> closed' = closed
    <2>1. ASSUME reported' = reported PROVE completed' = completed
      <3>1. \A j : j \in completed' <=> <<type, j>> \in reported'
        BY <1>1
      <3>2. \A j : j \in completed <=> <<type, j>> \in reported
        OBVIOUS
      <3> QED
        BY <2>1, <3>1, <3>2
    <2>2. ASSUME shut' = shut PROVE closed' = closed
      BY <1>1, <2>2
    <2> QED
      BY <1>1, <2>1, <2>2
  <1>3. CASE UNCHANGED Contract!contractVars
    <2>1. reported' = reported /\ shut' = shut
      BY <1>3 DEF Contract!contractVars
    <2> QED
      BY <1>2, <2>1 DEF vars
  <1>4. CASE \E s \in SampleTypes : Contract!Accept(s)
    <2>1. {type}' # {type}
      BY <1>4 DEF Contract!Accept
    <2> QED
      BY <1>1, <2>1
  <1>5. CASE \E job \in PlannedJobs : Contract!Store(job)
    <2>1. stored' # stored
      BY <1>5 DEF Contract!Store
    <2> QED
      BY <1>1, <2>1
  <1>6. CASE \E job \in PlannedJobs : Contract!Report(job)
    <2>1. PICK job \in PlannedJobs : Contract!Report(job)
      BY <1>6
    <2>2. job \in stored /\ reported' = reported \cup {job} /\ shut' = shut
      BY <2>1 DEF Contract!Report
    <2>3. PICK j \in Stored : job = <<type, j>>
      BY <2>2
    <2>4. completed' = completed \cup {j}
      <3>1. \A i : i \in completed' <=> <<type, i>> \in reported'
        BY <1>1
      <3>2. \A i : i \in completed <=> <<type, i>> \in reported
        OBVIOUS
      <3>3. \A i : <<type, i>> \in reported' <=> <<type, i>> \in reported \/ i = j
        BY <2>2, <2>3
      <3> QED
        BY <3>1, <3>2, <3>3
    <2>5. markCompleted(j)
      BY <1>2, <2>2, <2>4 DEF markCompleted
    <2> QED
      BY <1>1, <2>5 DEF Next
  <1>7. CASE \E J \in SUBSET reported : Contract!Withdraw(J)
    <2>1. completed' \subseteq completed /\ shut' = shut
      <3>1. reported' \subseteq reported /\ shut' = shut
        BY <1>7 DEF Contract!Withdraw
      <3>2. \A i : i \in completed' <=> <<type, i>> \in reported'
        BY <1>1
      <3>3. \A i : i \in completed <=> <<type, i>> \in reported
        OBVIOUS
      <3> QED
        BY <3>1, <3>2, <3>3
    <2> DEFINE J == completed \ completed'
    <2>2. completed' = completed \ J /\ J \in SUBSET completed
      BY <2>1
    <2>3. closed' = closed
      BY <1>2, <2>1
    <2> QED
      BY <2>2, <2>3 DEF Next, reopen
  <1>8. CASE \E s \in SampleTypes : Contract!Close(s)
    <2>1. PICK s \in SampleTypes : Contract!Close(s)
      BY <1>8
    <2>2. /\ {job \in PlannedJobs : SubmissionOf[job] = s} \subseteq stored
          /\ shut' = shut \cup {s} /\ reported' = reported
      BY <2>1 DEF Contract!Close
    <2>3. closed' /\ s = type
      BY <1>1, <2>2
    <2>4. Planned \subseteq Stored
      <3>1. \A j \in Planned : <<type, j>> \in stored
        BY <1>1, <2>2, <2>3, OwnJob
      <3> QED
        BY <3>1
    <2>5. completed' = completed
      BY <1>2, <2>2
    <2>6. syncSubmissionStatus(TRUE)
      BY <2>3, <2>4, <2>5 DEF syncSubmissionStatus
    <2> QED
      BY <2>6 DEF Next
  <1>9. CASE \E s \in SampleTypes : Contract!Reopen(s)
    <2>1. PICK s \in SampleTypes : Contract!Reopen(s)
      BY <1>9
    <2>2. shut' = shut \ {s} /\ reported' = reported
      BY <2>1 DEF Contract!Reopen
    <2>3. closed' = closed \/ closed' = FALSE
      BY <1>1, <2>2
    <2>4. completed' = completed
      BY <1>2, <2>2
    <2>5. CASE closed' = closed
      BY <2>4, <2>5 DEF vars
    <2>6. CASE closed' = FALSE
      <3>1. syncSubmissionStatus(FALSE)
        BY <2>4, <2>6 DEF syncSubmissionStatus
      <3> QED
        BY <3>1 DEF Next
    <2> QED
      BY <2>3, <2>5, <2>6
  <1> QED
    BY <1>3, <1>4, <1>5, <1>6, <1>7, <1>8, <1>9 DEF Contract!Next
=============================================================================
