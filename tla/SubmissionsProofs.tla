-------------------------- MODULE SubmissionsProofs --------------------------
(***************************************************************************)
(* What holds of Submissions for any number of requests, contents and      *)
(* faults.  The invariant says what the committed rows have in common      *)
(* (RowsInv) and what each request may believe about them (RequestInv).    *)
(***************************************************************************)
EXTENDS Submissions, TLAPS

Committed == {"enqueue", "reply"}

\* A row belongs to a request that got past its insert, holds the jobs of its
\* type, and is the only one of its type and hash.
RowsInv ==
    /\ \A q \in rows : local[q].pc \in Committed \cup {"done"}
    /\ \A q \in rows : jobs[q] = planJobTypes(local[q].type)
    /\ \A p, q \in rows :
         /\ local[p].type = local[q].type
         /\ local[p].sha = local[q].sha /\ local[p].sha # NoSha
         => p = q

\* What a request has been shown is a row, its own or one of its type and hash.
ShownInv(r) ==
    Shows(r) =>
        LET q == local[r].shown
        IN  /\ q \in rows
            /\ local[q].type = local[r].type
            /\ q = r \/ (local[r].sha # NoSha /\ local[q].sha = local[r].sha)
            /\ local[r].outcome = "reused" => local[r].shownJobs = jobs[q]

RequestInv(r) ==
    /\ local[r].pc \in Committed => r \in rows
    /\ local[r].pc = "findAgain" => Same(r) # {}
    /\ local[r].pc # "done" => local[r].outcome = "none"
    /\ local[r].outcome # "conflict"
    /\ ShownInv(r)

IInv ==
    /\ RequestsTypeOK
    /\ RowsInv
    /\ \A r \in Requests : RequestInv(r)

-----------------------------------------------------------------------------
(* Types *)

LEMMA PlanType == \A type : planJobTypes(type) \in SUBSET JobTypes
  BY DEF planJobTypes, JobTypes

LEMMA GotoType ==
  ASSUME RequestsTypeOK, NEW r \in Requests, NEW label \in Labels
  PROVE  [local[r] EXCEPT !.pc = label] \in Locals
  BY DEF RequestsTypeOK, Locals

LEMMA AnsweredType ==
  ASSUME NEW l \in Locals, NEW outcome \in Outcomes
  PROVE  Answered(l, outcome) \in Locals
  BY DEF Answered, Locals, Labels

LEMMA ShowingType ==
  ASSUME RequestsTypeOK, NEW l \in Locals, NEW outcome \in Outcomes, NEW q \in Requests
  PROVE  Showing(l, outcome, q) \in Locals
  <1>1. jobs[q] \in SUBSET JobTypes
    BY DEF RequestsTypeOK
  <1> QED
    BY <1>1, AnsweredType DEF Showing, Answered, Locals, Labels

LEMMA ArrivesType ==
  ASSUME RequestsTypeOK, NEW r \in Requests, NEW route \in AllRoutes, NEW type \in Types,
         NEW sha \in Contents \cup {NoSha}
  PROVE  /\ Arrives(r, route, type, sha) \in Locals
         /\ Arrives(r, route, type, sha).pc = local[r].pc
         /\ Arrives(r, route, type, sha).outcome = local[r].outcome
         /\ Arrives(r, route, type, sha).route = route
  BY DEF RequestsTypeOK, Arrives, Locals

-----------------------------------------------------------------------------
(* Steps *)

\* What a step may leave in local[r] when it commits nothing.
Honest(r, l) ==
    /\ r \in rows => /\ l.pc \in Committed \cup {"done"}
                     /\ l.type = local[r].type /\ l.sha = local[r].sha
    /\ l.pc \in Committed => r \in rows
    /\ l.pc = "findAgain" =>
         \E q \in rows : l.sha # NoSha /\ local[q].sha = l.sha /\ local[q].type = l.type
    /\ l.pc # "done" => l.outcome = "none"
    /\ l.outcome # "conflict"
    /\ l.outcome \in {"created", "reused"} =>
         /\ l.shown \in rows
         /\ l.outcome = "reused" => l.shownJobs = jobs[l.shown]
         /\ l.shown # r => /\ l.sha # NoSha /\ local[l.shown].sha = l.sha
                          /\ local[l.shown].type = l.type

\* The other requests still believe what is true.
LEMMA HonestStep ==
  ASSUME IInv, NEW r \in Requests, NEW l \in Locals, Become(r, l), Honest(r, l),
         UNCHANGED <<rows, jobs>>, objects' \subseteq Requests, faults' \in Nat
  PROVE  IInv'
  <1>1. /\ local \in [Requests -> Locals] /\ rows \subseteq Requests
        /\ local' = [local EXCEPT ![r] = l] /\ rows' = rows /\ jobs' = jobs
    BY DEF IInv, RequestsTypeOK, Become
  <1>2. local'[r] = l /\ \A q \in Requests : q # r => local'[q] = local[q]
    BY <1>1
  <1>3. RequestsTypeOK'
    BY <1>1 DEF IInv, RequestsTypeOK
  <1>4. \A q \in rows : /\ local'[q].type = local[q].type
                        /\ local'[q].sha = local[q].sha
                        /\ local'[q].pc \in Committed \cup {"done"}
    BY <1>1, <1>2 DEF IInv, RowsInv, Honest
  <1>5. RowsInv'
    BY <1>1, <1>4 DEF IInv, RowsInv
  <1>6. RequestInv(r)'
    <2>1. (local[r].pc \in Committed => r \in rows)'
      BY <1>1, <1>2 DEF Honest
    <2>2. (local[r].pc = "findAgain" => Same(r) # {})'
      BY <1>1, <1>2, <1>4 DEF Honest, Same
    <2>3. (local[r].pc # "done" => local[r].outcome = "none")' /\ (local[r].outcome # "conflict")'
      BY <1>2 DEF Honest
    <2>4. ShownInv(r)'
      BY <1>1, <1>2, <1>4 DEF Honest, ShownInv, Shows
    <2> QED
      BY <2>1, <2>2, <2>3, <2>4 DEF RequestInv
  <1>7. ASSUME NEW q \in Requests, q # r PROVE RequestInv(q)'
    <2>1. RequestInv(q) /\ local'[q] = local[q]
      BY <1>2, <1>7 DEF IInv
    <2>2. (local[q].pc = "findAgain" => Same(q) # {})'
      BY <1>1, <1>4, <2>1 DEF RequestInv, Same
    <2>3. ShownInv(q)'
      BY <1>1, <1>4, <2>1 DEF RequestInv, ShownInv, Shows
    <2> QED
      BY <1>1, <2>1, <2>2, <2>3 DEF RequestInv
  <1> QED
    BY <1>3, <1>5, <1>6, <1>7 DEF IInv

\* A row may be added under the index, by a request that was shown nothing.
LEMMA CommitStep ==
  ASSUME IInv, NEW r \in Requests, NEW l \in Locals, Become(r, l), Commit(r),
         local[r].pc = "insert", Same(r) = {},
         l.pc \in Committed \cup {"done"}, l.outcome \in {"none", "error"},
         l.pc # "done" => l.outcome = "none",
         l.type = local[r].type, l.sha = local[r].sha,
         objects' = objects, faults' \in Nat
  PROVE  IInv'
  <1>1. /\ local \in [Requests -> Locals] /\ rows \subseteq Requests
        /\ jobs \in [Requests -> SUBSET JobTypes]
        /\ local' = [local EXCEPT ![r] = l] /\ rows' = rows \cup {r}
        /\ jobs' = [jobs EXCEPT ![r] = planJobTypes(local[r].type)]
    BY DEF IInv, RequestsTypeOK, Become, Commit
  <1>2. r \notin rows
    BY DEF IInv, RowsInv, Committed
  <1>3. /\ local'[r] = l /\ jobs'[r] = planJobTypes(l.type)
        /\ \A q \in Requests : q # r => local'[q] = local[q] /\ jobs'[q] = jobs[q]
    BY <1>1
  <1>4. RequestsTypeOK'
    BY <1>1, PlanType DEF IInv, RequestsTypeOK
  <1>5. RowsInv'
    <2>1. (\A q \in rows : local[q].pc \in Committed \cup {"done"})'
      BY <1>1, <1>3 DEF IInv, RowsInv
    <2>2. (\A q \in rows : jobs[q] = planJobTypes(local[q].type))'
      BY <1>1, <1>3 DEF IInv, RowsInv
    <2>3. \A q \in rows : ~(local[q].type = l.type /\ local[q].sha = l.sha /\ l.sha # NoSha)
      BY <1>1 DEF Same
    <2>4. (\A p, q \in rows :
              /\ local[p].type = local[q].type
              /\ local[p].sha = local[q].sha /\ local[p].sha # NoSha
              => p = q)'
      BY <1>1, <1>3, <2>3 DEF IInv, RowsInv
    <2> QED
      BY <2>1, <2>2, <2>4 DEF RowsInv
  <1>6. RequestInv(r)'
    BY <1>1, <1>3 DEF RequestInv, ShownInv, Shows, Committed
  <1>7. ASSUME NEW q \in Requests, q # r PROVE RequestInv(q)'
    <2>1. RequestInv(q) /\ local'[q] = local[q]
      BY <1>3, <1>7 DEF IInv
    <2>2. \A p \in rows : p \in rows' /\ local'[p] = local[p] /\ jobs'[p] = jobs[p]
      BY <1>1, <1>2, <1>3
    <2>3. (local[q].pc = "findAgain" => Same(q) # {})'
      BY <2>1, <2>2 DEF RequestInv, Same
    <2>4. ShownInv(q)'
      BY <2>1, <2>2 DEF RequestInv, ShownInv, Shows
    <2> QED
      BY <1>1, <2>1, <2>3, <2>4 DEF RequestInv
  <1> QED
    BY <1>4, <1>5, <1>6, <1>7 DEF IInv

-----------------------------------------------------------------------------
(* The initial state and every action *)

LEMMA InitInv == Init => IInv
  <1> SUFFICES ASSUME Init PROVE IInv
    OBVIOUS
  <1> DEFINE Fresh(c) ==
        [pc |-> "new", route |-> "none", type |-> "none", content |-> c, sha |-> NoSha,
         outcome |-> "none", shown |-> NoRequest, shownJobs |-> {}]
  <1>0. local \in [Requests -> {Fresh(c) : c \in Contents}]
    BY DEF Init
  <1>1. RequestsTypeOK
    <2>1. \A c \in Contents : Fresh(c) \in Locals
      BY DEF Locals, Labels, Outcomes
    <2> HIDE DEF Fresh
    <2>2. local \in [Requests -> Locals]
      BY <1>0, <2>1
    <2> QED
      BY <2>2 DEF Init, RequestsTypeOK
  <1>2. \A r \in Requests : local[r].pc = "new" /\ local[r].outcome = "none"
    BY <1>0
  <1> QED
    BY <1>1, <1>2 DEF Init, IInv, RowsInv, RequestInv, ShownInv, Shows, Committed

\* A request on its way that is no row, goes on and shows nothing.
LEMMA AheadStep ==
  ASSUME IInv, NEW r \in Requests, NEW l \in Locals, Become(r, l),
         local[r].pc \notin Committed \cup {"done"},
         l.pc \notin Committed \cup {"findAgain"},
         l.outcome \notin {"created", "reused", "conflict"},
         l.pc # "done" => l.outcome = "none",
         UNCHANGED <<rows, jobs>>, objects' \subseteq Requests, faults' \in Nat
  PROVE  IInv'
  <1>1. Honest(r, l)
    BY DEF IInv, RowsInv, Honest
  <1> QED
    BY <1>1, HonestStep

LEMMA RejectedStep ==
  ASSUME IInv, NEW r \in Requests, NEW l \in Locals, Become(r, Answered(l, "rejected")),
         local[r].pc \in {"new", "upload"},
         UNCHANGED <<rows, jobs>>, objects' \subseteq Requests, faults' \in Nat
  PROVE  IInv'
  <1>1. Answered(l, "rejected") \in Locals
    BY AnsweredType DEF Outcomes
  <1>2. /\ Answered(l, "rejected").pc = "done"
        /\ Answered(l, "rejected").outcome = "rejected"
    BY DEF Answered, Locals
  <1> QED
    BY <1>1, <1>2, AheadStep DEF Committed

\* An endpoint lets its request in or refuses it.
LEMMA ArrivalStep ==
  ASSUME IInv, NEW r \in Requests, At(r, "new"), NEW route \in AllRoutes,
         NEW type \in Types, NEW sha \in Contents \cup {NoSha},
         NEW label \in {"find", "upload"},
         \/ Become(r, [Arrives(r, route, type, sha) EXCEPT !.pc = label])
         \/ Become(r, Answered(Arrives(r, route, type, sha), "rejected")),
         UNCHANGED <<rows, jobs, objects, faults>>
  PROVE  IInv'
  <1> DEFINE l == Arrives(r, route, type, sha)
             m == [l EXCEPT !.pc = label]
  <1>1. RequestsTypeOK /\ objects' \subseteq Requests /\ faults' \in Nat
    BY DEF IInv, RequestsTypeOK
  <1>2. l \in Locals /\ l.outcome = local[r].outcome
    BY <1>1, ArrivesType
  <1>3. local[r].pc = "new" /\ local[r].outcome = "none"
    BY DEF IInv, RequestInv, At
  <1> HIDE DEF l
  <1>4. m \in Locals /\ m.pc = label /\ m.outcome = "none"
    BY <1>2, <1>3 DEF Locals, Labels
  <1>5. CASE Become(r, m)
    <2> HIDE DEF m
    <2> QED
      BY <1>1, <1>3, <1>4, <1>5, AheadStep DEF Committed
  <1>6. CASE Become(r, Answered(l, "rejected"))
    BY <1>1, <1>2, <1>3, <1>6, RejectedStep
  <1> QED
    BY <1>5, <1>6 DEF l, m

LEMMA ArrivalInv ==
  ASSUME IInv, NEW r \in Requests,
         \/ \E type \in Types : create(r, type)
         \/ createUrl(r) \/ createFile(r) \/ uploadFile(r)
  PROVE  IInv'
  <1> USE DEF AllRoutes, Types
  <1>0. local[r].content \in Contents
    BY DEF IInv, RequestsTypeOK, Locals
  <1>1. ASSUME NEW type \in Types, create(r, type) PROVE IInv'
    <2>1. PICK sha \in {local[r].content, NoSha} :
            \/ Become(r, [Arrives(r, "create", type, sha) EXCEPT !.pc = "find"])
            \/ Become(r, Answered(Arrives(r, "create", type, sha), "rejected"))
      BY <1>1 DEF create
    <2> QED
      BY <1>0, <1>1, <2>1, ArrivalStep DEF create
  <1>2. CASE createUrl(r)
    BY <1>2, ArrivalStep DEF createUrl
  <1>3. CASE createFile(r)
    <2>1. PICK sha \in {local[r].content, NoSha} :
            \/ Become(r, [Arrives(r, "file", "file", sha) EXCEPT !.pc = "find"])
            \/ Become(r, Answered(Arrives(r, "file", "file", sha), "rejected"))
      BY <1>3 DEF createFile
    <2> QED
      BY <1>0, <1>3, <2>1, ArrivalStep DEF createFile
  <1>4. CASE uploadFile(r)
    BY <1>0, <1>4, ArrivalStep DEF uploadFile
  <1> QED
    BY <1>1, <1>2, <1>3, <1>4

LEMMA UploadInv ==
  ASSUME IInv, NEW r \in Requests,
         uploadSubmissionStream(r) \/ uploadFails(r) \/ createUploaded(r)
  PROVE  IInv'
  <1>0. /\ RequestsTypeOK /\ local[r].pc \in {"upload", "stored"} /\ local[r].outcome = "none"
        /\ local[r] \in Locals /\ objects' \subseteq Requests
        /\ UNCHANGED <<rows, jobs>>
    BY DEF IInv, RequestsTypeOK, RequestInv, At, uploadSubmissionStream, uploadFails, createUploaded
  <1>1. ASSUME NEW label \in {"stored", "find"}, Goto(r, label), UNCHANGED faults
        PROVE  IInv'
    <2> DEFINE m == [local[r] EXCEPT !.pc = label]
    <2>1. m \in Locals /\ m.pc = label /\ m.outcome = "none"
      BY <1>0 DEF Locals, Labels
    <2>2. Become(r, m) /\ faults' \in Nat
      BY <1>0, <1>1 DEF Goto, RequestsTypeOK
    <2> HIDE DEF m
    <2> QED
      BY <1>0, <2>1, <2>2, AheadStep DEF Committed
  <1>2. CASE uploadFails(r)
    <2>1. /\ Become(r, Answered(local[r], "rejected")) /\ faults' \in Nat
          /\ local[r].pc = "upload"
      BY <1>0, <1>2 DEF uploadFails, Fault, RequestsTypeOK, At
    <2> QED
      BY <1>0, <2>1, RejectedStep
  <1> QED
    BY <1>1, <1>2 DEF uploadSubmissionStream, createUploaded

\* A request that finds a submission of its type and hash is shown it.
LEMMA ReusedStep ==
  ASSUME IInv, NEW r \in Requests, NEW q \in Same(r),
         Become(r, Showing(local[r], "reused", q)), local[r].pc \in {"find", "findAgain"},
         UNCHANGED <<rows, jobs, objects, faults>>
  PROVE  IInv'
  <1> DEFINE l == Showing(local[r], "reused", q)
  <1>1. RequestsTypeOK /\ local[r] \in Locals /\ objects' \subseteq Requests /\ faults' \in Nat
    BY DEF IInv, RequestsTypeOK
  <1>2. q \in rows /\ q \in Requests
    BY <1>1 DEF Same, RequestsTypeOK
  <1>3. l \in Locals
    BY <1>1, <1>2, ShowingType DEF Outcomes
  <1>4. /\ l.pc = "done" /\ l.outcome = "reused" /\ l.shown = q /\ l.shownJobs = jobs[q]
        /\ l.type = local[r].type /\ l.sha = local[r].sha
    BY <1>1 DEF Showing, Answered, Locals
  <1> HIDE DEF l
  <1>5. Honest(r, l)
    BY <1>2, <1>4 DEF Honest, Same, Committed
  <1>6. Become(r, l)
    BY DEF l
  <1> QED
    BY <1>1, <1>3, <1>5, <1>6, HonestStep

LEMMA FindInv ==
  ASSUME IInv, NEW r \in Requests, findReusableBySha256(r)
  PROVE  IInv'
  <1>0. /\ RequestsTypeOK /\ local[r].pc = "find" /\ local[r].outcome = "none"
        /\ local[r] \in Locals /\ objects' \subseteq Requests /\ faults' \in Nat
        /\ UNCHANGED <<rows, jobs, objects, faults>>
    BY DEF IInv, RequestsTypeOK, RequestInv, At, findReusableBySha256
  <1>1. CASE Goto(r, "insert")
    <2> DEFINE m == [local[r] EXCEPT !.pc = "insert"]
    <2>1. m \in Locals /\ m.pc = "insert" /\ m.outcome = "none"
      BY <1>0 DEF Locals, Labels
    <2>2. Become(r, m)
      BY <1>1 DEF Goto
    <2> HIDE DEF m
    <2> QED
      BY <1>0, <2>1, <2>2, AheadStep DEF Committed
  <1>2. ASSUME NEW q \in Same(r), Become(r, Showing(local[r], "reused", q)) PROVE IInv'
    BY <1>0, <1>2, ReusedStep
  <1> QED
    BY <1>1, <1>2 DEF findReusableBySha256

\* The insert commits only under a free index, so that the loser of a race finds
\* the row it lost to.
LEMMA InsertInv ==
  ASSUME IInv, NEW r \in Requests, createSubmissionWithJobs(r)
  PROVE  IInv'
  <1>0. /\ RequestsTypeOK /\ local[r].pc = "insert" /\ local[r].outcome = "none"
        /\ local[r] \in Locals /\ objects' \subseteq Requests /\ faults' \in Nat
        /\ r \notin rows /\ UNCHANGED <<objects, faults>>
    BY DEF IInv, RequestsTypeOK, RowsInv, RequestInv, At, createSubmissionWithJobs, Committed
  <1>1. CASE Same(r) = {} /\ Commit(r) /\ Goto(r, "enqueue")
    <2> DEFINE m == [local[r] EXCEPT !.pc = "enqueue"]
    <2>1. /\ m \in Locals /\ m.pc = "enqueue" /\ m.outcome = "none"
          /\ m.type = local[r].type /\ m.sha = local[r].sha
      BY <1>0 DEF Locals, Labels
    <2>2. Become(r, m)
      BY <1>1 DEF Goto
    <2> HIDE DEF m
    <2> QED
      BY <1>0, <1>1, <2>1, <2>2, CommitStep DEF Committed
  <1>2. CASE Same(r) # {} /\ Goto(r, "findAgain") /\ UNCHANGED <<rows, jobs>>
    <2> DEFINE m == [local[r] EXCEPT !.pc = "findAgain"]
    <2>1. /\ m \in Locals /\ m.pc = "findAgain" /\ m.outcome = "none"
          /\ m.type = local[r].type /\ m.sha = local[r].sha
      BY <1>0 DEF Locals, Labels
    <2>2. Become(r, m)
      BY <1>2 DEF Goto
    <2> HIDE DEF m
    <2>3. Honest(r, m)
      BY <1>0, <1>2, <2>1 DEF Honest, Same, Committed
    <2> QED
      BY <1>0, <1>2, <2>1, <2>2, <2>3, HonestStep
  <1> QED
    BY <1>1, <1>2 DEF createSubmissionWithJobs

\* A request that ends with an error keeps its row, if it has one.
LEMMA ErrorStep ==
  ASSUME IInv, NEW r \in Requests, Become(r, Answered(local[r], "error")), 
         local[r].pc # "new", faults' \in Nat, objects' = objects,
         \/ UNCHANGED <<rows, jobs>>
         \/ local[r].pc = "insert" /\ Same(r) = {} /\ Commit(r)
  PROVE  IInv'
  <1> DEFINE l == Answered(local[r], "error")
  <1>1. RequestsTypeOK /\ local[r] \in Locals /\ objects' \subseteq Requests
    BY DEF IInv, RequestsTypeOK
  <1>2. l \in Locals
    BY <1>1, AnsweredType DEF Outcomes
  <1>3. /\ l.pc = "done" /\ l.outcome = "error"
        /\ l.type = local[r].type /\ l.sha = local[r].sha
    BY <1>1 DEF Answered, Locals
  <1>4. Become(r, l)
    OBVIOUS
  <1> HIDE DEF l
  <1>5. Honest(r, l)
    BY <1>3 DEF Honest, Committed
  <1>6. CASE UNCHANGED <<rows, jobs>>
    BY <1>1, <1>2, <1>4, <1>5, <1>6, HonestStep
  <1>7. CASE local[r].pc = "insert" /\ Same(r) = {} /\ Commit(r)
    BY <1>1, <1>2, <1>3, <1>4, <1>7, CommitStep
  <1> QED
    BY <1>6, <1>7

LEMMA FailInv ==
  ASSUME IInv, NEW r \in Requests, transactionFails(r) \/ queryFails(r)
  PROVE  IInv'
  <1>1. /\ faults' \in Nat /\ objects' = objects /\ local[r].pc # "new"
        /\ Become(r, Answered(local[r], "error"))
    BY DEF IInv, RequestsTypeOK, transactionFails, queryFails, At, Fault
  <1> QED
    BY <1>1, ErrorStep DEF transactionFails, queryFails, At

LEMMA ConflictInv ==
  ASSUME IInv, NEW r \in Requests, reuseAfterConflict(r)
  PROVE  IInv'
  <1>1. Same(r) # {}
    BY DEF IInv, RequestInv, At, reuseAfterConflict
  <1>2. PICK q \in Same(r) : Become(r, Showing(local[r], "reused", q))
    BY <1>1 DEF reuseAfterConflict
  <1> QED
    BY <1>2, ReusedStep DEF reuseAfterConflict, At

LEMMA EnqueueInv ==
  ASSUME IInv, NEW r \in Requests, enqueueJobsForSubmission(r) \/ reply(r)
  PROVE  IInv'
  <1>0. /\ RequestsTypeOK /\ local[r].pc \in Committed /\ local[r].outcome = "none"
        /\ local[r] \in Locals /\ objects' \subseteq Requests /\ faults' \in Nat
        /\ r \in rows /\ UNCHANGED <<rows, jobs, objects, faults>>
    BY DEF IInv, RequestsTypeOK, RequestInv, At, enqueueJobsForSubmission, reply, Committed
  <1>1. CASE enqueueJobsForSubmission(r)
    <2>1. PICK open \in SUBSET jobs[r] :
            Become(r, [local[r] EXCEPT !.pc = "reply", !.shownJobs = open])
      BY <1>1 DEF enqueueJobsForSubmission
    <2> DEFINE m == [local[r] EXCEPT !.pc = "reply", !.shownJobs = open]
    <2>2. open \in SUBSET JobTypes
      BY <1>0 DEF RequestsTypeOK
    <2>3. /\ m \in Locals /\ m.pc = "reply" /\ m.outcome = "none"
          /\ m.type = local[r].type /\ m.sha = local[r].sha
      BY <1>0, <2>2 DEF Locals, Labels
    <2>4. Become(r, m)
      BY <2>1
    <2> HIDE DEF m
    <2>5. Honest(r, m)
      BY <1>0, <2>3 DEF Honest, Committed
    <2> QED
      BY <1>0, <2>3, <2>4, <2>5, HonestStep
  <1>2. CASE reply(r)
    <2> DEFINE m == [Answered(local[r], "created") EXCEPT !.shown = r]
    <2>1. m \in Locals
      <3>1. Answered(local[r], "created") \in Locals
        BY <1>0, AnsweredType DEF Outcomes
      <3>2. \A l \in Locals : [l EXCEPT !.shown = r] \in Locals
        BY DEF Locals
      <3> QED
        BY <3>1, <3>2
    <2>2. /\ m.pc = "done" /\ m.outcome = "created" /\ m.shown = r
          /\ m.type = local[r].type /\ m.sha = local[r].sha
      BY <1>0 DEF Answered, Locals
    <2>3. Become(r, m)
      BY <1>2 DEF reply
    <2> HIDE DEF m
    <2>4. Honest(r, m)
      BY <1>0, <2>2 DEF Honest, Committed
    <2> QED
      BY <1>0, <2>1, <2>3, <2>4, HonestStep
  <1> QED
    BY <1>1, <1>2

\* The death of the API ends every request and no row.
LEMMA CrashInv ==
  ASSUME IInv, Crash
  PROVE  IInv'
  <1>1. /\ RequestsTypeOK /\ local \in [Requests -> Locals] /\ rows \subseteq Requests
        /\ rows' = rows /\ jobs' = jobs /\ objects' = objects /\ faults' \in Nat
    BY DEF IInv, RequestsTypeOK, Crash, Fault
  <1>2. \A r \in Requests : Answered(local[r], "error") \in Locals
    BY <1>1, AnsweredType DEF Outcomes
  <1>3. local' \in [Requests -> Locals]
    BY <1>1, <1>2 DEF Crash
  <1>4. \A r \in Requests : /\ local'[r].type = local[r].type
                            /\ local'[r].sha = local[r].sha
    BY <1>1 DEF Crash, Answered, Locals
  <1>5. \A r \in Requests :
          \/ local'[r] = local[r] /\ local[r].pc \in {"new", "done"}
          \/ local'[r].pc = "done" /\ local'[r].outcome = "error"
    BY <1>1 DEF Crash, Answered, Locals
  <1>6. RequestsTypeOK'
    BY <1>1, <1>3 DEF RequestsTypeOK
  <1>7. RowsInv'
    <2>1. (\A q \in rows : local[q].pc \in Committed \cup {"done"})'
      BY <1>1, <1>5 DEF IInv, RowsInv, Committed
    <2>2. (\A q \in rows : jobs[q] = planJobTypes(local[q].type))'
      BY <1>1, <1>4 DEF IInv, RowsInv
    <2>3. (\A p, q \in rows :
              /\ local[p].type = local[q].type
              /\ local[p].sha = local[q].sha /\ local[p].sha # NoSha
              => p = q)'
      BY <1>1, <1>4 DEF IInv, RowsInv
    <2> QED
      BY <2>1, <2>2, <2>3 DEF RowsInv
  <1>8. ASSUME NEW r \in Requests PROVE RequestInv(r)'
    <2>1. RequestInv(r)
      BY DEF IInv
    <2>2. CASE local'[r] = local[r] /\ local[r].pc \in {"new", "done"}
      <3>1. ShownInv(r)'
        BY <1>1, <1>4, <2>1, <2>2 DEF RequestInv, ShownInv, Shows
      <3> QED
        BY <2>1, <2>2, <3>1 DEF RequestInv, Committed
    <2>3. CASE local'[r].pc = "done" /\ local'[r].outcome = "error"
      BY <2>3 DEF RequestInv, ShownInv, Shows, Committed
    <2> QED
      BY <1>5, <2>2, <2>3
  <1> QED
    BY <1>6, <1>7, <1>8 DEF IInv

LEMMA StutterInv ==
  ASSUME IInv, UNCHANGED vars
  PROVE  IInv'
  BY DEF IInv, RequestsTypeOK, RowsInv, RequestInv, ShownInv, Shows, Same, vars

LEMMA TakenInv ==
  ASSUME IInv, NEW q \in Requests, takenOn(q)
  PROVE  IInv'
  BY DEF IInv, RequestsTypeOK, RowsInv, RequestInv, ShownInv, Shows, Same, takenOn, Fault

LEMMA NextInv ==
  ASSUME IInv, [Next]_vars
  PROVE  IInv'
  <1>1. ASSUME NEW r \in Requests, RequestStep(r) PROVE IInv'
    BY <1>1, UploadInv, FindInv, InsertInv, FailInv, ConflictInv, EnqueueInv
       DEF RequestStep
  <1> QED
    BY <1>1, ArrivalInv, CrashInv, TakenInv, StutterInv DEF Next, ServiceNext

\* The invariant from which the properties follow.
THEOREM Invariance == Spec => []IInv
  <1>1. IInv /\ [Next]_vars => IInv'
    BY NextInv
  <1> QED
    BY <1>1, InitInv, PTL DEF Spec

-----------------------------------------------------------------------------
(* The jobs that others take on *)

\* What create has listed, and answers with, are jobs of its own row, and those it has
\* missed were taken on by others.
BegunInv ==
    /\ begun \in [Requests -> SUBSET JobTypes]
    /\ \A r \in Requests :
         local[r].pc = "reply" \/ local[r].outcome = "created" =>
             /\ r \in rows
             /\ local[r].shownJobs \subseteq jobs[r]
             /\ jobs[r] \ local[r].shownJobs \subseteq begun[r]

\* A step that leaves begun alone and lists nothing.
LEMMA BegunMove ==
  ASSUME IInv, BegunInv, NEW r \in Requests, NEW l, Become(r, l), UNCHANGED begun,
         \/ UNCHANGED <<rows, jobs>>
         \/ r \notin rows /\ Commit(r),
         \/ l.pc # "reply" /\ l.outcome # "created"
         \/ local[r].pc = "reply" /\ l.shownJobs = local[r].shownJobs
  PROVE  BegunInv'
  <1>1. local'[r] = l /\ \A q \in Requests : q # r => local'[q] = local[q]
    BY DEF IInv, RequestsTypeOK, Become
  <1>2. \A q \in rows : q \in rows' /\ jobs'[q] = jobs[q]
    BY DEF IInv, RequestsTypeOK, Commit
  <1> QED
    BY <1>1, <1>2 DEF BegunInv

LEMMA RequestBegun ==
  ASSUME IInv, BegunInv, NEW r \in Requests, RequestStep(r), UNCHANGED begun
  PROVE  BegunInv'
  <1>0. local[r] \in Locals /\ (local[r].pc # "done" => local[r].outcome = "none")
    BY DEF IInv, RequestsTypeOK, RequestInv
  <1>1. CASE enqueueJobsForSubmission(r)
    <2>1. PICK open \in SUBSET jobs[r] :
            /\ jobs[r] \ begun[r] \subseteq open
            /\ local' = [local EXCEPT ![r] = [local[r] EXCEPT !.pc = "reply",
                                                             !.shownJobs = open]]
      BY <1>1 DEF enqueueJobsForSubmission, Become
    <2>2. r \in rows /\ UNCHANGED <<rows, jobs>>
      BY <1>1 DEF enqueueJobsForSubmission, At, IInv, RequestInv, Committed
    <2>3. local'[r].shownJobs = open /\ \A q \in Requests : q # r => local'[q] = local[q]
      BY <1>0, <2>1 DEF IInv, RequestsTypeOK, Locals
    <2> QED
      BY <2>1, <2>2, <2>3 DEF BegunInv
  <1>2. CASE reply(r)
    <2> DEFINE l == [Answered(local[r], "created") EXCEPT !.shown = r]
    <2>1. Become(r, l) /\ UNCHANGED <<rows, jobs>> /\ local[r].pc = "reply"
      BY <1>2 DEF reply, At
    <2>2. l.shownJobs = local[r].shownJobs
      BY <1>0 DEF Answered, Locals
    <2> HIDE DEF l
    <2> QED
      BY <2>1, <2>2, BegunMove
  <1>3. ASSUME \/ uploadSubmissionStream(r) \/ uploadFails(r) \/ createUploaded(r)
               \/ findReusableBySha256(r) \/ createSubmissionWithJobs(r)
               \/ transactionFails(r) \/ reuseAfterConflict(r) \/ queryFails(r)
        PROVE  BegunInv'
    <2> USE DEF uploadSubmissionStream, uploadFails, createUploaded, findReusableBySha256,
                createSubmissionWithJobs, transactionFails, reuseAfterConflict, queryFails
    <2>1. local[r].outcome = "none"
      BY <1>0, <1>3 DEF At
    <2>2. UNCHANGED <<rows, jobs>> \/ (r \notin rows /\ Commit(r))
      BY <1>3 DEF At, IInv, RowsInv, Committed
    <2> DEFINE Silent == \E l : Become(r, l) /\ l.pc # "reply" /\ l.outcome # "created"
    <2>3. Silent
      <3>1. ASSUME NEW label \in {"stored", "find", "insert", "findAgain", "enqueue"},
                   Goto(r, label)
            PROVE  Silent
        <4>1. LET l == [local[r] EXCEPT !.pc = label] IN l.pc = label /\ l.outcome = "none"
          BY <1>0, <2>1 DEF Locals
        <4> QED
          BY <3>1, <4>1 DEF Goto
      <3>2. ASSUME NEW outcome \in {"rejected", "error", "conflict"},
                   Become(r, Answered(local[r], outcome))
            PROVE  Silent
        <4>1. LET l == Answered(local[r], outcome) IN l.pc = "done" /\ l.outcome = outcome
          BY <1>0 DEF Locals, Answered
        <4> QED
          BY <3>2, <4>1
      <3>3. ASSUME NEW q, Become(r, Showing(local[r], "reused", q))
            PROVE  Silent
        <4>1. LET l == Showing(local[r], "reused", q)
              IN  l.pc = "done" /\ l.outcome = "reused"
          BY <1>0 DEF Locals, Showing, Answered
        <4> QED
          BY <3>3, <4>1
      <3> HIDE DEF Silent
      <3> QED
        BY <1>3, <3>1, <3>2, <3>3
    <2> QED
      BY <2>2, <2>3, BegunMove
  <1> QED
    BY <1>1, <1>2, <1>3 DEF RequestStep

LEMMA ArrivalBegun ==
  ASSUME IInv, BegunInv, UNCHANGED begun, NEW r \in Requests,
         \/ \E type \in Types : create(r, type)
         \/ createUrl(r) \/ createFile(r) \/ uploadFile(r)
  PROVE  BegunInv'
  <1>1. local[r].outcome = "none" /\ local[r] \in Locals /\ UNCHANGED <<rows, jobs>>
    BY DEF IInv, RequestsTypeOK, RequestInv, create, createUrl, createFile, uploadFile, At
  <1> DEFINE Enters(route, type, sha, label) ==
          \/ Become(r, [Arrives(r, route, type, sha) EXCEPT !.pc = label])
          \/ Become(r, Answered(Arrives(r, route, type, sha), "rejected"))
  <1>a. \E route, type, sha, label : label \in {"find", "upload"}
                                    /\ Enters(route, type, sha, label)
    BY DEF create, createUrl, createFile, uploadFile
  <1>2. PICK route, type, sha, label : label \in {"find", "upload"}
                                       /\ Enters(route, type, sha, label)
    BY <1>a
  <1>3. \E l : Become(r, l) /\ l.pc # "reply" /\ l.outcome # "created"
    <2> DEFINE k == Arrives(r, route, type, sha)
               entering == [k EXCEPT !.pc = label]
               refused == Answered(k, "rejected")
    <2>1. /\ entering.pc # "reply" /\ entering.outcome # "created"
          /\ refused.pc # "reply" /\ refused.outcome # "created"
      <3>1. /\ label # "reply" /\ DOMAIN k = DOMAIN local[r] /\ k.outcome = "none"
            /\ {"pc", "outcome"} \subseteq DOMAIN local[r]
        BY <1>1, <1>2 DEF Arrives, Locals
      <3> HIDE DEF k
      <3> QED
        BY <3>1 DEF Answered
    <2>2. Become(r, entering) \/ Become(r, refused)
      BY <1>2
    <2> HIDE DEF k, entering, refused
    <2>3. CASE Become(r, entering)
      BY <2>1, <2>3
    <2>4. CASE Become(r, refused)
      BY <2>1, <2>4
    <2> QED
      BY <2>2, <2>3, <2>4
  <1> QED
    BY <1>1, <1>3, BegunMove

LEMMA NextBegun ==
  ASSUME IInv, BegunInv, [Next]_vars
  PROVE  BegunInv'
  <1>1. CASE Crash /\ UNCHANGED begun
    <2>1. UNCHANGED <<rows, jobs>>
      BY <1>1 DEF Crash
    <2>2. ASSUME NEW r \in Requests,
                 local'[r].pc = "reply" \/ local'[r].outcome = "created"
          PROVE  local'[r] = local[r]
      <3>1. Answered(local[r], "error").pc = "done"
            /\ Answered(local[r], "error").outcome = "error"
        BY DEF IInv, RequestsTypeOK, Answered, Locals
      <3> QED
        BY <1>1, <2>2, <3>1 DEF Crash
    <2> QED
      BY <1>1, <2>1, <2>2 DEF BegunInv
  <1>2. ASSUME NEW q \in Requests, takenOn(q) PROVE BegunInv'
    <2>1. PICK type \in jobs[q] : begun' = [begun EXCEPT ![q] = @ \cup {type}]
      BY <1>2 DEF takenOn
    <2>2. /\ type \in JobTypes
          /\ \A r \in Requests : begun[r] \subseteq begun'[r]
          /\ begun' \in [Requests -> SUBSET JobTypes]
      BY <2>1 DEF IInv, RequestsTypeOK, BegunInv
    <2> QED
      BY <1>2, <2>2 DEF takenOn, BegunInv
  <1>3. CASE UNCHANGED vars
    BY <1>3 DEF BegunInv, vars
  <1> QED
    BY <1>1, <1>2, <1>3, RequestBegun, ArrivalBegun DEF Next, ServiceNext

LEMMA BegunInvariance == Spec => []BegunInv
  <1>1. Init => BegunInv
    <2> SUFFICES ASSUME Init PROVE BegunInv
      OBVIOUS
    <2> DEFINE Fresh(c) ==
          [pc |-> "new", route |-> "none", type |-> "none", content |-> c, sha |-> NoSha,
           outcome |-> "none", shown |-> NoRequest, shownJobs |-> {}]
    <2>0. local \in [Requests -> {Fresh(c) : c \in Contents}]
      BY DEF Init
    <2>1. \A r \in Requests : local[r].pc = "new" /\ local[r].outcome = "none"
      BY <2>0
    <2> QED
      BY <2>1 DEF Init, BegunInv
  <1>2. IInv /\ BegunInv /\ [Next]_vars => BegunInv'
    BY NextBegun
  <1> QED
    BY <1>1, <1>2, Invariance, PTL DEF Spec

\* Every variable keeps its type, for any number of requests, contents and faults.
THEOREM TypeCorrect == Spec => []TypeOK
  <1>1. IInv /\ BegunInv => TypeOK
    BY DEF IInv, BegunInv, TypeOK
  <1> QED
    BY <1>1, Invariance, BegunInvariance, PTL

\* However any number of look-ups and inserts interleave and fail, the clients that
\* are shown a submission of one type and hash are shown the same one.
THEOREM OneSubmissionPerHash == Spec => []SameHashSameSubmission
  <1>1. IInv => SameHashSameSubmission
    <2> SUFFICES ASSUME IInv, NEW r \in Requests, NEW q \in Requests,
                        Shows(r), Shows(q), local[r].type = local[q].type,
                        local[r].sha = local[q].sha, local[r].sha # NoSha
                 PROVE  local[r].shown = local[q].shown
      BY DEF SameHashSameSubmission
    <2>1. /\ local[r].shown \in rows /\ local[local[r].shown].type = local[r].type
          /\ local[local[r].shown].sha = local[r].sha
      BY DEF IInv, RequestInv, ShownInv
    <2>2. /\ local[q].shown \in rows /\ local[local[q].shown].type = local[q].type
          /\ local[local[q].shown].sha = local[q].sha
      BY DEF IInv, RequestInv, ShownInv
    <2> QED
      BY <2>1, <2>2 DEF IInv, RowsInv
  <1> QED
    BY <1>1, Invariance, PTL

\* A client that is shown a submission it did not create is shown all the jobs of its
\* type; one that created it, all but those that others took on before they were listed.
THEOREM JobsShown == Spec => []ShownWithJobs
  <1>1. IInv /\ BegunInv => ShownWithJobs
    <2> SUFFICES ASSUME IInv, BegunInv, NEW r \in Requests, Shows(r)
                 PROVE  LET planned == planJobTypes(local[r].type)
                        IN  /\ local[r].shownJobs \subseteq planned
                            /\ planned \ local[r].shownJobs
                                 \subseteq IF local[r].outcome = "created" THEN begun[r] ELSE {}
      BY DEF ShownWithJobs
    <2>1. CASE local[r].outcome = "created"
      BY <2>1 DEF IInv, RowsInv, BegunInv
    <2>2. CASE local[r].outcome = "reused"
      BY <2>2 DEF IInv, RowsInv, RequestInv, ShownInv, Shows
    <2> QED
      BY <2>1, <2>2 DEF Shows
  <1> QED
    BY <1>1, Invariance, BegunInvariance, PTL

\* The loser of a race for the unique index always finds the winner's row.
THEOREM RaceLoserReuses == Spec => []NoConflictShown
  <1>1. IInv => NoConflictShown
    BY DEF IInv, RequestInv, NoConflictShown
  <1> QED
    BY <1>1, Invariance, PTL

-----------------------------------------------------------------------------
(* The bucket *)

\* An upload past its storing has its file there, and so has its row.
Stored == {"stored", "find", "insert", "findAgain"} \cup Committed

HasFile(r) ==
    local[r].route = "upload" /\ (r \in rows \/ local[r].pc \in Stored) => r \in objects

FileInv == StorageConfigured => \A r \in Requests : HasFile(r)

\* A step of one request leaves the files of the others alone.
LEMMA FileMove ==
  ASSUME RequestsTypeOK, FileInv, NEW r \in Requests, NEW l, Become(r, l),
         rows' \subseteq rows \cup {r}, objects \subseteq objects',
         StorageConfigured => (l.route = "upload" /\ (r \in rows' \/ l.pc \in Stored)
                                 => r \in objects')
  PROVE  FileInv'
  <1>1. local'[r] = l /\ \A q \in Requests : q # r => local'[q] = local[q]
    BY DEF RequestsTypeOK, Become
  <1>2. ASSUME StorageConfigured, NEW q \in Requests PROVE HasFile(q)'
    <2>1. CASE q = r
      BY <1>1, <1>2, <2>1 DEF HasFile
    <2>2. CASE q # r
      BY <1>1, <1>2, <2>2 DEF FileInv, HasFile
    <2> QED
      BY <2>1, <2>2
  <1> QED
    BY <1>2 DEF FileInv

\* A request that arrives is no row yet; only one that uploads has a file to store.
LEMMA ArrivalFile ==
  ASSUME IInv, FileInv, NEW r \in Requests,
         \/ \E type \in Types : create(r, type)
         \/ createUrl(r) \/ createFile(r) \/ uploadFile(r)
  PROVE  FileInv'
  <1> USE DEF AllRoutes, Types
  <1>1. RequestsTypeOK /\ local[r].content \in Contents /\ UNCHANGED <<rows, objects>>
    BY DEF IInv, RequestsTypeOK, Locals, create, createUrl, createFile, uploadFile
  <1>2. r \notin rows
    BY DEF IInv, RowsInv, create, createUrl, createFile, uploadFile, At, Committed
  <1>3. ASSUME NEW route \in AllRoutes, NEW type \in Types, NEW sha \in Contents \cup {NoSha},
               NEW label \in {"find", "upload"}, route = "upload" => label = "upload",
               \/ Become(r, [Arrives(r, route, type, sha) EXCEPT !.pc = label])
               \/ Become(r, Answered(Arrives(r, route, type, sha), "rejected"))
        PROVE  FileInv'
    <2> DEFINE l == Arrives(r, route, type, sha)
    <2>1. l \in Locals /\ l.route = route
      BY <1>1, ArrivesType
    <2> HIDE DEF l
    <2>2. PICK m \in {[l EXCEPT !.pc = label], Answered(l, "rejected")} : Become(r, m)
      BY <1>3 DEF l
    <2>3. m.route = route /\ m.pc \in {label, "done"}
      BY <2>1 DEF Answered, Locals
    <2> QED
      BY <1>1, <1>2, <1>3, <2>2, <2>3, FileMove DEF Stored, Committed
  <1>4. ASSUME NEW type \in Types, create(r, type) PROVE FileInv'
    <2>1. PICK sha \in {local[r].content, NoSha} :
            \/ Become(r, [Arrives(r, "create", type, sha) EXCEPT !.pc = "find"])
            \/ Become(r, Answered(Arrives(r, "create", type, sha), "rejected"))
      BY <1>4 DEF create
    <2> QED
      BY <1>1, <1>3, <2>1
  <1>5. CASE createUrl(r)
    BY <1>3, <1>5 DEF createUrl
  <1>6. CASE createFile(r)
    <2>1. PICK sha \in {local[r].content, NoSha} :
            \/ Become(r, [Arrives(r, "file", "file", sha) EXCEPT !.pc = "find"])
            \/ Become(r, Answered(Arrives(r, "file", "file", sha), "rejected"))
      BY <1>6 DEF createFile
    <2> QED
      BY <1>1, <1>3, <2>1
  <1>7. CASE uploadFile(r)
    BY <1>1, <1>3, <1>7 DEF uploadFile
  <1> QED
    BY <1>4, <1>5, <1>6, <1>7

\* A request on its way keeps its route, and only goes on where its file is stored.
LEMMA RequestFile ==
  ASSUME IInv, FileInv, NEW r \in Requests, RequestStep(r)
  PROVE  FileInv'
  <1>1. RequestsTypeOK /\ local[r] \in Locals
    BY DEF IInv, RequestsTypeOK
  <1>2. CASE uploadSubmissionStream(r)
    <2>1. objects \subseteq objects' /\ rows' = rows /\ (StorageConfigured => r \in objects')
      BY <1>2 DEF uploadSubmissionStream
    <2>2. PICK l : Become(r, l)
      BY <1>2 DEF uploadSubmissionStream, Goto
    <2> QED
      BY <1>1, <2>1, <2>2, FileMove
  <1>3. CASE uploadFails(r)
    <2>1. /\ Become(r, Answered(local[r], "rejected")) /\ UNCHANGED rows
          /\ objects \subseteq objects' /\ local[r].pc = "upload"
      BY <1>3 DEF uploadFails, At
    <2>2. r \notin rows
      BY <2>1 DEF IInv, RowsInv, Committed
    <2>3. Answered(local[r], "rejected").pc = "done"
      BY <1>1 DEF Answered, Locals
    <2> QED
      BY <1>1, <2>1, <2>2, <2>3, FileMove DEF Stored, Committed
  <1>4. ASSUME \/ createUploaded(r) \/ findReusableBySha256(r)
               \/ createSubmissionWithJobs(r) \/ transactionFails(r) \/ reuseAfterConflict(r)
               \/ enqueueJobsForSubmission(r) \/ reply(r) \/ queryFails(r)
        PROVE  FileInv'
    <2> USE DEF createUploaded, findReusableBySha256, createSubmissionWithJobs,
                transactionFails, reuseAfterConflict, enqueueJobsForSubmission, reply, queryFails
    <2>1. local[r].pc \in Stored
      BY <1>4 DEF At, Stored, Committed
    <2>2. objects' = objects /\ rows' \subseteq rows \cup {r}
      BY <1>4 DEF Commit
    <2>3. \E l : Become(r, l) /\ l.route = local[r].route
      <3>1. \A label : [local[r] EXCEPT !.pc = label].route = local[r].route
        BY <1>1 DEF Locals
      <3>2. \A outcome : Answered(local[r], outcome).route = local[r].route
        BY <1>1 DEF Locals, Answered
      <3>3. \A outcome, q : Showing(local[r], outcome, q).route = local[r].route
        BY <1>1 DEF Locals, Showing, Answered
      <3>4. \A open : [local[r] EXCEPT !.pc = "reply", !.shownJobs = open].route
                        = local[r].route
        BY <1>1 DEF Locals
      <3>5. [Answered(local[r], "created") EXCEPT !.shown = r].route = local[r].route
        BY <1>1 DEF Locals, Answered
      <3> QED
        BY <1>4, <3>1, <3>2, <3>3, <3>4, <3>5 DEF Goto
    <2> QED
      BY <1>1, <2>1, <2>2, <2>3, FileMove DEF FileInv, HasFile
  <1> QED
    BY <1>2, <1>3, <1>4 DEF RequestStep

\* A crash ends requests and takes no file away.
LEMMA CrashFile ==
  ASSUME IInv, FileInv, Crash
  PROVE  FileInv'
  <1>1. ASSUME NEW q \in Requests, HasFile(q) PROVE HasFile(q)'
    <2>1. /\ local'[q].route = local[q].route
          /\ local'[q].pc \in {local[q].pc, "done"}
      BY DEF IInv, RequestsTypeOK, Crash, Answered, Locals
    <2> QED
      BY <1>1, <2>1 DEF Crash, HasFile, Stored, Committed
  <1> QED
    BY <1>1 DEF FileInv

\* A submission made by an upload has its file, whatever failed on the way.
THEOREM UploadsKeepFiles == Spec => []UploadRowHasFile
  <1>1. Init => FileInv
    BY DEF Init, FileInv, HasFile, Stored, Committed
  <1>2. ASSUME IInv, FileInv, [Next]_vars PROVE FileInv'
    <2>1. CASE UNCHANGED vars
      BY <1>2, <2>1 DEF FileInv, HasFile, vars
    <2>2. ASSUME NEW q \in Requests, takenOn(q) PROVE FileInv'
      BY <1>2, <2>2 DEF FileInv, HasFile, takenOn
    <2> QED
      BY <1>2, <2>1, <2>2, ArrivalFile, RequestFile, CrashFile DEF Next, ServiceNext
  <1>3. IInv /\ FileInv => UploadRowHasFile
    BY DEF IInv, RequestsTypeOK, FileInv, HasFile, UploadRowHasFile
  <1> QED
    BY <1>1, <1>2, <1>3, Invariance, PTL DEF Spec

-----------------------------------------------------------------------------
(* The contract of the uploads *)

\* The refinement mapping for one request; no two of its cases overlap.
AtOf(l) ==
    CASE l.route # "upload" -> "new"
      [] l.route = "upload" /\ l.pc = "upload" -> "upload"
      [] l.route = "upload" /\ l.pc = "stored" -> "stored"
      [] l.route = "upload" /\ l.pc = "done" /\ l.outcome \in {"rejected", "error"} -> "failed"
      [] OTHER -> "create"

\* Only an upload stores a file, and it is known as one from its arrival on.
RouteOK(l) ==
    /\ l.pc = "new" => l.route = "none"
    /\ l.pc \in {"upload", "stored"} => l.route = "upload"

RouteInv == \A r \in Requests : RouteOK(local[r])

\* What the contract lets one request do on its way from k to l.
Kept(r, k, l) ==
    \/ AtOf(l) = AtOf(k) /\ objects' = objects
    \/ AtOf(k) = "new" /\ AtOf(l) \in {"upload", "failed"} /\ objects' = objects
    \/ /\ AtOf(k) = "upload" /\ AtOf(l) = "stored"
       /\ objects' = IF StorageConfigured THEN objects \cup {r} ELSE objects
    \/ /\ AtOf(k) = "upload" /\ AtOf(l) = "failed"
       /\ objects' = objects \/ (StorageConfigured /\ objects' = objects \cup {r})
    \/ AtOf(k) = "stored" /\ AtOf(l) = "create" /\ objects' = objects
    \/ AtOf(k) = "create" /\ AtOf(l) = "failed" /\ objects' = objects

LEMMA Mapped ==
  ASSUME NEW l, l.route = "upload"
  PROVE  /\ l.pc = "upload" => AtOf(l) = "upload"
         /\ l.pc = "stored" => AtOf(l) = "stored"
         /\ l.pc = "done" /\ l.outcome = "rejected" => AtOf(l) = "failed"
         /\ l.pc = "find" => AtOf(l) = "create"
  <1>1. /\ l.pc = "upload" => AtOf(l) = "upload"
        /\ l.pc = "stored" => AtOf(l) = "stored"
    BY DEF AtOf
  <1>2. l.pc = "done" /\ l.outcome = "rejected" => AtOf(l) = "failed"
    BY DEF AtOf
  <1>3. l.pc = "find" => AtOf(l) = "create"
    BY DEF AtOf
  <1> QED
    BY <1>1, <1>2, <1>3

Step == RouteInv' /\ [Contract!Next]_(Contract!contractVars)

LEMMA InitContract == Init => RouteInv /\ Contract!Init
  <1> SUFFICES ASSUME Init PROVE RouteInv /\ Contract!Init
    OBVIOUS
  <1> DEFINE Fresh(c) ==
        [pc |-> "new", route |-> "none", type |-> "none", content |-> c, sha |-> NoSha,
         outcome |-> "none", shown |-> NoRequest, shownJobs |-> {}]
  <1>0. local \in [Requests -> {Fresh(c) : c \in Contents}]
    BY DEF Init
  <1>1. \A r \in Requests : local[r].pc = "new" /\ local[r].route = "none"
    BY <1>0
  <1>2. objects = {}
    BY DEF Init
  <1> QED
    BY <1>1, <1>2 DEF RouteInv, RouteOK, Contract!Init

LEMMA OneRequest ==
  ASSUME IInv, RouteInv, NEW r \in Requests, NEW l, Become(r, l), RouteOK(l),
         Kept(r, local[r], l)
  PROVE  Step
  <1>1. local \in [Requests -> Locals] /\ local' = [local EXCEPT ![r] = l]
    BY DEF IInv, RequestsTypeOK, Become
  <1>2. RouteInv'
    BY <1>1 DEF RouteInv, RouteOK
  <1> DEFINE at == [q \in Requests |-> AtOf(local[q])]
  <1>3. at' = [at EXCEPT ![r] = AtOf(l)] /\ at[r] = AtOf(local[r])
    BY <1>1
  <1>4. [ \E q \in Requests :
            \/ at[q] = "new" /\ at' = [at EXCEPT ![q] = "upload"] /\ objects' = objects
            \/ /\ at[q] = "upload" /\ at' = [at EXCEPT ![q] = "stored"]
               /\ objects' = IF StorageConfigured THEN objects \cup {q} ELSE objects
            \/ /\ at[q] = "upload" /\ at' = [at EXCEPT ![q] = "failed"]
               /\ (objects' = objects \/ (StorageConfigured /\ objects' = objects \cup {q}))
            \/ at[q] = "stored" /\ at' = [at EXCEPT ![q] = "create"] /\ objects' = objects
            \/ at[q] = "new" /\ at' = [at EXCEPT ![q] = "failed"] /\ objects' = objects
            \/ at[q] = "create" /\ at' = [at EXCEPT ![q] = "failed"] /\ objects' = objects
        ]_<<at, objects>>
    <2>1. CASE AtOf(l) = AtOf(local[r]) /\ objects' = objects
      <3>1. at' = at
        BY <2>1, <1>3
      <3> QED
        BY <2>1, <3>1
    <2> HIDE DEF at
    <2>2. CASE ~(AtOf(l) = AtOf(local[r]) /\ objects' = objects)
      BY <2>2, <1>3 DEF Kept
    <2> QED
      BY <2>1, <2>2
  <1>5. [Contract!Next]_(Contract!contractVars)
    BY <1>4 DEF AtOf, At, Contract!Next, Contract!contractVars, Contract!Begin, Contract!Store,
                Contract!Fail, Contract!HandOver, Contract!Refuse, Contract!Throw, Contract!Move
  <1> QED
    BY <1>2, <1>5 DEF Step

\* Only an upload goes on to the storage; every other request is none of the
\* contract's, and one that is turned away has begun nothing.
LEMMA ArrivalContract ==
  ASSUME IInv, RouteInv, NEW r \in Requests,
         \/ \E type \in Types : create(r, type)
         \/ createUrl(r) \/ createFile(r) \/ uploadFile(r)
  PROVE  Step
  <1> USE DEF AllRoutes, Types
  <1>1. /\ RequestsTypeOK /\ local[r].content \in Contents /\ local[r].pc = "new"
        /\ objects' = objects
    BY DEF IInv, RequestsTypeOK, Locals, create, createUrl, createFile, uploadFile, At
  <1>2. AtOf(local[r]) = "new"
    BY <1>1 DEF RouteInv, RouteOK, AtOf
  <1>3. ASSUME NEW route \in AllRoutes, NEW type \in Types, NEW sha \in Contents \cup {NoSha},
               NEW label \in {"find", "upload"}, route = "upload" <=> label = "upload",
               \/ Become(r, [Arrives(r, route, type, sha) EXCEPT !.pc = label])
               \/ Become(r, Answered(Arrives(r, route, type, sha), "rejected"))
        PROVE  Step
    <2> DEFINE k == Arrives(r, route, type, sha)
    <2>1. k \in Locals /\ k.route = route
      BY <1>1, ArrivesType
    <2> HIDE DEF k
    <2>2. PICK l \in {[k EXCEPT !.pc = label], Answered(k, "rejected")} : Become(r, l)
      BY <1>3 DEF k
    <2>3. /\ l.route = route
          /\ l.pc = label \/ (l.pc = "done" /\ l.outcome = "rejected")
      BY <2>1, <2>2 DEF Answered, Locals
    <2>4. RouteOK(l)
      BY <1>3, <2>3 DEF RouteOK
    <2>5. AtOf(l) \in {"new", "upload", "failed"}
      BY <1>3, <2>3 DEF AtOf
    <2>6. Kept(r, local[r], l)
      BY <1>1, <1>2, <2>5 DEF Kept
    <2> QED
      BY <2>2, <2>4, <2>6, OneRequest
  <1>4. ASSUME NEW type \in Types, create(r, type) PROVE Step
    <2>1. PICK sha \in {local[r].content, NoSha} :
            \/ Become(r, [Arrives(r, "create", type, sha) EXCEPT !.pc = "find"])
            \/ Become(r, Answered(Arrives(r, "create", type, sha), "rejected"))
      BY <1>4 DEF create
    <2> QED
      BY <1>1, <1>3, <2>1
  <1>5. CASE createUrl(r)
    BY <1>3, <1>5 DEF createUrl
  <1>6. CASE createFile(r)
    <2>1. PICK sha \in {local[r].content, NoSha} :
            \/ Become(r, [Arrives(r, "file", "file", sha) EXCEPT !.pc = "find"])
            \/ Become(r, Answered(Arrives(r, "file", "file", sha), "rejected"))
      BY <1>6 DEF createFile
    <2> QED
      BY <1>1, <1>3, <2>1
  <1>7. CASE uploadFile(r)
    BY <1>1, <1>3, <1>7 DEF uploadFile
  <1> QED
    BY <1>4, <1>5, <1>6, <1>7

\* The storage answers with the whole file stored, or the request fails.
LEMMA StorageContract ==
  ASSUME IInv, RouteInv, NEW r \in Requests,
         uploadSubmissionStream(r) \/ uploadFails(r) \/ createUploaded(r)
  PROVE  Step
  <1>1. local[r] \in Locals /\ local[r].outcome = "none" /\ local[r].route = "upload"
        /\ local[r].pc \in {"upload", "stored"} /\ AtOf(local[r]) = local[r].pc
    BY Mapped DEF IInv, RequestsTypeOK, RequestInv, RouteInv, RouteOK, At, uploadSubmissionStream,
                  uploadFails, createUploaded
  <1>2. PICK l \in {[local[r] EXCEPT !.pc = "stored"], [local[r] EXCEPT !.pc = "find"],
                    Answered(local[r], "rejected")} :
          /\ Become(r, l)
          /\ \/ /\ local[r].pc = "upload" /\ l.pc = "stored"
                /\ objects' = IF StorageConfigured THEN objects \cup {r} ELSE objects
             \/ /\ local[r].pc = "upload" /\ l.pc = "done" /\ l.outcome = "rejected"
                /\ objects' = objects \/ (StorageConfigured /\ objects' = objects \cup {r})
             \/ local[r].pc = "stored" /\ l.pc = "find" /\ objects' = objects
    <2>1. CASE uploadSubmissionStream(r)
      BY <1>1, <2>1 DEF uploadSubmissionStream, Goto, At, Locals
    <2>2. CASE uploadFails(r)
      BY <1>1, <2>2 DEF uploadFails, Answered, At, Locals
    <2>3. CASE createUploaded(r)
      BY <1>1, <2>3 DEF createUploaded, Goto, At, Locals
    <2> QED
      BY <2>1, <2>2, <2>3
  <1>3. l.route = "upload"
    BY <1>1, <1>2 DEF Answered, Locals
  <1>4. RouteOK(l)
    BY <1>2, <1>3 DEF RouteOK
  <1>5. /\ l.pc = "stored" => AtOf(l) = "stored"
        /\ l.pc = "done" /\ l.outcome = "rejected" => AtOf(l) = "failed"
        /\ l.pc = "find" => AtOf(l) = "create"
    BY <1>3, Mapped
  <1>6. Kept(r, local[r], l)
    BY <1>1, <1>2, <1>5 DEF Kept
  <1> QED
    BY <1>2, <1>4, <1>6, OneRequest

\* From the hand-over on no step touches the bucket; an error is all that ends an
\* upload otherwise than with an answer.
LEMMA CreateContract ==
  ASSUME IInv, RouteInv, NEW r \in Requests,
         \/ findReusableBySha256(r) \/ createSubmissionWithJobs(r)
         \/ transactionFails(r) \/ reuseAfterConflict(r)
         \/ enqueueJobsForSubmission(r) \/ reply(r) \/ queryFails(r)
  PROVE  Step
  <1>1. /\ local[r] \in Locals /\ local[r].outcome = "none" /\ objects' = objects
        /\ local[r].pc \in {"find", "insert", "findAgain"} \cup Committed
    BY DEF IInv, RequestsTypeOK, RequestInv, At, Committed, findReusableBySha256,
           createSubmissionWithJobs, transactionFails, reuseAfterConflict,
           enqueueJobsForSubmission, reply, queryFails
  <1>2. \E l : /\ Become(r, l) /\ l.route = local[r].route
               /\ l.pc \in {"insert", "findAgain", "done"} \cup Committed
    <2>1. \A label \in Labels : LET l == [local[r] EXCEPT !.pc = label]
                                IN  l.route = local[r].route /\ l.pc = label
      BY <1>1 DEF Locals
    <2>2. \A outcome : LET l == Answered(local[r], outcome)
                       IN  l.route = local[r].route /\ l.pc = "done"
      BY <1>1 DEF Locals, Answered
    <2>3. \A outcome, q : LET l == Showing(local[r], outcome, q)
                          IN  l.route = local[r].route /\ l.pc = "done"
      BY <1>1 DEF Locals, Showing, Answered
    <2>4. ASSUME NEW label \in {"insert", "findAgain"} \cup Committed, Goto(r, label)
          PROVE  \E l : /\ Become(r, l) /\ l.route = local[r].route
                        /\ l.pc \in {"insert", "findAgain", "done"} \cup Committed
      BY <2>1, <2>4 DEF Goto, Labels, Committed
    <2>5. CASE findReusableBySha256(r) \/ createSubmissionWithJobs(r)
      BY <2>3, <2>4, <2>5 DEF Committed, findReusableBySha256, createSubmissionWithJobs
    <2>6. CASE transactionFails(r) \/ queryFails(r)
      BY <2>2, <2>6 DEF transactionFails, queryFails
    <2>7. CASE reuseAfterConflict(r)
      BY <2>2, <2>3, <2>7 DEF reuseAfterConflict
    <2>8. CASE enqueueJobsForSubmission(r)
      <3>1. \A open : LET l == [local[r] EXCEPT !.pc = "reply", !.shownJobs = open]
                     IN  l.route = local[r].route /\ l.pc = "reply"
        BY <1>1 DEF Locals
      <3> QED
        BY <2>8, <3>1 DEF enqueueJobsForSubmission, Committed
    <2>9. CASE reply(r)
      <3>1. LET l == [Answered(local[r], "created") EXCEPT !.shown = r]
            IN  l.route = local[r].route /\ l.pc = "done"
        BY <1>1 DEF Locals, Answered
      <3> QED
        BY <2>9, <3>1 DEF reply
    <2> QED
      BY <2>5, <2>6, <2>7, <2>8, <2>9
  <1>3. PICK l : /\ Become(r, l) /\ l.route = local[r].route
                 /\ l.pc \in {"insert", "findAgain", "done"} \cup Committed
    BY <1>2
  <1>4. RouteOK(l)
    BY <1>3 DEF RouteOK, Committed
  <1>5. \/ AtOf(local[r]) = "new" /\ AtOf(l) = "new"
        \/ AtOf(local[r]) = "create" /\ AtOf(l) \in {"create", "failed"}
    BY <1>1, <1>3 DEF AtOf, Committed
  <1> QED
    BY <1>1, <1>3, <1>4, <1>5, OneRequest DEF Kept

LEMMA CrashContract ==
  ASSUME IInv, RouteInv, Crash
  PROVE  Step
  <1> DEFINE at == [q \in Requests |-> AtOf(local[q])]
  <1>1. ASSUME NEW q \in Requests
        PROVE  /\ RouteOK(local'[q])
               /\ \/ at'[q] = at[q] /\ at[q] \in {"new", "create", "failed"}
                  \/ at'[q] = "failed" /\ at[q] \in {"upload", "stored", "create"}
    <2>1. RouteOK(local[q]) /\ local[q] \in Locals /\ local[q].pc \in Labels
          /\ (local[q].pc # "done" => local[q].outcome = "none")
      BY DEF IInv, RequestsTypeOK, RequestInv, RouteInv, Locals
    <2>2. CASE local[q].pc \in {"new", "done"}
      <3>1. local'[q] = local[q]
        BY <2>2 DEF Crash
      <3> QED
        BY <2>1, <2>2, <3>1 DEF AtOf
    <2>3. CASE local[q].pc \notin {"new", "done"}
      <3>1. local'[q] = Answered(local[q], "error")
        BY <2>3 DEF Crash
      <3>2. /\ local'[q].pc = "done" /\ local'[q].outcome = "error"
            /\ local'[q].route = local[q].route
        BY <2>1, <3>1 DEF Answered, Locals
      <3> QED
        BY <2>1, <2>3, <3>2 DEF AtOf, RouteOK
    <2> QED
      BY <2>2, <2>3
  <1>2. RouteInv'
    BY <1>1 DEF RouteInv
  <1>3. \E answered \in SUBSET {q \in Requests : at[q] = "create"} :
          at' = [q \in Requests |-> IF at[q] = "new" \/ q \in answered THEN at[q] ELSE "failed"]
    <2> DEFINE kept == {q \in Requests : at[q] = "create" /\ at'[q] = "create"}
    <2>1. at' = [q \in Requests |-> at'[q]]
      OBVIOUS
    <2>2. \A q \in Requests :
            at'[q] = IF at[q] = "new" \/ q \in kept THEN at[q] ELSE "failed"
      BY <1>1
    <2> HIDE DEF at
    <2>3. at' = [q \in Requests |-> IF at[q] = "new" \/ q \in kept THEN at[q] ELSE "failed"]
      BY <2>1, <2>2
    <2> QED
      BY <2>3
  <1>4. Contract!Crash
    BY <1>3 DEF AtOf, At, Crash, Contract!Crash
  <1> QED
    BY <1>2, <1>4 DEF Step, Contract!Next

\* create does with the uploads what the contract says that ArtifactUpload keeps:
\* a refinement, for any number of requests, with and without a storage.
THEOREM ContractKept == Spec => UploadsKeepContract
  <1>1. ASSUME IInv, RouteInv, [Next]_vars PROVE Step
    <2>1. ASSUME NEW r \in Requests, RequestStep(r) PROVE Step
      BY <1>1, <2>1, StorageContract, CreateContract DEF RequestStep
    <2>2. CASE UNCHANGED vars
      BY <1>1, <2>2 DEF Step, RouteInv, vars, Contract!contractVars
    <2>3. ASSUME NEW q \in Requests, takenOn(q) PROVE Step
      BY <1>1, <2>3 DEF Step, RouteInv, takenOn, At, Contract!contractVars
    <2> QED
      BY <1>1, <2>1, <2>2, <2>3, ArrivalContract, CrashContract DEF Next, ServiceNext
  <1>2. ASSUME IInv, RouteInv, [Next]_vars
        PROVE  RouteInv' /\ [Contract!Next]_(Contract!contractVars)
    BY <1>1, <1>2 DEF Step
  <1> QED
    BY <1>2, InitContract, Invariance, PTL DEF Spec, UploadsKeepContract, Contract!Spec
=============================================================================
