------------------------- MODULE AnalysisStreamProofs -------------------------
(***************************************************************************)
(* What a client is told of a completed job holds for any number of jobs,  *)
(* clients, faults and handlers.  Results are never taken away, so what is *)
(* true of a row when it is read or written is still true when a sync      *)
(* writes what it made of it, or its event arrives: the invariant says so  *)
(* of rows, of statuses worked out, of events under way and of clients.    *)
(***************************************************************************)
EXTENDS AnalysisStream, TLAPS

\* What "completed" says of a subject: its result is there, or that of every job.
Vouched(x, status) ==
    status = "completed" => IF x = Sub THEN StreamJobs \subseteq results ELSE x \in results

RowsVouched == \A x \in Subjects : Vouched(x, row[x])
ComputedVouched == \A status \in computed : Vouched(Sub, status)
DueVouched == \A e \in due : Vouched(e.subject, e.status)
HeardVouched == \A c \in Clients, x \in Subjects : Vouched(x, heard[c][x])

StreamInv == StreamTypeOK /\ RowsVouched /\ ComputedVouched /\ DueVouched /\ HeardVouched

LEMMA InitInv ==
  StreamInit => StreamInv
  BY StreamAssumption
     DEF StreamInit, StreamInv, StreamTypeOK, RowsVouched, ComputedVouched, DueVouched,
         HeardVouched, Vouched

\* Results only grow, so what was vouched for stays so.
LEMMA VouchedStays ==
  ASSUME NEW x, NEW status, results \subseteq results', Vouched(x, status)
  PROVE  Vouched(x, status)'
  BY DEF Vouched

\* A step that leaves the rows alone, and tells nobody.
LEMMA QuietStep ==
  ASSUME StreamInv, results \subseteq results', UNCHANGED <<row, heard>>, due' \subseteq due,
         StreamTypeOK', computed' = computed
  PROVE  StreamInv'
  <1>1. RowsVouched' /\ ComputedVouched'
    BY VouchedStays DEF StreamInv, RowsVouched, ComputedVouched
  <1>2. DueVouched'
    BY VouchedStays DEF StreamInv, DueVouched
  <1>3. HeardVouched'
    BY VouchedStays DEF StreamInv, HeardVouched
  <1> QED
    BY <1>1, <1>2, <1>3 DEF StreamInv

\* A submission is worked out to be completed only when all its jobs are.
LEMMA NextVouched ==
  ASSUME StreamTypeOK', RowsVouched'
  PROVE  NextStatus' \in Statuses /\ Vouched(Sub, NextStatus)'
  <1>1. NextStatus' \in Statuses
    BY DEF NextStatus, Statuses
  <1>2. NextStatus' = "completed" => {row'[j] : j \in StreamJobs} = {"completed"}
    BY DEF NextStatus
  <1>3. \A j \in StreamJobs : row'[j] = "completed" => j \in results'
    BY StreamAssumption DEF RowsVouched, Vouched, Subjects
  <1> QED
    BY <1>1, <1>2, <1>3 DEF Vouched

\* A step that writes rows which are vouched for, and tells of some of them or of none.
LEMMA WriteStep ==
  ASSUME StreamInv, NEW subjects \in SUBSET Subjects, RowsVouched',
         UNCHANGED <<results, heard>>,
         Tell(subjects) \/ due' = due,
         computed' \subseteq computed \cup {NextStatus'},
         StreamTypeOK'
  PROVE  StreamInv'
  <1>1. DueVouched'
    <2>1. CASE due' = due
      BY <2>1, VouchedStays DEF StreamInv, DueVouched
    <2>2. CASE Tell(subjects)
      <3> SUFFICES ASSUME NEW e \in due' PROVE Vouched(e.subject, e.status)'
        BY DEF DueVouched
      <3>1. CASE e \in due
        BY <3>1, VouchedStays DEF StreamInv, DueVouched
      <3>2. CASE e \notin due
        <4>1. PICK x \in subjects : e = [subject |-> x, status |-> row'[x]]
          BY <2>2, <3>2 DEF Tell
        <4> QED
          BY <4>1 DEF RowsVouched, Vouched
      <3> QED
        BY <3>1, <3>2
    <2> QED
      BY <2>1, <2>2
  <1>2. HeardVouched'
    BY VouchedStays DEF StreamInv, HeardVouched
  <1>3. ComputedVouched'
    BY VouchedStays, NextVouched DEF StreamInv, ComputedVouched
  <1> QED
    BY <1>1, <1>2, <1>3 DEF StreamInv

\* The rows with one of them overwritten.
LEMMA RowType ==
  ASSUME StreamTypeOK, NEW x \in Subjects, NEW status \in Statuses
  PROVE  [row EXCEPT ![x] = status] \in [Subjects -> Statuses \cup {"none"}]
  BY DEF StreamTypeOK

LEMMA EventType ==
  ASSUME NEW subjects \in SUBSET Subjects, due \subseteq Events,
         \A x \in subjects : row'[x] \in Statuses, Tell(subjects) \/ due' = due
  PROVE  due' \subseteq Events
  BY DEF Tell, Events

LEMMA CreateInv ==
  ASSUME StreamInv, createSubmission
  PROVE  StreamInv'
  <1>1. \A x \in Subjects : row'[x] \in {"accepted", "pending"}
    BY DEF createSubmission
  <1>2. StreamTypeOK'
    <2>1. row' \in [Subjects -> Statuses \cup {"none"}] /\ Tell({Sub})
      BY DEF createSubmission, Statuses
    <2>2. due' \subseteq Events
      BY <1>1, <2>1, EventType DEF StreamInv, StreamTypeOK, Statuses, Subjects
    <2>3. computed' \subseteq Statuses
      BY DEF createSubmission, NextStatus, Statuses
    <2> QED
      BY <2>1, <2>2, <2>3 DEF createSubmission, StreamInv, StreamTypeOK
  <1>3. RowsVouched'
    BY <1>1 DEF RowsVouched, Vouched
  <1> QED
    BY <1>2, <1>3, WriteStep DEF createSubmission, Subjects

\* One row is overwritten, and told of or not.
LEMMA RowInv ==
  ASSUME StreamInv, NEW x \in Subjects, NEW status \in Statuses, Vouched(x, status),
         row' = [row EXCEPT ![x] = status], Tell({x}) \/ due' = due,
         computed' \subseteq computed \cup {NextStatus'},
         added' = added, results' = results, unwritten' = unwritten,
         writing' \subseteq writing, active' \subseteq StreamJobs,
         UNCHANGED <<room, heard, streamFaults>>
  PROVE  StreamInv'
  <1>1. row' \in [Subjects -> Statuses \cup {"none"}] /\ row'[x] = status
    BY RowType DEF StreamInv, StreamTypeOK
  <1>2. StreamTypeOK'
    <2>1. due' \subseteq Events
      BY <1>1, EventType DEF StreamInv, StreamTypeOK
    <2>2. computed' \subseteq Statuses
      BY DEF StreamInv, StreamTypeOK, NextStatus, Statuses
    <2> QED
      BY <1>1, <2>1, <2>2 DEF StreamInv, StreamTypeOK
  <1>3. RowsVouched'
    <2> SUFFICES ASSUME NEW y \in Subjects PROVE Vouched(y, row[y])'
      BY DEF RowsVouched
    <2>1. Vouched(y, row[y])
      BY DEF StreamInv, RowsVouched
    <2>2. row'[y] = row[y] \/ (y = x /\ row'[y] = status)
      BY <1>1 DEF StreamInv, StreamTypeOK
    <2> QED
      BY <2>1, <2>2 DEF Vouched
  <1> QED
    BY <1>2, <1>3, WriteStep

\* What a sync writes was vouched for when it was worked out.
LEMMA SyncInv ==
  ASSUME StreamInv, NEW status \in computed, syncSubmissionStatus(status)
  PROVE  StreamInv'
  <1>1. /\ status \in Statuses /\ Vouched(Sub, status) /\ Sub \in Subjects
        /\ row' = [row EXCEPT ![Sub] = status] /\ (Tell({Sub}) \/ due' = due)
        /\ active' \subseteq StreamJobs
        /\ UNCHANGED <<results, added, writing, unwritten, computed, room, heard,
                       streamFaults>>
    BY DEF syncSubmissionStatus, work, StreamInv, StreamTypeOK, ComputedVouched, Subjects
  <1> QED
    BY <1>1, RowInv

\* The row of a job becomes pending, queued, running, completed or failed.
LEMMA JobInv ==
  ASSUME StreamInv, NEW j \in StreamJobs,
         resetJob(j) \/ writeQueued(j) \/ markStored(j) \/ startJob(j) \/ finishJob(j)
  PROVE  StreamInv'
  <1> DEFINE Writes(status) ==
          /\ status \in Statuses /\ Vouched(j, status)
          /\ row' = [row EXCEPT ![j] = status] /\ (Tell({j}) \/ due' = due)
  <1>1. /\ computed' \subseteq computed \cup {NextStatus'} /\ writing' \subseteq writing
        /\ UNCHANGED <<added, results, unwritten, room, heard, streamFaults>>
        /\ active' \subseteq StreamJobs
    BY DEF resetJob, writeQueued, markStored, startJob, finishJob, WriteJob, StreamInv,
           StreamTypeOK
  <1>2. j \in Subjects /\ j # Sub
    BY StreamAssumption DEF Subjects
  <1>3. CASE resetJob(j) \/ writeQueued(j) \/ startJob(j)
    <2>1. \E status \in {"pending", "queued", "running"} : Writes(status)
      BY <1>3 DEF resetJob, writeQueued, startJob, WriteJob, Vouched, Statuses
    <2> QED
      BY <1>1, <1>2, <2>1, RowInv
  <1>4. CASE markStored(j)
    <2>1. Writes("completed")
      BY <1>2, <1>4 DEF markStored, WriteJob, Vouched, Statuses
    <2> QED
      BY <1>1, <1>2, <2>1, RowInv
  <1>5. CASE finishJob(j)
    <2>1. CASE j \in results /\ row' = [row EXCEPT ![j] = "completed"]
      <3>1. Writes("completed")
        BY <1>2, <1>5, <2>1 DEF finishJob, Vouched, Statuses
      <3> QED
        BY <1>1, <1>2, <3>1, RowInv
    <2>2. CASE row' = [row EXCEPT ![j] = "failed"]
      <3>1. Writes("failed")
        BY <1>2, <1>5, <2>2 DEF finishJob, Vouched, Statuses
      <3> QED
        BY <1>1, <1>2, <3>1, RowInv
    <2>3. CASE UNCHANGED <<row, computed>>
      <3>1. StreamTypeOK'
        BY <1>1, <1>5, <2>3 DEF finishJob, StreamInv, StreamTypeOK
      <3> QED
        BY <1>5, <2>3, <3>1, QuietStep DEF finishJob
    <2> QED
        BY <1>5, <2>1, <2>2, <2>3 DEF finishJob, WriteJob
  <1> QED
    BY <1>3, <1>4, <1>5

\* Adding a job, storing a result, coming, leaving and dying write no row.
LEMMA QuietInv ==
  ASSUME StreamInv,
         \/ \E j \in StreamJobs : addJob(j) \/ storeResult(j)
         \/ \E c \in Clients : subscribe(c) \/ disconnect(c)
         \/ ApiRestart \/ WorkerRestart
  PROVE  StreamInv'
  <1>1. StreamTypeOK'
    BY DEF addJob, storeResult, subscribe, disconnect, ApiRestart, WorkerRestart,
           StreamFault, work, StreamInv, StreamTypeOK
  <1>2. /\ results \subseteq results' /\ UNCHANGED <<row, computed, heard>>
        /\ due' \subseteq due
    BY DEF addJob, storeResult, subscribe, disconnect, ApiRestart, WorkerRestart, work
  <1> QED
    BY <1>1, <1>2, QuietStep

LEMMA FailInv ==
  ASSUME StreamInv, NEW j \in StreamJobs, enqueueFails(j)
  PROVE  StreamInv'
  <1>1. /\ UNCHANGED <<row, results, added, active, computed, room, heard>>
        /\ streamFaults' \in Nat
        /\ writing' \subseteq StreamJobs /\ unwritten' \subseteq StreamJobs
    BY DEF enqueueFails, StreamFault, work, StreamInv, StreamTypeOK
  <1>2. due' \subseteq due \cup {[subject |-> Sub, status |-> "accepted"]}
    BY DEF enqueueFails
  <1>3. StreamTypeOK'
    BY <1>1, <1>2 DEF StreamInv, StreamTypeOK, Events, Subjects, Statuses
  <1>4. RowsVouched' /\ ComputedVouched' /\ HeardVouched'
    BY <1>1, VouchedStays DEF StreamInv, RowsVouched, ComputedVouched, HeardVouched
  <1>5. DueVouched'
    <2> SUFFICES ASSUME NEW e \in due' PROVE Vouched(e.subject, e.status)'
      BY DEF DueVouched
    <2>1. CASE e \in due
      BY <1>1, <2>1, VouchedStays DEF StreamInv, DueVouched
    <2>2. CASE e = [subject |-> Sub, status |-> "accepted"]
      BY <2>2 DEF Vouched
    <2> QED
      BY <1>2, <2>1, <2>2
  <1> QED
    BY <1>3, <1>4, <1>5 DEF StreamInv

\* An event that is vouched for is what the clients in the room now hear.
LEMMA EmitInv ==
  ASSUME StreamInv, NEW e \in due, emitToSubmission(e)
  PROVE  StreamInv'
  <1>1. UNCHANGED <<row, results, added, writing, unwritten, active, computed, room,
                    streamFaults>>
        /\ due' \subseteq due
    BY DEF emitToSubmission, work
  <1>2. e.subject \in Subjects /\ e.status \in Statuses /\ Vouched(e.subject, e.status)
    BY DEF StreamInv, StreamTypeOK, DueVouched, Events
  <1>3. \A c \in Clients :
          \/ heard'[c] = heard[c]
          \/ heard'[c] = [heard[c] EXCEPT ![e.subject] = e.status]
    BY DEF emitToSubmission
  <1>4. heard' \in [Clients -> [Subjects -> Statuses \cup {"none"}]]
    <2>1. \A c \in Clients : heard[c] \in [Subjects -> Statuses \cup {"none"}]
      BY DEF StreamInv, StreamTypeOK
    <2>2. \A c \in Clients :
            [heard[c] EXCEPT ![e.subject] = e.status] \in [Subjects -> Statuses \cup {"none"}]
      BY <1>2, <2>1
    <2> QED
      BY <2>1, <2>2 DEF emitToSubmission
  <1>5. StreamTypeOK'
    BY <1>1, <1>4 DEF StreamInv, StreamTypeOK
  <1>6. RowsVouched' /\ ComputedVouched' /\ DueVouched'
    BY <1>1, VouchedStays DEF StreamInv, RowsVouched, ComputedVouched, DueVouched
  <1>7. HeardVouched'
    <2> SUFFICES ASSUME NEW c \in Clients, NEW x \in Subjects PROVE Vouched(x, heard[c][x])'
      BY DEF HeardVouched
    <2>1. Vouched(x, heard[c][x])
      BY DEF StreamInv, HeardVouched
    <2>2. heard'[c][x] = heard[c][x] \/ (x = e.subject /\ heard'[c][x] = e.status)
      BY <1>2, <1>3 DEF StreamInv, StreamTypeOK
    <2> QED
      BY <1>1, <1>2, <2>1, <2>2 DEF Vouched
  <1> QED
    BY <1>5, <1>6, <1>7 DEF StreamInv

LEMMA NextInv ==
  ASSUME StreamInv, [StreamNext]_streamVars
  PROVE  StreamInv'
  <1>1. CASE createSubmission
    BY <1>1, CreateInv
  <1>2. ASSUME NEW status \in computed, syncSubmissionStatus(status) PROVE StreamInv'
    BY <1>2, SyncInv
  <1>3. ASSUME NEW j \in StreamJobs,
               \/ resetJob(j) \/ addJob(j) \/ writeQueued(j) \/ markStored(j)
               \/ enqueueFails(j) \/ startJob(j) \/ storeResult(j) \/ finishJob(j)
        PROVE StreamInv'
    BY <1>3, JobInv, QuietInv, FailInv
  <1>4. ASSUME NEW c \in Clients, subscribe(c) \/ disconnect(c) PROVE StreamInv'
    BY <1>4, QuietInv
  <1>5. ASSUME NEW e \in due, emitToSubmission(e) PROVE StreamInv'
    BY <1>5, EmitInv
  <1>6. CASE ApiRestart \/ WorkerRestart
    BY <1>6, QuietInv
  <1>7. CASE UNCHANGED streamVars
    <2>1. StreamTypeOK'
      BY <1>7 DEF streamVars, work, StreamInv, StreamTypeOK
    <2> QED
      BY <1>7, <2>1, QuietStep DEF streamVars, work
  <1> QED
    BY <1>1, <1>2, <1>3, <1>4, <1>5, <1>6, <1>7 DEF StreamNext

LEMMA Invariance == StreamSpec => []StreamInv
  <1> QED
    BY InitInv, NextInv, PTL DEF StreamSpec

\* Every variable of AnalysisStream keeps its type, and no event carries a status that
\* a row never has, whatever is published by whom.
THEOREM TypeCorrect == StreamSpec => []StreamTypeOK
  <1>1. StreamInv => StreamTypeOK
    BY DEF StreamInv
  <1> QED
    BY <1>1, Invariance, PTL

\* A client that is told of a completed job, or submission, finds the result, or that
\* of every job (NotificationsService, JobsService): for any number of jobs, clients,
\* overlapping handlers, failures and deaths of both processes.
THEOREM CompletedIsTrue == StreamSpec => []CompletedHeardHasResult
  <1>1. StreamInv => CompletedHeardHasResult
    <2> SUFFICES ASSUME StreamInv, NEW c \in Clients
                 PROVE  /\ \A j \in StreamJobs : heard[c][j] = "completed" => j \in results
                        /\ heard[c][Sub] = "completed" => StreamJobs \subseteq results
      BY DEF CompletedHeardHasResult
    <2>1. \A x \in Subjects : Vouched(x, heard[c][x])
      BY DEF StreamInv, HeardVouched
    <2> QED
      BY <2>1, StreamAssumption DEF Vouched, Subjects
  <1> QED
    BY <1>1, Invariance, PTL
=============================================================================
