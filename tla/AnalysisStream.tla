---------------------------- MODULE AnalysisStream ----------------------------
(***************************************************************************)
(* src/modules/notifications: which client hears of which change of a      *)
(* submission and its jobs.  Rows are changed by handlers of the API and   *)
(* of the workers, and a handler publishes the change after the awaited    *)
(* update.  Only the API process has a socket server: a worker is an       *)
(* application context without one, where gateway.server is undefined and  *)
(* what is published is dropped.                                           *)
(*                                                                         *)
(* Rows and results follow JobsService.  Its queue is left out: a job that *)
(* was ever added may be started by a worker at any time.                  *)
(***************************************************************************)
EXTENDS Naturals, FiniteSets

CONSTANTS
    StreamJobs,         \* the jobs of the submission
    Sub,                \* the submission itself
    Clients,
    MaxDue,             \* bound on the changes written and not yet published at once
    MaxStreamFaults

ASSUME StreamAssumption ==
    /\ Sub \notin StreamJobs
    /\ MaxDue \in Nat \ {0, 1}
    /\ MaxStreamFaults \in Nat

VARIABLES
    row,            \* status of the submission and of each job
    results,        \* jobs with a stored result
    added,          \* jobs that were ever added to the queue
    writing,        \* jobs added by a handler that has yet to write queued
    unwritten,      \* history: jobs of a handler that came to its end in between
    active,         \* jobs a worker is at
    computed,       \* what syncs may have worked out for the submission
    due,            \* what handlers of the API have written and not yet published
    room,           \* clients in the submission's room
    heard,          \* the last status each client was sent of each subject
    streamFaults

work == <<results, added, writing, unwritten, active, computed>>
streamVars == <<row, work, due, room, heard, streamFaults>>

Subjects == StreamJobs \cup {Sub}
Statuses == {"pending", "queued", "running", "completed", "failed",
             "accepted", "processing"}
Events == [subject : Subjects, status : Statuses]

StreamInit ==
    /\ row = [x \in Subjects |-> "none"]
    /\ results = {} /\ added = {} /\ writing = {} /\ unwritten = {} /\ active = {}
    /\ computed = {} /\ due = {} /\ room = {}
    /\ heard = [c \in Clients |-> [x \in Subjects |-> "none"]]
    /\ streamFaults = 0

StreamFault == streamFaults < MaxStreamFaults /\ streamFaults' = streamFaults + 1
Created == row[Sub] # "none"

-----------------------------------------------------------------------------
(* Handlers of the API *)

Tell(subjects) ==
    /\ due' = due \cup {[subject |-> x, status |-> row'[x]] : x \in subjects}
    /\ Cardinality(due') <= MaxDue

NextStatus ==
    LET seen == {row[j] : j \in StreamJobs}
    IN  CASE seen \cap {"queued", "running"} # {} -> "processing"
          [] seen = {"completed"}                 -> "completed"
          [] seen \cap {"queued", "running"} = {}
             /\ "failed" \in seen                 -> "failed"
          [] OTHER                                -> "accepted"

\* A handler writes a job's row.  From then on any sync, of any handler, may have read
\* the jobs as they are now.
WriteJob(j, status) ==
    /\ row' = [row EXCEPT ![j] = status]
    /\ computed' = computed \cup {NextStatus'}

\* A sync writes what it worked out from the jobs it read, however stale by now.
syncSubmissionStatus(status) ==
    /\ status \in computed
    /\ row' = [row EXCEPT ![Sub] = status]
    /\ Tell({Sub}) \/ UNCHANGED due
    /\ UNCHANGED <<work, room, heard, streamFaults>>

\* Mutant: the status is taken from before the transaction.
createStale ==
    /\ ~Created
    /\ row' = [x \in Subjects |-> IF x = Sub THEN "accepted" ELSE "pending"]
    /\ due' = due \cup {[subject |-> Sub, status |-> row[Sub]]}
    /\ UNCHANGED <<work, room, heard, streamFaults>>

createSubmission ==
    /\ ~Created
    /\ row' = [x \in Subjects |-> IF x = Sub THEN "accepted" ELSE "pending"]
    /\ computed' = {NextStatus'}
    /\ Tell({Sub})
    /\ UNCHANGED <<results, added, writing, unwritten, active, room, heard, streamFaults>>

\* retry, and recoverOpenJobs with what it took for stale: told to nobody.
resetJob(j) ==
    /\ Created
    /\ WriteJob(j, "pending")
    /\ UNCHANGED <<results, added, writing, unwritten, active, due, room, heard,
                   streamFaults>>

\* A request, a tick of the scheduler or a retry, from the look at the row to the add.
addJob(j) ==
    /\ row[j] \notin {"none", "completed"} /\ j \notin results
    /\ added' = added \cup {j} /\ writing' = writing \cup {j}
    /\ UNCHANGED <<row, results, unwritten, active, computed, due, room, heard,
                   streamFaults>>

writeQueued(j) ==
    /\ j \in writing
    /\ writing' = writing \ {j}
    /\ WriteJob(j, "queued") /\ Tell({j})
    /\ UNCHANGED <<results, added, unwritten, active, room, heard, streamFaults>>

\* Mutant: it is not looked whether the result is stored.
markUnlooked(j) ==
    /\ row[j] \notin {"none", "completed"}
    /\ row' = [row EXCEPT ![j] = "completed"] /\ Tell({j})
    /\ UNCHANGED <<work, room, heard, streamFaults>>

\* The job that already has its result is marked completed instead, and its submission
\* synced before the job is published: here it may be published at once.
markStored(j) ==
    /\ row[j] \notin {"none", "completed"} /\ j \in results
    /\ WriteJob(j, "completed") /\ Tell({j})
    /\ UNCHANGED <<results, added, writing, unwritten, active, room, heard, streamFaults>>

\* Redis or the database fails: create tells of it, whatever the submission is by now.
enqueueFails(j) ==
    /\ StreamFault
    /\ \/ /\ row[j] \notin {"none", "completed"} /\ UNCHANGED work
       \/ /\ j \in writing
          /\ writing' = writing \ {j} /\ unwritten' = unwritten \cup {j}
          /\ UNCHANGED <<results, added, active, computed>>
    /\ \/ UNCHANGED due
       \/ /\ due' = due \cup {[subject |-> Sub, status |-> "accepted"]}
          /\ Cardinality(due') <= MaxDue
    /\ UNCHANGED <<row, room, heard>>

-----------------------------------------------------------------------------
(* Workers *)

\* markRunning updates the job and, later, the submission.
startJob(j) ==
    /\ j \in added \ (active \cup results)
    /\ active' = active \cup {j}
    /\ WriteJob(j, "running")
    /\ UNCHANGED <<results, added, writing, unwritten, due, room, heard, streamFaults>>

storeResult(j) ==
    /\ j \in active
    /\ results' = results \cup {j}
    /\ UNCHANGED <<row, added, writing, unwritten, active, computed, due, room, heard,
                   streamFaults>>

\* An attempt that finds the result there is completed without being started.
finishJob(j) ==
    /\ j \in active \/ j \in added \cap results
    /\ active' = active \ {j}
    /\ \/ j \in results /\ WriteJob(j, "completed")
       \/ j \in active /\ WriteJob(j, "failed")
       \/ UNCHANGED <<row, computed>>
    /\ UNCHANGED <<results, added, writing, unwritten, due, room, heard,
                   streamFaults>>

-----------------------------------------------------------------------------
(* The room *)

\* The identifier is a fresh UUID: nobody can subscribe before the commit.
subscribe(c) ==
    /\ Created /\ c \notin room
    /\ room' = room \cup {c}
    /\ UNCHANGED <<row, work, due, heard, streamFaults>>

disconnect(c) ==
    /\ c \in room
    /\ room' = room \ {c}
    /\ UNCHANGED <<row, work, due, heard, streamFaults>>

\* Mutant: only a change of the submission is sent on.
emitUpdatesOnly(e) ==
    /\ e \in due
    /\ due' = due \ {e}
    /\ heard' = [c \in Clients |-> IF c \in room /\ e.subject = Sub
                    THEN [heard[c] EXCEPT ![e.subject] = e.status] ELSE heard[c]]
    /\ UNCHANGED <<row, work, room, streamFaults>>

emitToSubmission(e) ==
    /\ e \in due
    /\ due' = due \ {e}
    /\ heard' = [c \in Clients |-> IF c \in room
                    THEN [heard[c] EXCEPT ![e.subject] = e.status] ELSE heard[c]]
    /\ UNCHANGED <<row, work, room, streamFaults>>

\* The API dies with what it had still to write and to tell, and with its sockets.
ApiRestart ==
    /\ StreamFault
    /\ writing' = {} /\ unwritten' = unwritten \cup writing
    /\ due' = {} /\ room' = {}
    /\ UNCHANGED <<row, results, added, active, computed, heard>>

WorkerRestart ==
    /\ StreamFault
    /\ active' = {}
    /\ UNCHANGED <<row, results, added, writing, unwritten, computed, due, room, heard>>

-----------------------------------------------------------------------------
StreamNext ==
    \/ createSubmission
    \/ \E status \in computed : syncSubmissionStatus(status)
    \/ \E j \in StreamJobs :
         \/ resetJob(j) \/ addJob(j) \/ writeQueued(j) \/ markStored(j) \/ enqueueFails(j)
         \/ startJob(j) \/ storeResult(j) \/ finishJob(j)
    \/ \E c \in Clients : subscribe(c) \/ disconnect(c)
    \/ \E e \in due : emitToSubmission(e)
    \/ ApiRestart \/ WorkerRestart

StreamSpec == StreamInit /\ [][StreamNext]_streamVars

\* The scheduler comes to every pending job, whoever has added goes on to write, and
\* whoever has written to publish.  Strong fairness of writeQueued makes up for MaxDue.
StreamFairness ==
    /\ \A j \in StreamJobs : /\ WF_streamVars(row[j] = "pending" /\ addJob(j))
                             /\ SF_streamVars(writeQueued(j))
    /\ \A x \in Subjects :
         WF_streamVars(\E e \in due : e.subject = x /\ emitToSubmission(e))

-----------------------------------------------------------------------------
StreamTypeOK ==
    /\ row \in [Subjects -> Statuses \cup {"none"}]
    /\ results \subseteq StreamJobs /\ added \subseteq StreamJobs
    /\ writing \subseteq StreamJobs /\ unwritten \subseteq StreamJobs
    /\ active \subseteq StreamJobs /\ computed \subseteq Statuses
    /\ due \subseteq Events /\ room \subseteq Clients
    /\ heard \in [Clients -> [Subjects -> Statuses \cup {"none"}]]
    /\ streamFaults \in Nat

\* A client that is told of a completed job, or submission, finds the result, or that
\* of every job, however handlers of both processes overlap, fail and die.
CompletedHeardHasResult ==
    \A c \in Clients :
        /\ \A j \in StreamJobs : heard[c][j] = "completed" => j \in results
        /\ heard[c][Sub] = "completed" => StreamJobs \subseteq results

\* A client that waits for a pending job no worker can know of is told of the job, also
\* when only the scheduler is left to enqueue it; unless it leaves, the API dies, or the
\* enqueueing is cut off between Redis and the row (the workers tell it nothing).
PendingIsHeard ==
    \A c \in Clients, j \in StreamJobs :
        (c \in room /\ row[j] = "pending" /\ j \notin added)
            ~> (c \notin room \/ heard[c][j] # "none" \/ j \in unwritten)
=============================================================================
