---------------------------- MODULE QueueProcessor ----------------------------
(***************************************************************************)
(* src/workers/analysis-queue.processor.ts: what one of the concurrent     *)
(* invocations of the processor (a slot) does with the entry it took, and  *)
(* how it fails.  The analyzers behind dispatch() are one step that either *)
(* stores a result or throws.                                              *)
(***************************************************************************)
EXTENDS JobsService

\* The worker fetches the entry; the slot keeps the attemptsMade it saw.
take(p, j) ==
    /\ At(p, "idle")
    /\ takeEntry(p, j)
    /\ Become(p, [local[p] EXCEPT !.pc = "lookup", !.kind = "run",
                                  !.job = j, !.sub = SubOf[j], !.att = made[j]])
    /\ UNCHANGED <<dbVars, faults>>

\* Mutant: no lookup, every retry runs the analyzer.
skipLookup(p) ==
    /\ At(p, "lookup")
    /\ Goto(p, "start")
    /\ UNCHANGED <<queueVars, dbVars, faults>>

\* A retry of a job whose result is already stored only reports it.
findUniqueByJobId(p) ==
    /\ At(p, "lookup")
    /\ \/ /\ local[p].job \in result
          /\ Become(p, [local[p] EXCEPT !.pc = "complete", !.kind = "reuse"])
       \/ /\ local[p].job \notin result
          /\ Goto(p, "start")
    /\ UNCHANGED <<queueVars, dbVars, faults>>

\* Mutant: the analyzer swallows the error of results.create.
dispatchUnstored(p) ==
    /\ At(p, "work")
    /\ \/ result' = result \cup {local[p].job}
       \/ UNCHANGED result
    /\ Goto(p, "complete")
    /\ UNCHANGED <<queueVars, jobStatus, submissionStatus, faults>>

\* dispatch: the analyzer upserts the result of its job.
dispatch(p) ==
    /\ At(p, "work")
    /\ result' = result \cup {local[p].job}
    /\ Goto(p, "complete")
    /\ UNCHANGED <<queueVars, jobStatus, submissionStatus, faults>>

isFinalAttemptLate(l) == l.att >= MaxAttempts  \* mutant: attemptsMade without the current one
isFinalAttempt(l) == l.att + 1 >= MaxAttempts

\* Mutant: the catch block does not throw the error again.
CaughtQuietly(l) == IF isFinalAttempt(l) THEN [l EXCEPT !.pc = "fail", !.kind = "fail"]
                                         ELSE [l EXCEPT !.pc = "ack"]

\* The catch block: the final attempt is marked failed and dead-lettered
\* before the error goes to BullMQ.
Caught(l) == IF isFinalAttempt(l) THEN [l EXCEPT !.pc = "fail", !.kind = "fail"]
                                  ELSE [l EXCEPT !.pc = "nack"]

dispatchThrows(p) ==
    /\ At(p, "work")
    /\ Become(p, Caught(local[p]))
    /\ UNCHANGED <<queueVars, dbVars, faults>>

deadLetterJob(p) ==
    /\ At(p, "deadLetter")
    /\ moveToDeadLetter(local[p].job)
    /\ Goto(p, "nack")
    /\ UNCHANGED <<dbVars, faults>>

acknowledge(p) ==
    /\ At(p, "ack")
    /\ moveToCompleted(p, local[p].job)
    /\ Become(p, Idle)
    /\ UNCHANGED <<dbVars, faults>>

reject(p) ==
    /\ At(p, "nack")
    /\ moveToFailed(p, local[p].job)
    /\ Become(p, Idle)
    /\ UNCHANGED <<dbVars, faults>>

-----------------------------------------------------------------------------
(* Failures of a slot *)

InMarking(l) == l.pc \in {"complete", "syncRead", "syncWrite"}

\* Outside the try block, and inside the catch block, an error goes straight
\* to BullMQ; only the try block is caught.
OuterRegion(l) == \/ l.pc \in {"lookup", "start", "startSub"}
                  \/ l.kind = "reuse" /\ InMarking(l)
TryRegion(l)   == l.kind = "run" /\ InMarking(l)
CatchRegion(l) == l.kind = "fail" /\ l.pc \in {"fail", "syncRead", "syncWrite",
                                               "deadLetter"}

Thrown(l) == IF TryRegion(l) THEN [Caught(l) EXCEPT !.next = "none"]
                             ELSE [l EXCEPT !.pc = "nack", !.next = "none"]

\* A query or a Redis call of the processor fails.  The error of the last call
\* before the try block (updateProgress) comes after markRunning's updates.
Throws(p) ==
    /\ OuterRegion(local[p]) \/ TryRegion(local[p]) \/ CatchRegion(local[p])
    /\ Fault("throw")
    /\ Become(p, Thrown(local[p]))
    /\ \/ UNCHANGED submissionStatus
       \/ /\ At(p, "startSub")
          /\ submissionStatus' =
               [submissionStatus EXCEPT ![local[p].sub] = "processing"]
    /\ UNCHANGED <<queueVars, jobStatus, result>>

\* The worker process dies; its restart is an idle slot.
Crash(p) ==
    /\ ~At(p, "idle") /\ Fault("crash")
    /\ dropLock(p)
    /\ Become(p, Idle)
    /\ UNCHANGED dbVars

\* The slot goes on but its lock was not renewed in time.
LockExpires(p) ==
    /\ ~At(p, "idle") /\ holder[local[p].job] = p /\ Fault("stall")
    /\ dropLock(p)
    /\ UNCHANGED <<dbVars, local>>

-----------------------------------------------------------------------------
SlotStep(p) ==
    \/ findUniqueByJobId(p) \/ markRunning(p) \/ markSubmissionProcessing(p)
    \/ dispatch(p) \/ dispatchThrows(p)
    \/ markCompleted(p) \/ markFailed(p) \/ syncSubmissionStatus(p)
    \/ deadLetterJob(p) \/ acknowledge(p) \/ reject(p)

SlotFault(p) == Throws(p) \/ Crash(p) \/ LockExpires(p)

\* What BullMQ does with an entry on its own.
QueueStep(j) ==
    /\ Promote(j) \/ Stalled(j) \/ Evict(j)
    /\ UNCHANGED <<dbVars, local, faults>>
=============================================================================
