---------------------------- MODULE AnalysisQueue ----------------------------
(***************************************************************************)
(* The two BullMQ queues behind src/infra/queue/analysis-queue.service.ts: *)
(* the analysis queue, one entry per job id, and the dead-letter queue.    *)
(* Order inside a queue is not observed by any property, so a queue is the *)
(* state of each entry and not a sequence.                                 *)
(*                                                                         *)
(* Operations of the service are translated from its source.  What BullMQ  *)
(* does by itself (taking, acknowledging, delayed retries, the stalled     *)
(* check, evicting finished entries) is external to the repository and     *)
(* modelled from the options the service passes and the way the worker     *)
(* uses the library.                                                       *)
(***************************************************************************)
EXTENDS Naturals

CONSTANTS
    Jobs,         \* ids of the analysis jobs; also the BullMQ job ids
    Slots,        \* concurrent processor invocations of the worker processes
    NoSlot,       \* holder of an entry nobody has locked
    MaxAttempts,  \* option `attempts` of the enqueued entries (3 in the code)
    MaxStalled    \* BullMQ's maxStalledCount (its default is 1)

ASSUME QueueAssumption ==
    /\ NoSlot \notin Slots
    /\ MaxAttempts \in Nat \ {0}
    /\ MaxStalled \in Nat

VARIABLES
    entry,        \* state of the entry of each job in the analysis queue
    made,         \* its attemptsMade
    stalls,       \* its stalled counter
    holder,       \* the slot that owns its lock
    deadLetter    \* the jobs with an entry in the dead-letter queue

queueVars == <<entry, made, stalls, holder, deadLetter>>

EntryStates == {"none", "waiting", "active", "delayed", "completed", "failed"}

QueueTypeOK ==
    /\ entry \in [Jobs -> EntryStates]
    /\ made \in [Jobs -> Nat]
    /\ stalls \in [Jobs -> Nat]
    /\ holder \in [Jobs -> Slots \cup {NoSlot}]
    /\ deadLetter \subseteq Jobs

QueueInit ==
    /\ entry = [j \in Jobs |-> "none"]
    /\ made = [j \in Jobs |-> 0]
    /\ stalls = [j \in Jobs |-> 0]
    /\ holder = [j \in Jobs |-> NoSlot]
    /\ deadLetter = {}

\* BullMQ will still run the job without anybody adding it again.
Live(j) == entry[j] \in {"waiting", "active", "delayed"}

-----------------------------------------------------------------------------
(* AnalysisQueueService *)

\* Queue.add with the job's own id: while an entry with that id is kept, in
\* whatever state, the call succeeds and changes nothing.
addIsNoOpWhileQueued(j) == entry[j] \in {"waiting", "delayed"}  \* mutant: an active entry is added again
addIsNoOp(j) == entry[j] # "none"

enqueueAnalysisJob(j) ==
    /\ \/ /\ addIsNoOp(j)
          /\ UNCHANGED <<entry, made, stalls>>
       \/ /\ ~addIsNoOp(j)
          /\ entry' = [entry EXCEPT ![j] = "waiting"]
          /\ made' = [made EXCEPT ![j] = 0]
          /\ stalls' = [stalls EXCEPT ![j] = 0]
    /\ UNCHANGED <<holder, deadLetter>>

\* The dead-letter queue has no worker: an entry stays until it is removed.
moveToDeadLetter(j) ==
    /\ deadLetter' = deadLetter \cup {j}
    /\ UNCHANGED <<entry, made, stalls, holder>>

removeDeadLetterJob(j) ==
    /\ deadLetter' = deadLetter \ {j}
    /\ UNCHANGED <<entry, made, stalls, holder>>

-----------------------------------------------------------------------------
(* BullMQ, external *)

\* A free slot fetches a waiting entry and locks it.
takeEntry(p, j) ==
    /\ entry[j] = "waiting"
    /\ entry' = [entry EXCEPT ![j] = "active"]
    /\ holder' = [holder EXCEPT ![j] = p]
    /\ UNCHANGED <<made, stalls, deadLetter>>

\* The processor returned.  Without the lock the result is refused.
moveToCompleted(p, j) ==
    \/ /\ holder[j] = p
       /\ entry' = [entry EXCEPT ![j] = "completed"]
       /\ holder' = [holder EXCEPT ![j] = NoSlot]
       /\ UNCHANGED <<made, stalls, deadLetter>>
    \/ /\ holder[j] # p
       /\ UNCHANGED queueVars

\* The processor threw: one attempt is used up, the entry backs off for
\* another one or fails for good.  Without the lock nothing changes.
moveToFailed(p, j) ==
    \/ /\ holder[j] = p
       /\ made' = [made EXCEPT ![j] = @ + 1]
       /\ entry' = [entry EXCEPT ![j] =
                      IF made[j] + 1 < MaxAttempts THEN "delayed" ELSE "failed"]
       /\ holder' = [holder EXCEPT ![j] = NoSlot]
       /\ UNCHANGED <<stalls, deadLetter>>
    \/ /\ holder[j] # p
       /\ UNCHANGED queueVars

\* The lock of slot p, dead or too slow to renew it, expires.
dropLock(p) ==
    /\ holder' = [j \in Jobs |-> IF holder[j] = p THEN NoSlot ELSE holder[j]]
    /\ UNCHANGED <<entry, made, stalls, deadLetter>>

\* The backoff of a failed attempt is over.
Promote(j) ==
    /\ entry[j] = "delayed"
    /\ entry' = [entry EXCEPT ![j] = "waiting"]
    /\ UNCHANGED <<made, stalls, holder, deadLetter>>

\* The stalled check finds an active entry without a lock: back to waiting
\* MaxStalled times, then failed, without any call of the processor.
Stalled(j) ==
    /\ entry[j] = "active" /\ holder[j] = NoSlot
    /\ stalls' = [stalls EXCEPT ![j] = @ + 1]
    /\ entry' = [entry EXCEPT ![j] =
                   IF stalls[j] < MaxStalled THEN "waiting" ELSE "failed"]
    /\ UNCHANGED <<made, holder, deadLetter>>

\* removeOnComplete / removeOnFail keep a fixed number of finished entries;
\* the traffic of other jobs pushes this one out.
Evict(j) ==
    /\ entry[j] \in {"completed", "failed"}
    /\ entry' = [entry EXCEPT ![j] = "none"]
    /\ made' = [made EXCEPT ![j] = 0]
    /\ stalls' = [stalls EXCEPT ![j] = 0]
    /\ UNCHANGED <<holder, deadLetter>>
=============================================================================
