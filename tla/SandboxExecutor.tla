--------------------------- MODULE SandboxExecutor ---------------------------
(***************************************************************************)
(* src/workers/sandbox-executor.worker.ts: an attempt of a sandbox job     *)
(* between its temporary directory, the download, the docker client it     *)
(* waits for and the container behind it.  The container belongs to the    *)
(* docker daemon: it outlives a client that loses its connection, and the  *)
(* worker.                                                                 *)
(***************************************************************************)
EXTENDS Naturals

CONSTANTS
    Attempts,           \* attempts of sandbox jobs on one worker machine
    MaxSandboxFaults

ASSUME SandboxAssumption == MaxSandboxFaults \in Nat

VARIABLES
    attempt,        \* where each attempt is, and the kind of its result
    dirs,           \* attempts whose temporary directory exists
    artifact,       \* what is in the directory
    container,      \* the container of each attempt
    sandboxFaults

sandboxVars == <<attempt, dirs, artifact, container, sandboxFaults>>

SandboxLabels == {"new", "get", "download", "docker", "wait", "store", "ended", "dead"}
Kinds == {"none", "skipped", "fallback", "report"}

\* saw: what the container found under /sandbox.
SandboxInit ==
    /\ attempt = [a \in Attempts |-> [pc |-> "new", kind |-> "none"]]
    /\ dirs = {}
    /\ artifact = [a \in Attempts |-> "none"]
    /\ container = [a \in Attempts |-> [state |-> "none", saw |-> "none"]]
    /\ sandboxFaults = 0

SandboxAt(a, label) == attempt[a].pc = label
Step(a, from, to) == SandboxAt(a, from) /\ attempt' = [attempt EXCEPT ![a].pc = to]
SandboxFault == sandboxFaults < MaxSandboxFaults /\ sandboxFaults' = sandboxFaults + 1

\* The try block is left: finally removes the directory, before the result that is
\* being returned has been stored.
Leave(a, from, to, kind) ==
    /\ SandboxAt(a, from)
    /\ attempt' = [attempt EXCEPT ![a] = [pc |-> to, kind |-> kind]]
    /\ dirs' = dirs \ {a}
    /\ artifact' = [artifact EXCEPT ![a] = "none"]

-----------------------------------------------------------------------------
\* Mutant: the directory is made when the download is done.
handleLazily(a) ==
    /\ \/ Step(a, "new", "get")
       \/ /\ SandboxAt(a, "new")
          /\ attempt' = [attempt EXCEPT ![a] = [pc |-> "store", kind |-> "skipped"]]
    /\ UNCHANGED <<dirs, artifact, container, sandboxFaults>>

\* A safe MIME type, no file and no storage are skipped before there is a directory.
handleAttempt(a) ==
    /\ \/ /\ Step(a, "new", "get") /\ dirs' = dirs \cup {a}
       \/ /\ SandboxAt(a, "new") /\ UNCHANGED dirs
          /\ attempt' = [attempt EXCEPT ![a] = [pc |-> "store", kind |-> "skipped"]]
    /\ UNCHANGED <<artifact, container, sandboxFaults>>

getObject(a) ==
    /\ \/ /\ Step(a, "get", "download")
          /\ artifact' = [artifact EXCEPT ![a] = "partial"]
          /\ UNCHANGED <<dirs, sandboxFaults>>
       \/ Leave(a, "get", "store", "skipped") /\ SandboxFault
    /\ UNCHANGED container

\* Mutant: the pipeline into the file is not awaited.
downloadUnawaited(a) ==
    /\ Step(a, "download", "docker")
    /\ artifact' \in {artifact, [artifact EXCEPT ![a] = "whole"]}
    /\ UNCHANGED <<dirs, container, sandboxFaults>>

\* Mutant: the directory is only removed after a success.
downloadLeaving(a) ==
    /\ \/ /\ Step(a, "download", "docker")
          /\ artifact' = [artifact EXCEPT ![a] = "whole"]
          /\ UNCHANGED <<dirs, sandboxFaults>>
       \/ /\ Step(a, "download", "ended")
          /\ SandboxFault /\ UNCHANGED <<dirs, artifact>>
    /\ UNCHANGED container

\* An error of the pipeline leaves handle.
download(a) ==
    /\ \/ /\ Step(a, "download", "docker")
          /\ artifact' = [artifact EXCEPT ![a] = "whole"]
          /\ UNCHANGED <<dirs, sandboxFaults>>
       \/ Leave(a, "download", "ended", "none") /\ SandboxFault
    /\ UNCHANGED container

\* The container starts, or none does: there is no docker, it refuses the command, or
\* the timeout ends the client before.
dockerRun(a) ==
    \/ /\ Step(a, "docker", "wait")
       /\ container' = [container EXCEPT ![a].state = "running"]
       /\ UNCHANGED <<dirs, artifact, sandboxFaults>>
    \/ /\ Leave(a, "docker", "store", "fallback")
       /\ UNCHANGED <<container, sandboxFaults>>

\* It reads what is mounted when it reads, also after its attempt is over, and ends
\* with code 0 ("exited") or another one ("stopped").
containerExits(a) ==
    /\ container[a].state = "running"
    /\ \E ended \in {"exited", "stopped"} :
         container' = [container EXCEPT ![a] = [state |-> ended, saw |-> artifact[a]]]
    /\ UNCHANGED <<attempt, dirs, artifact, sandboxFaults>>

\* At its timeout execFile sends SIGTERM to the docker client, which passes it on and
\* stays attached.  A container that takes the signal stops; for one that does not,
\* nothing changes and the client is waited for as before.
timeoutKills(a) ==
    /\ SandboxAt(a, "wait") /\ container[a].state = "running"
    /\ container' = [container EXCEPT ![a] = [state |-> "stopped", saw |-> artifact[a]]]
    /\ UNCHANGED <<attempt, dirs, artifact, sandboxFaults>>

\* Mutant: the promise settles on code 0 only.
clientSucceeds(a) ==
    /\ container[a].state = "exited"
    /\ Leave(a, "wait", "store", "report")
    /\ UNCHANGED <<container, sandboxFaults>>

\* The client ends with its container and with its code: execFile resolves on code 0,
\* also after a timeout, and rejects on any other.
clientCloses(a) ==
    /\ \/ container[a].state = "exited"  /\ Leave(a, "wait", "store", "report")
       \/ container[a].state = "stopped" /\ Leave(a, "wait", "store", "fallback")
    /\ UNCHANGED <<container, sandboxFaults>>

\* The client is killed, or loses the daemon: its container runs on.
clientLost(a) ==
    /\ Leave(a, "wait", "store", "fallback") /\ SandboxFault
    /\ UNCHANGED container

resultsCreate(a) ==
    /\ \/ Step(a, "store", "ended") /\ UNCHANGED sandboxFaults
       \/ /\ SandboxAt(a, "store") /\ SandboxFault
          /\ attempt' = [attempt EXCEPT ![a] = [pc |-> "ended", kind |-> "none"]]
    /\ UNCHANGED <<dirs, artifact, container>>

\* Nobody runs the finally block of a worker that dies.
WorkerDies ==
    /\ SandboxFault
    /\ attempt' = [a \in Attempts |->
                     IF attempt[a].pc \in {"new", "ended"} THEN attempt[a]
                     ELSE [pc |-> "dead", kind |-> "none"]]
    /\ UNCHANGED <<dirs, artifact, container>>

-----------------------------------------------------------------------------
AttemptStep(a) ==
    \/ getObject(a) \/ download(a) \/ dockerRun(a)
    \/ clientCloses(a) \/ resultsCreate(a)

SandboxNext ==
    \/ \E a \in Attempts : handleAttempt(a) \/ AttemptStep(a)
    \/ \E a \in Attempts : containerExits(a) \/ timeoutKills(a) \/ clientLost(a)
    \/ WorkerDies

SandboxSpec == SandboxInit /\ [][SandboxNext]_sandboxVars

\* Storage, the docker client and the database answer.  Nothing is assumed of the
\* container, not even that it stops when it is told to.
SandboxFairness == \A a \in Attempts : WF_sandboxVars(AttemptStep(a))

-----------------------------------------------------------------------------
SandboxTypeOK ==
    /\ attempt \in [Attempts -> [pc : SandboxLabels, kind : Kinds]]
    /\ dirs \subseteq Attempts
    /\ \A a \in Attempts : artifact[a] # "none" => a \in dirs
    /\ artifact \in [Attempts -> {"none", "partial", "whole"}]
    /\ container \in [Attempts -> [state : {"none", "running", "exited", "stopped"},
                                   saw : {"none", "partial", "whole"}]]
    /\ sandboxFaults \in Nat

\* A temporary directory with an artifact in it belongs to an attempt in progress,
\* or to one whose worker died: every return and every error of handle removes it.
DirsOwned ==
    \A a \in dirs : attempt[a].pc \in {"get", "download", "docker", "wait", "dead"}

\* What is stored as a report was read from the whole artifact: not from one that was
\* still being written, nor from a directory removed under the container.
ReportOfWholeFile ==
    \A a \in Attempts : attempt[a].kind = "report" => container[a].saw = "whole"

\* An attempt comes to an end by every return and error, and it only waits for ever
\* for a container that runs for ever: the timeout of execFile does not end that wait.
AttemptEnds ==
    \A a \in Attempts :
        ~SandboxAt(a, "new")
            ~> \/ SandboxAt(a, "ended") \/ SandboxAt(a, "dead")
               \/ [](container[a].state = "running")
=============================================================================
