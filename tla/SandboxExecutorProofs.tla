------------------------ MODULE SandboxExecutorProofs ------------------------
(***************************************************************************)
(* Any number of attempts, faults and containers that never end: temporary *)
(* directories are removed, and a report is about the whole artifact.  The *)
(* invariant follows an attempt through its labels: which of them own a    *)
(* directory, when the artifact in it is whole, and when its container may *)
(* have come to life.                                                      *)
(***************************************************************************)
EXTENDS SandboxExecutor, TLAPS

Owning == {"get", "download", "docker", "wait"}

AttemptInv(a) ==
    /\ attempt[a].pc \in Owning => a \in dirs
    /\ a \in dirs => attempt[a].pc \in Owning \cup {"dead"}
    /\ attempt[a].pc \in {"docker", "wait"} => artifact[a] = "whole"
    /\ attempt[a].pc \in {"new", "get", "download", "docker"} => container[a].state = "none"
    /\ attempt[a].pc = "wait" /\ container[a].state = "exited" => container[a].saw = "whole"
    /\ attempt[a].kind = "report" => /\ attempt[a].pc \in {"store", "ended"}
                                     /\ container[a].state = "exited"
                                     /\ container[a].saw = "whole"

SandboxInv == SandboxTypeOK /\ \A a \in Attempts : AttemptInv(a)

LEMMA InitInv ==
  SandboxInit => SandboxInv
  BY SandboxAssumption
     DEF SandboxInit, SandboxInv, SandboxTypeOK, AttemptInv, Owning, SandboxLabels, Kinds

\* A step of one attempt leaves the others as they were.
Others(a) ==
    \A b \in Attempts \ {a} :
        /\ attempt'[b] = attempt[b] /\ container'[b] = container[b]
        /\ artifact'[b] = artifact[b] /\ (b \in dirs' <=> b \in dirs)

LEMMA OneAttempt ==
  ASSUME SandboxInv, NEW a \in Attempts, SandboxTypeOK', AttemptInv(a)', Others(a)
  PROVE  SandboxInv'
  <1> SUFFICES ASSUME NEW b \in Attempts \ {a} PROVE AttemptInv(b)'
    BY DEF SandboxInv
  <1> QED
    BY DEF SandboxInv, AttemptInv, Others

LEMMA HandleInv ==
  ASSUME SandboxInv, NEW a \in Attempts, handleAttempt(a)
  PROVE  SandboxInv'
  <1> USE DEF SandboxInv, handleAttempt, Step, SandboxAt
  <1>1. SandboxTypeOK'
    <2>1. attempt' \in [Attempts -> [pc : SandboxLabels, kind : Kinds]]
      <3>1. CASE attempt' = [attempt EXCEPT ![a].pc = "get"]
        BY <3>1 DEF SandboxTypeOK, SandboxLabels
      <3>2. CASE attempt' = [attempt EXCEPT ![a] = [pc |-> "store", kind |-> "skipped"]]
        BY <3>2 DEF SandboxTypeOK, SandboxLabels, Kinds
      <3> QED
        BY <3>1, <3>2
    <2>2. dirs \subseteq dirs' /\ dirs' \subseteq Attempts
      BY DEF SandboxTypeOK
    <2> QED
      BY <2>1, <2>2 DEF SandboxTypeOK
  <1>2. AttemptInv(a)'
    BY DEF SandboxTypeOK, AttemptInv, Owning
  <1>3. Others(a)
    BY DEF SandboxTypeOK, Others
  <1> QED
    BY <1>1, <1>2, <1>3, OneAttempt

\* Leaving the try block, by whatever way, removes the directory.
LEMMA LeaveInv ==
  ASSUME SandboxInv, NEW a \in Attempts, NEW from \in Owning,
         NEW to \in {"store", "ended"}, NEW kind \in Kinds,
         Leave(a, from, to, kind), sandboxFaults' \in Nat,
         UNCHANGED container,
         kind = "report" => container[a].state = "exited" /\ container[a].saw = "whole"
  PROVE  SandboxInv'
  <1>1. SandboxTypeOK'
    <2>1. attempt' \in [Attempts -> [pc : SandboxLabels, kind : Kinds]]
      BY DEF SandboxInv, SandboxTypeOK, SandboxLabels, Leave
    <2>2. container' \in [Attempts -> [state : {"none", "running", "exited", "stopped"},
                                      saw : {"none", "partial", "whole"}]]
      BY DEF SandboxInv, SandboxTypeOK
    <2>3. /\ artifact' \in [Attempts -> {"none", "partial", "whole"}]
          /\ \A b \in Attempts : artifact'[b] # "none" => b \in dirs'
          /\ dirs' \subseteq Attempts
      BY DEF SandboxInv, SandboxTypeOK, Leave
    <2> QED
      BY <2>1, <2>2, <2>3 DEF SandboxTypeOK
  <1>2. AttemptInv(a)'
    BY DEF SandboxInv, SandboxTypeOK, AttemptInv, Owning, Leave
  <1>3. Others(a)
    BY DEF SandboxInv, SandboxTypeOK, Leave, Others
  <1> QED
    BY <1>1, <1>2, <1>3, OneAttempt

LEMMA GetInv ==
  ASSUME SandboxInv, NEW a \in Attempts, getObject(a)
  PROVE  SandboxInv'
  <1>1. CASE /\ Step(a, "get", "download")
             /\ artifact' = [artifact EXCEPT ![a] = "partial"]
             /\ UNCHANGED <<dirs, sandboxFaults, container>>
    <2> USE <1>1 DEF SandboxInv, Step, SandboxAt
    <2>1. SandboxTypeOK'
      BY DEF SandboxTypeOK, SandboxLabels, AttemptInv, Owning
    <2>2. AttemptInv(a)'
      BY DEF SandboxTypeOK, AttemptInv, Owning
    <2>3. Others(a)
      BY DEF SandboxTypeOK, Others
    <2> QED
      BY <2>1, <2>2, <2>3, OneAttempt
  <1>2. CASE Leave(a, "get", "store", "skipped") /\ SandboxFault /\ UNCHANGED container
    <2>1. sandboxFaults' \in Nat /\ "get" \in Owning /\ "skipped" \in Kinds
      BY <1>2 DEF SandboxFault, SandboxInv, SandboxTypeOK, Owning, Kinds
    <2> QED
      BY <1>2, <2>1, LeaveInv
  <1> QED
    BY <1>1, <1>2 DEF getObject

LEMMA DownloadInv ==
  ASSUME SandboxInv, NEW a \in Attempts, download(a)
  PROVE  SandboxInv'
  <1>1. CASE /\ Step(a, "download", "docker")
             /\ artifact' = [artifact EXCEPT ![a] = "whole"]
             /\ UNCHANGED <<dirs, sandboxFaults, container>>
    <2> USE <1>1 DEF SandboxInv, Step, SandboxAt
    <2>1. SandboxTypeOK'
      BY DEF SandboxTypeOK, SandboxLabels, AttemptInv, Owning
    <2>2. AttemptInv(a)'
      BY DEF SandboxTypeOK, AttemptInv, Owning
    <2>3. Others(a)
      BY DEF SandboxTypeOK, Others
    <2> QED
      BY <2>1, <2>2, <2>3, OneAttempt
  <1>2. CASE Leave(a, "download", "ended", "none") /\ SandboxFault /\ UNCHANGED container
    <2>1. sandboxFaults' \in Nat /\ "download" \in Owning /\ "none" \in Kinds
      BY <1>2 DEF SandboxFault, SandboxInv, SandboxTypeOK, Owning, Kinds
    <2> QED
      BY <1>2, <2>1, LeaveInv
  <1> QED
    BY <1>1, <1>2 DEF download

LEMMA DockerInv ==
  ASSUME SandboxInv, NEW a \in Attempts, dockerRun(a)
  PROVE  SandboxInv'
  <1>1. CASE /\ Step(a, "docker", "wait")
             /\ container' = [container EXCEPT ![a].state = "running"]
             /\ UNCHANGED <<dirs, artifact, sandboxFaults>>
    <2> USE <1>1 DEF SandboxInv, Step, SandboxAt
    <2>1. SandboxTypeOK'
      BY DEF SandboxTypeOK, SandboxLabels
    <2>2. AttemptInv(a)'
      BY DEF SandboxTypeOK, AttemptInv, Owning
    <2>3. Others(a)
      BY DEF SandboxTypeOK, Others
    <2> QED
      BY <2>1, <2>2, <2>3, OneAttempt
  <1>2. CASE Leave(a, "docker", "store", "fallback") /\ UNCHANGED <<container, sandboxFaults>>
    BY <1>2, LeaveInv DEF SandboxInv, SandboxTypeOK, Owning, Kinds
  <1> QED
    BY <1>1, <1>2 DEF dockerRun

\* A container that ends while its attempt waits has read the whole artifact; one that
\* ends later is nobody's report.
LEMMA ExitInv ==
  ASSUME SandboxInv, NEW a \in Attempts, containerExits(a) \/ timeoutKills(a)
  PROVE  SandboxInv'
  <1> PICK ended \in {"exited", "stopped"} :
        container' = [container EXCEPT ![a] = [state |-> ended, saw |-> artifact[a]]]
    BY DEF containerExits, timeoutKills
  <1>0. /\ container[a].state = "running"
        /\ UNCHANGED <<attempt, dirs, artifact, sandboxFaults>>
    BY DEF containerExits, timeoutKills
  <1> USE <1>0 DEF SandboxInv
  <1>1. SandboxTypeOK'
    BY DEF SandboxTypeOK
  <1>2. AttemptInv(a)'
    BY DEF SandboxTypeOK, AttemptInv, Owning
  <1>3. Others(a)
    BY DEF SandboxTypeOK, Others
  <1> QED
    BY <1>1, <1>2, <1>3, OneAttempt

\* The wait ends with the container's output, or with the fallback.
LEMMA WaitInv ==
  ASSUME SandboxInv, NEW a \in Attempts, clientCloses(a) \/ clientLost(a)
  PROVE  SandboxInv'
  <1>1. CASE container[a].state = "exited" /\ Leave(a, "wait", "store", "report")
             /\ UNCHANGED <<container, sandboxFaults>>
    <2>1. container[a].saw = "whole"
      BY <1>1 DEF Leave, SandboxAt, SandboxInv, AttemptInv
    <2> QED
      BY <1>1, <2>1, LeaveInv DEF SandboxInv, SandboxTypeOK, Owning, Kinds
  <1>2. CASE Leave(a, "wait", "store", "fallback") /\ UNCHANGED container
             /\ (SandboxFault \/ UNCHANGED sandboxFaults)
    <2>1. sandboxFaults' \in Nat
      BY <1>2 DEF SandboxFault, SandboxInv, SandboxTypeOK
    <2> QED
      BY <1>2, <2>1, LeaveInv DEF Owning, Kinds
  <1> QED
    BY <1>1, <1>2 DEF clientCloses, clientLost

LEMMA StoreInv ==
  ASSUME SandboxInv, NEW a \in Attempts, resultsCreate(a)
  PROVE  SandboxInv'
  <1> USE DEF SandboxInv, resultsCreate, Step, SandboxAt, SandboxFault
  <1>1. SandboxTypeOK'
    BY DEF SandboxTypeOK, SandboxLabels, Kinds
  <1>2. AttemptInv(a)'
    BY DEF SandboxTypeOK, AttemptInv, Owning
  <1>3. Others(a)
    BY DEF SandboxTypeOK, Others
  <1> QED
    BY <1>1, <1>2, <1>3, OneAttempt

LEMMA DeathInv ==
  ASSUME SandboxInv, WorkerDies
  PROVE  SandboxInv'
  <1>1. \A a \in Attempts :
          \/ attempt'[a] = attempt[a] /\ attempt[a].pc \in {"new", "ended"}
          \/ attempt'[a] = [pc |-> "dead", kind |-> "none"]
    BY DEF WorkerDies
  <1>2. attempt' \in [Attempts -> [pc : SandboxLabels, kind : Kinds]]
    BY DEF WorkerDies, SandboxInv, SandboxTypeOK, SandboxLabels, Kinds
  <1>3. SandboxTypeOK'
    BY <1>2 DEF WorkerDies, SandboxFault, SandboxInv, SandboxTypeOK
  <1>4. ASSUME NEW a \in Attempts PROVE AttemptInv(a)'
    BY <1>1 DEF WorkerDies, SandboxInv, AttemptInv, Owning
  <1> QED
    BY <1>3, <1>4 DEF SandboxInv

LEMMA NextInv ==
  ASSUME SandboxInv, [SandboxNext]_sandboxVars
  PROVE  SandboxInv'
  <1>1. ASSUME NEW a \in Attempts,
               \/ handleAttempt(a) \/ AttemptStep(a)
               \/ containerExits(a) \/ timeoutKills(a) \/ clientLost(a)
        PROVE  SandboxInv'
    BY <1>1, HandleInv, GetInv, DownloadInv, DockerInv, WaitInv, StoreInv, ExitInv
       DEF AttemptStep
  <1>2. CASE WorkerDies
    BY <1>2, DeathInv
  <1>3. CASE UNCHANGED sandboxVars
    BY <1>3 DEF sandboxVars, SandboxInv, SandboxTypeOK, AttemptInv
  <1> QED
    BY <1>1, <1>2, <1>3 DEF SandboxNext

LEMMA Invariance == SandboxSpec => []SandboxInv
  <1> QED
    BY InitInv, NextInv, PTL DEF SandboxSpec

\* Every variable of SandboxExecutor keeps its type, and an artifact only ever lies in
\* a directory that exists.
THEOREM TypeCorrect == SandboxSpec => []SandboxTypeOK
  <1>1. SandboxInv => SandboxTypeOK
    BY DEF SandboxInv
  <1> QED
    BY <1>1, Invariance, PTL

\* Every return and every error of SandboxExecutorWorker.handle removes the temporary
\* directory: one that is there belongs to an attempt in progress or to a dead worker.
THEOREM DirectoriesOwned == SandboxSpec => []DirsOwned
  <1>1. SandboxInv => DirsOwned
    BY DEF SandboxInv, SandboxTypeOK, AttemptInv, DirsOwned, Owning
  <1> QED
    BY <1>1, Invariance, PTL

\* What handle stores as a report was read from the whole artifact, whatever attempts,
\* deaths and containers that outlive their client come between.
THEOREM ReportsWhole == SandboxSpec => []ReportOfWholeFile
  <1>1. SandboxInv => ReportOfWholeFile
    BY DEF SandboxInv, AttemptInv, ReportOfWholeFile
  <1> QED
    BY <1>1, Invariance, PTL
=============================================================================
