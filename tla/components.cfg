\* Components that share no state with the others: the scores of all findings, two
\* uploads of any body, the events of a job, two sandbox attempts, and one fault of
\* each component.
SPECIFICATION FairSpec
CONSTANTS
    Uploads = {u1, u2}
    Forms <- Bodies
    HighWater = 1
    NoObject = NoObject
    WithStorage = TRUE
    MaxUploadFaults = 1
    StreamJobs = {j1}
    Sub = sub
    Clients = {c1}
    MaxDue = 2
    MaxStreamFaults = 1
    Attempts = {a1, a2}
    MaxSandboxFaults = 1
INVARIANTS
    ScoresAgree
    UploadTypeOK
    StoredWhole
    HashOfStored
    StreamTypeOK
    CompletedHeardHasResult
    SandboxTypeOK
    DirsOwned
    ReportOfWholeFile
PROPERTIES
    NeverLower
    UploadAnswered
    UploadContractSpec
    PendingIsHeard
    AttemptEnds
CHECK_DEADLOCK FALSE
