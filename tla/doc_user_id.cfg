\* An upload whose body has its user_id after the file.
SPECIFICATION Spec
CONSTANTS
    Uploads = {u1}
    Forms <- Bodies
    HighWater = 1
    NoObject = NoObject
    WithStorage = TRUE
    MaxUploadFaults = 0
    StreamJobs = {j1}
    Sub = sub
    Clients = {c1}
    MaxDue = 2
    MaxStreamFaults = 0
    Attempts = {a1}
    MaxSandboxFaults = 0
INVARIANTS
    RefusedLacksUser
CHECK_DEADLOCK FALSE
