\* Three requests of any kind that create submissions, or three for accounts, one of
\* which may fail. The requests come to an end.
SPECIFICATION EndpointsSpec
CONSTANTS
    Requests = {r1, r2, r3}
    Contents = {c1, c2}
    NoSha = NoSha
    NoRequest = NoRequest
    Routes = {"create", "url", "file", "upload"}
    StorageConfigured = TRUE
    MaxFaults = 1
    AuthRequests = {q1, q2, q3}
    Emails = {e1, e2}
    Usernames = {n1, n2}
    Passwords = {p1, p2}
    Null = Null
    MaxAuthFaults = 1
INVARIANTS
    TypeOK
    SameHashSameSubmission
    ShownWithJobs
    NoConflictShown
    UploadRowHasFile
    AuthTypeOK
    SameEmailSameAccount
    LoginNeedsPassword
PROPERTIES
    UploadsKeepContract
SYMMETRY RequestSymmetry
CHECK_DEADLOCK FALSE
