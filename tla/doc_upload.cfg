\* A submission by metadata and an upload.
SPECIFICATION EndpointsSpec
CONSTANTS
    Requests = {r1, r2}
    Contents = {c1}
    NoSha = NoSha
    NoRequest = NoRequest
    Routes = {"file", "upload"}
    StorageConfigured = TRUE
    MaxFaults = 0
    AuthRequests = {}
    Emails = {e1, e2}
    Usernames = {n1, n2}
    Passwords = {p1, p2}
    Null = Null
    MaxAuthFaults = 0
INVARIANTS
    UploadIsAnalyzed
SYMMETRY RequestSymmetry
CHECK_DEADLOCK FALSE
