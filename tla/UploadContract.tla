---------------------------- MODULE UploadContract ----------------------------
(***************************************************************************)
(* What an upload promises to SubmissionsService.create, with no stream,   *)
(* hash or multipart body in it: the file is stored whole, in one step, or *)
(* the request fails; a request that goes on to create has its file in the *)
(* bucket, where it stays although create may fail.  ArtifactUpload        *)
(* implements it up to create, Submissions from there on.                  *)
(***************************************************************************)
CONSTANTS Uploads, StorageConfigured

VARIABLES
    at,         \* where each upload is
    stored      \* the uploads whose object key holds their file, whole

contractVars == <<at, stored>>

Init == at = [u \in Uploads |-> "new"] /\ stored = {}

Move(u, from, to) == at[u] = from /\ at' = [at EXCEPT ![u] = to]

Begin(u) == Move(u, "new", "upload") /\ UNCHANGED stored

Store(u) ==
    /\ Move(u, "upload", "stored")
    /\ stored' = IF StorageConfigured THEN stored \cup {u} ELSE stored

\* The file may be in the bucket although the answer of the storage was lost.
Fail(u) ==
    /\ Move(u, "upload", "failed")
    /\ \/ UNCHANGED stored
       \/ StorageConfigured /\ stored' = stored \cup {u}

HandOver(u) == Move(u, "stored", "create") /\ UNCHANGED stored

\* Turned away for what the request lacks, or by an error of create.
Refuse(u) == Move(u, "new", "failed") /\ UNCHANGED stored
Throw(u) == Move(u, "create", "failed") /\ UNCHANGED stored

\* answered: the requests that create was done with.
Crash ==
    /\ \E answered \in SUBSET {u \in Uploads : at[u] = "create"} :
         at' = [u \in Uploads |->
                  IF at[u] = "new" \/ u \in answered THEN at[u] ELSE "failed"]
    /\ UNCHANGED stored

Next ==
    \/ \E u \in Uploads :
         Begin(u) \/ Store(u) \/ Fail(u) \/ HandOver(u) \/ Refuse(u) \/ Throw(u)
    \/ Crash

Spec == Init /\ [][Next]_contractVars
=============================================================================
