---------------------------- MODULE ArtifactUpload ----------------------------
(***************************************************************************)
(* src/modules/submissions/multipart.util.ts and                           *)
(* src/infra/storage/storage.service.ts: POST /submissions/file/upload     *)
(* from the first byte of the body to the call of create.  The client, the *)
(* multipart parser, the hashing pipeline and putObject run side by side,  *)
(* joined by two bounded streams; all uploads share one API process.       *)
(*                                                                         *)
(* A file is a number of blocks.  What the parser reads in one piece is    *)
(* not fixed: the step that looks at the fields comes before or after any  *)
(* later part.                                                             *)
(***************************************************************************)
EXTENDS Naturals

CONSTANTS
    Uploads,            \* requests
    Forms,              \* the multipart bodies they may have
    HighWater,          \* blocks a stream buffers before it stops its writer
    NoObject,
    WithStorage,        \* the MINIO_* variables are set
    MaxUploadFaults

\* Where the user_id field stands, whether there is a file part, its blocks, and
\* whether the body breaks off after the last of them.  A second file part is
\* ignored (limits.files) and left out.
FormShapes == [user : {"none", "before", "after"}, file : BOOLEAN,
               blocks : Nat, cut : BOOLEAN]

ASSUME UploadAssumption ==
    /\ Forms \subseteq FormShapes
    /\ HighWater \in Nat \ {0}
    /\ NoObject \notin Nat
    /\ WithStorage \in BOOLEAN
    /\ MaxUploadFaults \in Nat

VARIABLES
    upload,         \* a request with its parser, its pipeline and its putObject
    bucket,         \* the blocks under the object key of each upload
    uploadFaults

uploadVars == <<upload, bucket, uploadFaults>>

Parts == {"head", "part", "data", "tail", "cut", "last", "over", "gone"}
UploadLabels == {"new", "parse", "look", "piping", "putting", "return", "done"}
Answers == {"none", "created", "refused", "rejected", "error", "lost"}

\* next: what the client sends next, left: blocks of the file it has yet to send.
\* user: fields.user_id is set.  source: the file stream of the parser, with its
\* buffered blocks; hashed: blocks through the hasher; taken: blocks that left it.
UploadStates ==
    [pc : UploadLabels, answer : Answers, form : FormShapes, next : Parts,
     left : Nat, user : BOOLEAN, source : {"none", "open", "ended", "broken"},
     buffered : 0 .. HighWater, hashed : Nat, taken : Nat,
     put : {"none", "running", "stored", "failed"}]

NoForm == [user |-> "none", file |-> FALSE, blocks |-> 0, cut |-> FALSE]

UploadInit ==
    /\ upload = [u \in Uploads |->
         [pc |-> "new", answer |-> "none", form |-> NoForm, next |-> "over",
          left |-> 0, user |-> FALSE, source |-> "none",
          buffered |-> 0, hashed |-> 0, taken |-> 0, put |-> "none"]]
    /\ bucket = [u \in Uploads |-> NoObject]
    /\ uploadFaults = 0

UploadAt(u, label) == upload[u].pc = label
Continue(u, r) == upload' = [upload EXCEPT ![u] = r]
Answer(r, a) == [r EXCEPT !.pc = "done", !.answer = a]
UploadFault == uploadFaults < MaxUploadFaults /\ uploadFaults' = uploadFaults + 1
KeepBucket == UNCHANGED <<bucket, uploadFaults>>

-----------------------------------------------------------------------------
(* The client and busboy *)

\* What follows the file part, the file header, the block before it.
AfterFile(f) ==
    IF f.cut THEN "cut" ELSE IF f.user = "after" THEN "tail" ELSE "last"
AfterHead(f) == IF f.file THEN "part" ELSE AfterFile(f)
AfterBlock(f, left) == IF left > 0 THEN "data" ELSE AfterFile(f)

uploadFile(u) ==
    /\ UploadAt(u, "new")
    /\ \E f \in Forms :
         Continue(u, [upload[u] EXCEPT
            !.pc = "parse", !.form = f, !.left = f.blocks,
            !.next = IF f.user = "before" THEN "head" ELSE AfterHead(f)])
    /\ KeepBucket

Sends(u, part) == upload[u].pc \notin {"new", "done"} /\ upload[u].next = part

\* Any later part ends the file part before it.
Closed(r) == IF r.source = "open" THEN "ended" ELSE r.source

onField(u) ==
    /\ \/ /\ Sends(u, "head")
          /\ Continue(u, [upload[u] EXCEPT !.user = TRUE,
                            !.next = AfterHead(upload[u].form)])
       \/ /\ Sends(u, "tail")
          /\ Continue(u, [upload[u] EXCEPT !.user = TRUE, !.next = "last",
                            !.source = Closed(upload[u])])
    /\ KeepBucket

\* The parse promise resolves; uploadFile goes on in a microtask.
onFile(u) ==
    /\ Sends(u, "part")
    /\ Continue(u, [upload[u] EXCEPT !.pc = "look", !.source = "open",
                      !.next = AfterBlock(upload[u].form, upload[u].left)])
    /\ KeepBucket

\* Mutant: the parser goes on pushing into a full file stream.
onBlockUnheld(u) ==
    LET r == upload[u]
    IN  /\ Sends(u, "data")
        /\ Continue(u, [r EXCEPT !.buffered = @ + 1, !.left = @ - 1,
                          !.next = AfterBlock(r.form, r.left - 1)])
        /\ KeepBucket

\* A full file stream holds the parser, and through it the client.
onBlock(u) ==
    LET r == upload[u]
    IN  /\ Sends(u, "data") /\ r.buffered < HighWater
        /\ Continue(u, [r EXCEPT !.buffered = @ + 1, !.left = @ - 1,
                          !.next = AfterBlock(r.form, r.left - 1)])
        /\ KeepBucket

\* Mutant: a body without a file part is not refused.
onFinishIgnored(u) ==
    /\ Sends(u, "last")
    /\ Continue(u, [upload[u] EXCEPT !.next = "over", !.source = Closed(upload[u])])
    /\ KeepBucket

onFinish(u) ==
    LET r == [upload[u] EXCEPT !.next = "over", !.source = Closed(upload[u])]
    IN  /\ Sends(u, "last")
        /\ Continue(u, IF r.source = "none" THEN Answer(r, "rejected") ELSE r)
        /\ KeepBucket

\* "Unexpected end of form": the file stream is destroyed with what it holds.
onError(u) ==
    LET r == [upload[u] EXCEPT !.next = "over"]
    IN  /\ Sends(u, "cut")
        /\ Continue(u, IF r.source = "none" THEN Answer(r, "rejected")
                       ELSE [r EXCEPT !.source = "broken", !.buffered = 0])
        /\ KeepBucket

\* The connection breaks: pipe() neither ends nor destroys the parser.
ClientGone(u) ==
    /\ upload[u].pc \notin {"new", "done"}
    /\ upload[u].next \notin {"over", "gone"}
    /\ Continue(u, [upload[u] EXCEPT !.next = "gone"])
    /\ KeepBucket

-----------------------------------------------------------------------------
(* SubmissionsService.uploadFile and StorageService.uploadSubmissionStream *)

\* Only the fields that came so far count.
checkUserId(u) ==
    LET r == upload[u]
    IN  /\ UploadAt(u, "look")
        /\ Continue(u,
             IF ~r.user THEN Answer(r, "refused")
             ELSE [r EXCEPT !.pc = "piping",
                            !.put = IF WithStorage THEN "running" ELSE "none"])
        /\ KeepBucket

hashBlock(u) ==
    LET r == upload[u]
    IN  /\ UploadAt(u, "piping")
        /\ r.buffered > 0 /\ r.hashed - r.taken < HighWater
        /\ Continue(u, [r EXCEPT !.buffered = @ - 1, !.hashed = @ + 1])
        /\ KeepBucket

\* putObject, or the sink that stands in for it.
takeBlock(u) ==
    LET r == upload[u]
    IN  /\ r.pc \in {"piping", "putting"} /\ r.taken < r.hashed
        /\ Continue(u, [r EXCEPT !.taken = @ + 1])
        /\ KeepBucket

\* Mutant: the streams are joined by pipe, which takes an error for an end.
pipelineEndsAnyhow(u) ==
    LET r == upload[u]
    IN  /\ UploadAt(u, "piping") /\ r.source \in {"ended", "broken"} /\ r.buffered = 0
        /\ ~WithStorage => r.taken = r.hashed
        /\ Continue(u, [r EXCEPT !.pc = IF WithStorage THEN "putting" ELSE "return"])
        /\ KeepBucket

\* The last stream has taken everything in: the hasher, or the sink.
pipelineEnds(u) ==
    LET r == upload[u]
    IN  /\ UploadAt(u, "piping") /\ r.source = "ended" /\ r.buffered = 0
        /\ ~WithStorage => r.taken = r.hashed
        /\ Continue(u, [r EXCEPT !.pc = IF WithStorage THEN "putting" ELSE "return"])
        /\ KeepBucket

\* The hasher is destroyed and never ends: putObject waits for the rest for ever.
pipelineFails(u) ==
    /\ UploadAt(u, "piping") /\ upload[u].source = "broken"
    /\ Continue(u, Answer(upload[u], IF WithStorage THEN "rejected" ELSE "error"))
    /\ KeepBucket

putStores(u) ==
    LET r == upload[u]
    IN  /\ UploadAt(u, "putting") /\ r.put = "running" /\ r.taken = r.hashed
        /\ Continue(u, [r EXCEPT !.put = "stored"])
        /\ bucket' = [bucket EXCEPT ![u] = r.taken]
        /\ UNCHANGED uploadFaults

\* Mutant: putObject is not awaited.
returnEarly(u) ==
    LET r == upload[u]
    IN  /\ r.pc \in {"putting", "return"}
        /\ Continue(u, Answer(r, "created"))
        /\ KeepBucket

uploadReturns(u) ==
    LET r == upload[u]
    IN  /\ UploadAt(u, "return") \/ (UploadAt(u, "putting") /\ r.put = "stored")
        /\ Continue(u, Answer(r, "created"))
        /\ KeepBucket

\* The API process dies with every request it serves.
Die ==
    upload' = [v \in Uploads |->
                 LET r == upload[v]
                     dead == [r EXCEPT !.put = IF @ = "running" THEN "none" ELSE @]
                 IN  IF r.pc \in {"new", "done"} THEN dead ELSE Answer(dead, "lost")]

\* Awaited, the rejection of putObject is a bad request, and the object may be there
\* all the same.  While the pipeline runs, or after it failed, nobody awaits it:
\* an unhandled rejection.
putFails(u) ==
    LET r == upload[u]
    IN  /\ r.put = "running" /\ UploadFault
        /\ \/ /\ r.pc = "putting"
              /\ Continue(u, [Answer(r, "rejected") EXCEPT !.put = "failed"])
              /\ \/ UNCHANGED bucket
                 \/ r.taken = r.hashed /\ bucket' = [bucket EXCEPT ![u] = r.taken]
           \/ r.pc # "putting" /\ Die /\ UNCHANGED bucket

ApiCrash == UploadFault /\ Die /\ UNCHANGED bucket

-----------------------------------------------------------------------------
UploadStep(u) ==
    \/ onField(u) \/ onFile(u) \/ onBlock(u) \/ onFinish(u) \/ onError(u)
    \/ checkUserId(u) \/ hashBlock(u) \/ takeBlock(u)
    \/ pipelineEnds(u) \/ pipelineFails(u) \/ putStores(u) \/ uploadReturns(u)

UploadNext ==
    \/ \E u \in Uploads : uploadFile(u) \/ ClientGone(u) \/ UploadStep(u) \/ putFails(u)
    \/ ApiCrash

UploadSpec == UploadInit /\ [][UploadNext]_uploadVars

\* A client that is there sends on, the event loop runs every callback, and
\* putObject settles once it has all it waits for.
UploadFairness == \A u \in Uploads : WF_uploadVars(UploadStep(u))

-----------------------------------------------------------------------------
UploadTypeOK ==
    /\ upload \in [Uploads -> UploadStates]
    /\ bucket \in [Uploads -> Nat \cup {NoObject}]
    /\ uploadFaults \in Nat

\* An object in the bucket is the whole file of a body that did not break off,
\* whatever failed, went away or died while its blocks were on their way.
StoredWhole ==
    \A u \in Uploads :
        bucket[u] # NoObject =>
            ~upload[u].form.cut /\ bucket[u] = upload[u].form.blocks

\* The sha256 and the size handed to create are those of the whole file, and it is
\* that file which the bucket holds by then (uploadSubmissionStream).
HashOfStored ==
    \A u \in Uploads :
        upload[u].answer = "created" =>
            /\ upload[u].hashed = upload[u].form.blocks
            /\ WithStorage => bucket[u] = upload[u].hashed

\* Every upload is answered, unless its client goes away first: neither a full
\* stream, a body without a file nor a broken one leaves the request hanging.
UploadAnswered ==
    \A u \in Uploads :
        UploadAt(u, "parse") ~> (UploadAt(u, "done") \/ upload[u].next = "gone")

\* The uploads implement the single step that module Submissions takes for them.
Contract == INSTANCE UploadContract WITH
    StorageConfigured <- WithStorage,
    stored <- {u \in Uploads : bucket[u] # NoObject},
    at <- [u \in Uploads |->
        CASE upload[u].pc = "new" -> "new"
          [] upload[u].answer = "created" -> "create"
          [] upload[u].answer \notin {"none", "created"} -> "failed"
          [] upload[u].answer = "none" /\ (upload[u].put = "stored" \/ UploadAt(u, "return"))
                -> "stored"
          [] OTHER -> "upload"]

UploadContractSpec == Contract!Spec

-----------------------------------------------------------------------------
\* submissions.controller.ts: an upload is refused with 400 when the field user_id
\* is missing.  An upload that is refused for it has none.
RefusedLacksUser ==
    \A u \in Uploads :
        upload[u].answer = "refused" => upload[u].form.user = "none"
=============================================================================
