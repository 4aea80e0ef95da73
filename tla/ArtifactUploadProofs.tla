------------------------ MODULE ArtifactUploadProofs ------------------------
(***************************************************************************)
(* Any number of uploads, multipart bodies and faults, any high-water mark *)
(* and with or without a storage: an object in the bucket is a whole file, *)
(* the hash is that of the stored object, and the streams together do what *)
(* UploadContract does in one step.                                        *)
(*                                                                         *)
(* Uploads only meet in a crash, so the invariant is a predicate of one    *)
(* request and its object: no block is lost between the client, the file   *)
(* stream and the hasher, the file stream only ends after its last block,  *)
(* and an object is only made of a stream that ended.                      *)
(***************************************************************************)
EXTENDS ArtifactUpload, TLAPS

\* Where the parser is, and what that says of the file stream.
ParserOK(r) ==
    /\ r.next \in {"head", "part"} => r.source = "none" /\ r.pc \in {"parse", "done"}
    /\ r.next = "data" => r.source = "open" /\ r.left > 0
    /\ r.next \in {"tail", "last"} => ~r.form.cut
    /\ r.next \in {"tail", "last"} /\ r.source = "open" => r.left = 0
    /\ r.next \in {"tail", "cut"} => r.source \in {"none", "open"}
    /\ r.source = "ended" => r.left = 0 /\ ~r.form.cut /\ r.next \in {"last", "over", "gone"}
    /\ r.source = "none" => r.buffered = 0 /\ r.pc \in {"new", "parse", "done"}

\* The blocks of the file are somewhere, until the stream is broken.
BlocksOK(r) ==
    /\ r.taken <= r.hashed
    /\ r.pc # "new" /\ r.source # "broken" => r.left + r.buffered + r.hashed = r.form.blocks

\* Where the request is, and what that says of its streams and its putObject.
LabelOK(r) ==
    /\ r.pc = "new" => r.source = "none"
    /\ r.pc = "done" <=> r.answer # "none"
    /\ r.pc = "parse" => r.source = "none"
    /\ r.pc \in {"new", "parse", "look"} => r.hashed = 0 /\ r.put = "none"
    /\ r.pc = "piping" => r.put = IF WithStorage THEN "running" ELSE "none"
    /\ r.pc = "putting" => WithStorage /\ r.put \in {"running", "stored"}
    /\ r.pc = "return" => ~WithStorage /\ r.put = "none"
    /\ r.pc \in {"putting", "return"} \/ r.answer = "created" =>
           r.source = "ended" /\ r.buffered = 0

\* The object, if there is one.
ObjectOK(r, b) ==
    /\ b # NoObject => /\ r.pc \in {"putting", "done"} /\ r.source = "ended"
                       /\ r.buffered = 0 /\ b = r.hashed /\ r.taken = r.hashed
    /\ r.pc = "putting" => (r.put = "stored" <=> b # NoObject)
    /\ r.answer = "created" /\ WithStorage => b # NoObject

UploadOK(r, b) == ParserOK(r) /\ BlocksOK(r) /\ LabelOK(r) /\ ObjectOK(r, b)

UploadInv == UploadTypeOK /\ \A u \in Uploads : UploadOK(upload[u], bucket[u])

\* The refinement mapping for one request.
AtOf(r) ==
    CASE r.pc = "new" -> "new"
      [] r.answer = "created" -> "create"
      [] r.answer \notin {"none", "created"} -> "failed"
      [] r.answer = "none" /\ (r.put = "stored" \/ r.pc = "return") -> "stored"
      [] OTHER -> "upload"

\* What the contract lets a request do in one step: from r and object b to s and c.
Kept(r, b, s, c) ==
    \/ AtOf(s) = AtOf(r) /\ c = b
    \/ AtOf(r) = "new" /\ AtOf(s) = "upload" /\ c = b
    \/ /\ AtOf(r) = "upload" /\ AtOf(s) = "stored"
       /\ IF WithStorage THEN c # NoObject ELSE c = b
    \/ AtOf(r) = "upload" /\ AtOf(s) = "failed" /\ (c = b \/ (WithStorage /\ c # NoObject))
    \/ AtOf(r) = "stored" /\ AtOf(s) = "create" /\ c = b

Good(r, b) == r \in UploadStates /\ UploadOK(r, b)
Goes(r, b, s, c) == Good(s, c) /\ Kept(r, b, s, c)

LEMMA InitInv == UploadInit => UploadInv /\ Contract!Init
  <1> SUFFICES ASSUME UploadInit PROVE UploadInv /\ Contract!Init
    OBVIOUS
  <1> DEFINE r == [pc |-> "new", answer |-> "none", form |-> NoForm, next |-> "over",
                   left |-> 0, user |-> FALSE, source |-> "none",
                   buffered |-> 0, hashed |-> 0, taken |-> 0, put |-> "none"]
  <1>1. r \in UploadStates
    BY UploadAssumption DEF UploadStates, FormShapes, NoForm, UploadLabels, Answers, Parts
  <1>2. UploadOK(r, NoObject)
    BY DEF UploadOK, ParserOK, BlocksOK, LabelOK, ObjectOK
  <1>3. \A u \in Uploads : upload[u] = r /\ bucket[u] = NoObject
    BY DEF UploadInit
  <1>4. UploadInv
    BY <1>1, <1>2, <1>3 DEF UploadInit, UploadInv, UploadTypeOK
  <1>5. Contract!Init
    <2>1. r.pc = "new" /\ r.answer = "none" /\ r.put = "none"
      OBVIOUS
    <2> HIDE DEF r
    <2>2. AtOf(r) = "new"
      BY <2>1 DEF AtOf
    <2> QED
      BY <1>3, <2>2 DEF Contract!Init, AtOf, UploadAt
  <1> QED
    BY <1>4, <1>5

-----------------------------------------------------------------------------
(* One request *)

LEMMA OneUpload ==
  ASSUME UploadInv, NEW u \in Uploads, NEW s, NEW c \in Nat \cup {NoObject},
         Continue(u, s), bucket' = [bucket EXCEPT ![u] = c], uploadFaults' \in Nat,
         Goes(upload[u], bucket[u], s, c)
  PROVE  UploadInv' /\ [Contract!Next]_(Contract!contractVars)
  <1>1. /\ upload \in [Uploads -> UploadStates] /\ bucket \in [Uploads -> Nat \cup {NoObject}]
        /\ upload' = [upload EXCEPT ![u] = s] /\ s \in UploadStates
    BY DEF UploadInv, UploadTypeOK, Continue, Goes, Good
  <1>2. UploadInv'
    <2>1. UploadTypeOK'
      BY <1>1 DEF UploadTypeOK
    <2>2. ASSUME NEW v \in Uploads PROVE UploadOK(upload[v], bucket[v])'
      BY <1>1 DEF UploadInv, Goes, Good, UploadOK, ParserOK, BlocksOK, LabelOK, ObjectOK
    <2> QED
      BY <2>1, <2>2 DEF UploadInv
  <1> DEFINE at == [v \in Uploads |-> AtOf(upload[v])]
             stored == {v \in Uploads : bucket[v] # NoObject}
  <1>3. at' = [at EXCEPT ![u] = AtOf(s)]
    BY <1>1
  <1>4. /\ c = bucket[u] => stored' = stored
        /\ c # NoObject => stored' = stored \cup {u}
    BY <1>1
  <1>5. at[u] = AtOf(upload[u]) /\ Kept(upload[u], bucket[u], s, c)
    BY DEF Goes
  <1>6. [ \E v \in Uploads : \/ at[v] = "new" /\ at' = [at EXCEPT ![v] = "upload"] /\ stored' = stored
                             \/ /\ at[v] = "upload" /\ at' = [at EXCEPT ![v] = "stored"]
                                /\ stored' = IF WithStorage THEN stored \cup {v} ELSE stored
                             \/ /\ at[v] = "upload" /\ at' = [at EXCEPT ![v] = "failed"]
                                /\ (stored' = stored \/ (WithStorage /\ stored' = stored \cup {v}))
                             \/ at[v] = "stored" /\ at' = [at EXCEPT ![v] = "create"] /\ stored' = stored
        ]_<<at, stored>>
    <2>1. CASE AtOf(s) = AtOf(upload[u]) /\ c = bucket[u]
      <3>1. at' = at
        BY <2>1, <1>3, <1>5
      <3> QED
        BY <2>1, <3>1, <1>4
    <2> HIDE DEF at, stored
    <2>2. CASE ~(AtOf(s) = AtOf(upload[u]) /\ c = bucket[u])
      BY <2>2, <1>3, <1>4, <1>5 DEF Kept
    <2> QED
      BY <2>1, <2>2
  <1>7. [Contract!Next]_(Contract!contractVars)
    BY <1>6 DEF AtOf, UploadAt, Contract!Next, Contract!contractVars, Contract!Begin, Contract!Store,
                Contract!Fail, Contract!HandOver, Contract!Move
  <1> QED
    BY <1>2, <1>7

\* The same for the steps that leave the bucket alone.
LEMMA SameBucket ==
  ASSUME UploadInv, NEW u \in Uploads, NEW s, Continue(u, s), KeepBucket,
         Goes(upload[u], bucket[u], s, bucket[u])
  PROVE  UploadInv' /\ [Contract!Next]_(Contract!contractVars)
  <1>1. /\ bucket' = [bucket EXCEPT ![u] = bucket[u]] /\ bucket[u] \in Nat \cup {NoObject}
        /\ uploadFaults' \in Nat
    BY DEF UploadInv, UploadTypeOK, KeepBucket
  <1> QED
    BY <1>1, OneUpload

-----------------------------------------------------------------------------
(* Each action *)

LEMMA Answered ==
  ASSUME NEW s, s.pc = "done", s.answer \in {"refused", "rejected", "error", "lost"}
  PROVE  AtOf(s) = "failed"
  <1>1. /\ s.pc # "new" /\ s.answer # "created" /\ s.answer # "none"
        /\ s.answer \notin {"none", "created"}
    OBVIOUS
  <1> QED
    BY <1>1 DEF AtOf

\* A request that is turned away while its file is on its way has no object.
LEMMA AnswerInv ==
  ASSUME UploadInv, NEW u \in Uploads, NEW a \in {"refused", "rejected", "error"},
         upload[u].pc \in {"parse", "look", "piping"}, NEW n \in {upload[u].next, "over"},
         Continue(u, Answer([upload[u] EXCEPT !.next = n], a)), KeepBucket
  PROVE  UploadInv' /\ [Contract!Next]_(Contract!contractVars)
  <1> DEFINE r == upload[u]
             b == bucket[u]
             s == Answer([r EXCEPT !.next = n], a)
  <1>1. Good(r, b) /\ r.pc \in {"parse", "look", "piping"} /\ n \in {r.next, "over"}
        /\ Continue(u, s)
    BY DEF UploadInv, UploadTypeOK, Good
  <1> HIDE DEF r, b
  <1>2. s \in UploadStates
    BY <1>1 DEF Good, UploadStates, Answer, Parts, UploadLabels, Answers
  <1>3. UploadOK(s, b)
    BY <1>1 DEF Good, Answer, UploadStates, UploadOK, ParserOK, BlocksOK, LabelOK, ObjectOK
  <1>4. AtOf(r) = "upload"
    BY <1>1 DEF Good, AtOf, UploadOK, LabelOK
  <1>5. AtOf(s) = "failed"
    <2>1. s.pc = "done" /\ s.answer = a
      BY <1>1 DEF Good, UploadStates, Answer
    <2> HIDE DEF s
    <2> QED
      BY <2>1, Answered
  <1> HIDE DEF s
  <1>6. Kept(r, b, s, b)
    BY <1>4, <1>5 DEF Kept
  <1> QED
    BY <1>1, <1>2, <1>3, <1>6, SameBucket DEF Goes, Good, r, b

LEMMA FileInv ==
  ASSUME UploadInv, NEW u \in Uploads, onFile(u)
  PROVE  UploadInv' /\ [Contract!Next]_(Contract!contractVars)
  <1> DEFINE r == upload[u]
             b == bucket[u]
             s == [r EXCEPT !.pc = "look", !.source = "open",
                     !.next = AfterBlock(r.form, r.left)]
  <1>1. Good(r, b) /\ b \in Nat \cup {NoObject}
    BY DEF UploadInv, UploadTypeOK, Good
  <1>2. /\ r.next = "part" /\ r.pc \notin {"new", "done"}
        /\ Continue(u, s) /\ KeepBucket
    BY DEF onFile, Sends
  <1> HIDE DEF r, b
  <1>3. s \in UploadStates
    BY <1>1, <1>2, UploadAssumption DEF Good, UploadStates, AfterBlock, AfterFile, Parts, UploadLabels
  <1>4. UploadOK(s, b)
    BY <1>1, <1>2, <1>3, UploadAssumption
       DEF Good, FormShapes, UploadStates, AfterBlock, AfterFile, UploadOK, ParserOK, BlocksOK, LabelOK, ObjectOK
  <1>5. Kept(r, b, s, b)
    BY <1>1, <1>2 DEF Good, Kept, AtOf, UploadOK, ParserOK, BlocksOK, LabelOK, ObjectOK
  <1> HIDE DEF s
  <1> QED
    BY <1>2, <1>3, <1>4, <1>5, SameBucket DEF Goes, Good, r, b

LEMMA BlockInv ==
  ASSUME UploadInv, NEW u \in Uploads, onBlock(u)
  PROVE  UploadInv' /\ [Contract!Next]_(Contract!contractVars)
  <1> DEFINE r == upload[u]
             b == bucket[u]
             s == [r EXCEPT !.buffered = @ + 1, !.left = @ - 1,
                     !.next = AfterBlock(r.form, r.left - 1)]
  <1>1. Good(r, b) /\ b \in Nat \cup {NoObject}
    BY DEF UploadInv, UploadTypeOK, Good
  <1>2. /\ r.next = "data" /\ r.buffered < HighWater /\ r.pc \notin {"new", "done"}
        /\ Continue(u, s) /\ KeepBucket
    BY DEF onBlock, Sends
  <1> HIDE DEF r, b
  <1>3. s \in UploadStates
    <2>1. r.buffered + 1 \in 0 .. HighWater /\ r.left - 1 \in Nat
      BY <1>1, <1>2, UploadAssumption DEF Good, UploadStates, UploadOK, ParserOK
    <2>2. AfterBlock(r.form, r.left - 1) \in Parts
      BY DEF AfterBlock, AfterFile, Parts
    <2> QED
      BY <1>1, <2>1, <2>2 DEF Good, UploadStates
  <1>4. UploadOK(s, b)
    BY <1>1, <1>2, <1>3, UploadAssumption
       DEF Good, FormShapes, UploadStates, AfterBlock, AfterFile, UploadOK, ParserOK, BlocksOK, LabelOK, ObjectOK
  <1>5. Kept(r, b, s, b)
    BY <1>1, <1>2 DEF Good, Kept, AtOf, UploadOK, ParserOK, BlocksOK, LabelOK, ObjectOK
  <1> HIDE DEF s
  <1> QED
    BY <1>2, <1>3, <1>4, <1>5, SameBucket DEF Goes, Good, r, b

LEMMA GoneInv ==
  ASSUME UploadInv, NEW u \in Uploads, ClientGone(u)
  PROVE  UploadInv' /\ [Contract!Next]_(Contract!contractVars)
  <1> DEFINE r == upload[u]
             b == bucket[u]
             s == [r EXCEPT !.next = "gone"]
  <1>1. Good(r, b) /\ b \in Nat \cup {NoObject}
    BY DEF UploadInv, UploadTypeOK, Good
  <1>2. /\ r.pc \notin {"new", "done"}
        /\ Continue(u, s) /\ KeepBucket
    BY DEF ClientGone
  <1> HIDE DEF r, b
  <1>3. s \in UploadStates
    BY <1>1, <1>2, UploadAssumption DEF Good, UploadStates, Parts
  <1>4. UploadOK(s, b)
    BY <1>1, <1>2, <1>3, UploadAssumption
       DEF Good, FormShapes, UploadStates, UploadOK, ParserOK, BlocksOK, LabelOK, ObjectOK
  <1>5. Kept(r, b, s, b)
    BY <1>1, <1>2 DEF Good, Kept, AtOf, UploadOK, ParserOK, BlocksOK, LabelOK, ObjectOK
  <1> HIDE DEF s
  <1> QED
    BY <1>2, <1>3, <1>4, <1>5, SameBucket DEF Goes, Good, r, b

LEMMA HashInv ==
  ASSUME UploadInv, NEW u \in Uploads, hashBlock(u)
  PROVE  UploadInv' /\ [Contract!Next]_(Contract!contractVars)
  <1> DEFINE r == upload[u]
             b == bucket[u]
             s == [r EXCEPT !.buffered = @ - 1, !.hashed = @ + 1]
  <1>1. Good(r, b) /\ b \in Nat \cup {NoObject}
    BY DEF UploadInv, UploadTypeOK, Good
  <1>2. /\ r.pc = "piping" /\ r.buffered > 0
        /\ Continue(u, s) /\ KeepBucket
    BY DEF hashBlock, UploadAt
  <1> HIDE DEF r, b
  <1>3. s \in UploadStates
    <2>1. r.buffered - 1 \in 0 .. HighWater /\ r.hashed + 1 \in Nat
      BY <1>1, <1>2, UploadAssumption DEF Good, UploadStates
    <2> QED
      BY <1>1, <2>1 DEF Good, UploadStates
  <1>4. UploadOK(s, b)
    BY <1>1, <1>2, <1>3, UploadAssumption
       DEF Good, FormShapes, UploadStates, UploadOK, ParserOK, BlocksOK, LabelOK, ObjectOK
  <1>5. Kept(r, b, s, b)
    BY <1>1, <1>2 DEF Good, Kept, AtOf, UploadOK, ParserOK, BlocksOK, LabelOK, ObjectOK
  <1> HIDE DEF s
  <1> QED
    BY <1>2, <1>3, <1>4, <1>5, SameBucket DEF Goes, Good, r, b

LEMMA TakeInv ==
  ASSUME UploadInv, NEW u \in Uploads, takeBlock(u)
  PROVE  UploadInv' /\ [Contract!Next]_(Contract!contractVars)
  <1> DEFINE r == upload[u]
             b == bucket[u]
             s == [r EXCEPT !.taken = @ + 1]
  <1>1. Good(r, b) /\ b \in Nat \cup {NoObject}
    BY DEF UploadInv, UploadTypeOK, Good
  <1>2. /\ r.pc \in {"piping", "putting"} /\ r.taken < r.hashed
        /\ Continue(u, s) /\ KeepBucket
    BY DEF takeBlock
  <1> HIDE DEF r, b
  <1>3. s \in UploadStates
    BY <1>1, <1>2, UploadAssumption DEF Good, UploadStates
  <1>4. UploadOK(s, b)
    BY <1>1, <1>2, <1>3, UploadAssumption
       DEF Good, FormShapes, UploadStates, UploadOK, ParserOK, BlocksOK, LabelOK, ObjectOK
  <1>5. Kept(r, b, s, b)
    BY <1>1, <1>2 DEF Good, Kept, AtOf, UploadOK, ParserOK, BlocksOK, LabelOK, ObjectOK
  <1> HIDE DEF s
  <1> QED
    BY <1>2, <1>3, <1>4, <1>5, SameBucket DEF Goes, Good, r, b

\* Only a file stream that ended, and is empty, ends the pipeline.
LEMMA EndsInv ==
  ASSUME UploadInv, NEW u \in Uploads, pipelineEnds(u)
  PROVE  UploadInv' /\ [Contract!Next]_(Contract!contractVars)
  <1> DEFINE r == upload[u]
             b == bucket[u]
             s == [r EXCEPT !.pc = IF WithStorage THEN "putting" ELSE "return"]
  <1>1. Good(r, b) /\ b \in Nat \cup {NoObject}
    BY DEF UploadInv, UploadTypeOK, Good
  <1>2. /\ r.pc = "piping" /\ r.source = "ended" /\ r.buffered = 0
        /\ Continue(u, s) /\ KeepBucket
    BY DEF pipelineEnds, UploadAt
  <1> HIDE DEF r, b
  <1>3. s \in UploadStates
    BY <1>1, <1>2, UploadAssumption DEF Good, UploadStates, UploadLabels
  <1>4. UploadOK(s, b)
    BY <1>1, <1>2, <1>3, UploadAssumption
       DEF Good, FormShapes, UploadStates, UploadOK, ParserOK, BlocksOK, LabelOK, ObjectOK
  <1>5. Kept(r, b, s, b)
    BY <1>1, <1>2 DEF Good, Kept, AtOf, UploadOK, ParserOK, BlocksOK, LabelOK, ObjectOK
  <1> HIDE DEF s
  <1> QED
    BY <1>2, <1>3, <1>4, <1>5, SameBucket DEF Goes, Good, r, b

LEMMA ReturnInv ==
  ASSUME UploadInv, NEW u \in Uploads, uploadReturns(u)
  PROVE  UploadInv' /\ [Contract!Next]_(Contract!contractVars)
  <1> DEFINE r == upload[u]
             b == bucket[u]
             s == Answer(r, "created")
  <1>1. Good(r, b) /\ b \in Nat \cup {NoObject}
    BY DEF UploadInv, UploadTypeOK, Good
  <1>2. /\ r.pc = "return" \/ (r.pc = "putting" /\ r.put = "stored")
        /\ Continue(u, s) /\ KeepBucket
    BY DEF uploadReturns, UploadAt
  <1> HIDE DEF r, b
  <1>3. s \in UploadStates
    BY <1>1, <1>2, UploadAssumption DEF Good, UploadStates, Answer, UploadLabels, Answers
  <1>4. UploadOK(s, b)
    BY <1>1, <1>2, <1>3, UploadAssumption
       DEF Good, FormShapes, UploadStates, Answer, UploadOK, ParserOK, BlocksOK, LabelOK, ObjectOK
  <1>5. Kept(r, b, s, b)
    BY <1>1, <1>2 DEF Good, Kept, AtOf, Answer, UploadOK, ParserOK, BlocksOK, LabelOK, ObjectOK
  <1> HIDE DEF s
  <1> QED
    BY <1>2, <1>3, <1>4, <1>5, SameBucket DEF Goes, Good, r, b

\* The end of the body ends the file stream, whose last block came before it.
LEMMA FinishInv ==
  ASSUME UploadInv, NEW u \in Uploads, onFinish(u)
  PROVE  UploadInv' /\ [Contract!Next]_(Contract!contractVars)
  <1> DEFINE r == upload[u]
             b == bucket[u]
             s == [r EXCEPT !.next = "over", !.source = Closed(r)]
  <1>1. Good(r, b) /\ b \in Nat \cup {NoObject}
    BY DEF UploadInv, UploadTypeOK, Good
  <1>2. /\ r.next = "last" /\ r.pc \notin {"new", "done"} /\ KeepBucket
    BY DEF onFinish, Sends
  <1>3. CASE ~(r.source # "none")
    <2>1. r.pc \in {"parse", "look"}
      BY <1>1, <1>2, <1>3 DEF Good, UploadOK, ParserOK, UploadStates, UploadLabels
    <2>2. Continue(u, Answer([r EXCEPT !.next = "over"], "rejected"))
      BY <1>1, <1>3 DEF onFinish, Closed, Good, UploadStates
    <2> QED
      BY <1>1, <1>2, <2>1, <2>2, AnswerInv DEF r
  <1>4. CASE r.source # "none"
    <2>1. Continue(u, s)
      BY <1>1, <1>4 DEF onFinish, Closed, Good, UploadStates
    <2> HIDE DEF r, b
    <2>2. s \in UploadStates
      BY <1>1, UploadAssumption DEF Good, UploadStates, Closed, Parts
    <2>3. UploadOK(s, b)
      BY <1>1, <1>2, <1>4 DEF Good, FormShapes, UploadStates, Closed, UploadOK, ParserOK, BlocksOK, LabelOK, ObjectOK
    <2>4. Kept(r, b, s, b)
      BY <1>1, <1>2 DEF Good, Kept, AtOf, UploadOK, ParserOK, BlocksOK, LabelOK, ObjectOK
    <2> HIDE DEF s
    <2> QED
      BY <1>2, <2>1, <2>2, <2>3, <2>4, SameBucket DEF Goes, Good, r, b
  <1> QED
    BY <1>3, <1>4

\* What the file stream holds of a body that breaks off is lost.
LEMMA ErrorInv ==
  ASSUME UploadInv, NEW u \in Uploads, onError(u)
  PROVE  UploadInv' /\ [Contract!Next]_(Contract!contractVars)
  <1> DEFINE r == upload[u]
             b == bucket[u]
             s == [r EXCEPT !.next = "over", !.source = "broken", !.buffered = 0]
  <1>1. Good(r, b) /\ b \in Nat \cup {NoObject}
    BY DEF UploadInv, UploadTypeOK, Good
  <1>2. /\ r.next = "cut" /\ r.pc \notin {"new", "done"} /\ KeepBucket
    BY DEF onError, Sends
  <1>3. CASE ~(r.source # "none")
    <2>1. r.pc \in {"parse", "look"}
      BY <1>1, <1>2, <1>3 DEF Good, UploadOK, ParserOK, UploadStates, UploadLabels
    <2>2. Continue(u, Answer([r EXCEPT !.next = "over"], "rejected"))
      BY <1>1, <1>3 DEF onError, Closed, Good, UploadStates
    <2> QED
      BY <1>1, <1>2, <2>1, <2>2, AnswerInv DEF r
  <1>4. CASE r.source # "none"
    <2>1. Continue(u, s)
      BY <1>4 DEF onError
    <2> HIDE DEF r, b
    <2>2. s \in UploadStates
      <3>1. 0 \in 0 .. HighWater
        BY UploadAssumption
      <3> QED
        BY <1>1, <3>1 DEF Good, UploadStates, Parts
    <2>3. UploadOK(s, b)
      BY <1>1, <1>2, <1>4 DEF Good, FormShapes, UploadStates, UploadOK, ParserOK, BlocksOK, LabelOK, ObjectOK
    <2>4. Kept(r, b, s, b)
      BY <1>1, <1>2 DEF Good, Kept, AtOf, UploadOK, ParserOK, BlocksOK, LabelOK, ObjectOK
    <2> HIDE DEF s
    <2> QED
      BY <1>2, <2>1, <2>2, <2>3, <2>4, SameBucket DEF Goes, Good, r, b
  <1> QED
    BY <1>3, <1>4

LEMMA LookInv ==
  ASSUME UploadInv, NEW u \in Uploads, checkUserId(u)
  PROVE  UploadInv' /\ [Contract!Next]_(Contract!contractVars)
  <1> DEFINE r == upload[u]
             b == bucket[u]
             s == [r EXCEPT !.pc = "piping",
                     !.put = IF WithStorage THEN "running" ELSE "none"]
  <1>1. Good(r, b) /\ b \in Nat \cup {NoObject}
    BY DEF UploadInv, UploadTypeOK, Good
  <1>2. /\ r.pc = "look" /\ KeepBucket
    BY DEF checkUserId, UploadAt
  <1>3. CASE ~(r.user)
    <2>1. r.pc \in {"parse", "look"}
      BY <1>1, <1>2, <1>3 DEF Good, UploadOK, ParserOK, UploadStates, UploadLabels
    <2>2. Continue(u, Answer([r EXCEPT !.next = r.next], "refused"))
      BY <1>1, <1>3 DEF checkUserId, Good, UploadStates
    <2> QED
      BY <1>1, <1>2, <2>1, <2>2, AnswerInv DEF r
  <1>4. CASE r.user
    <2>1. Continue(u, s)
      BY <1>4 DEF checkUserId
    <2> HIDE DEF r, b
    <2>2. s \in UploadStates
      BY <1>1, UploadAssumption DEF Good, UploadStates, UploadLabels
    <2>3. UploadOK(s, b)
      BY <1>1, <1>2, <1>4 DEF Good, FormShapes, UploadStates, UploadOK, ParserOK, BlocksOK, LabelOK, ObjectOK
    <2>4. Kept(r, b, s, b)
      BY <1>1, <1>2 DEF Good, Kept, AtOf, UploadOK, ParserOK, BlocksOK, LabelOK, ObjectOK
    <2> HIDE DEF s
    <2> QED
      BY <1>2, <2>1, <2>2, <2>3, <2>4, SameBucket DEF Goes, Good, r, b
  <1> QED
    BY <1>3, <1>4

LEMMA BreaksInv ==
  ASSUME UploadInv, NEW u \in Uploads, pipelineFails(u)
  PROVE  UploadInv' /\ [Contract!Next]_(Contract!contractVars)
  <1> DEFINE a == IF WithStorage THEN "rejected" ELSE "error"
  <1>1. upload[u] = [upload[u] EXCEPT !.next = upload[u].next]
    BY DEF UploadInv, UploadTypeOK, UploadStates
  <1>2. Continue(u, Answer([upload[u] EXCEPT !.next = upload[u].next], a))
    BY <1>1 DEF pipelineFails
  <1> QED
    BY <1>2, AnswerInv DEF pipelineFails, UploadAt

LEMMA BeginInv ==
  ASSUME UploadInv, NEW u \in Uploads, uploadFile(u)
  PROVE  UploadInv' /\ [Contract!Next]_(Contract!contractVars)
  <1> DEFINE r == upload[u]
             b == bucket[u]
  <1>1. Good(r, b) /\ b \in Nat \cup {NoObject} /\ r.pc = "new" /\ KeepBucket
    BY DEF UploadInv, UploadTypeOK, Good, uploadFile, UploadAt
  <1>2. PICK f \in Forms :
          Continue(u, [r EXCEPT
            !.pc = "parse", !.form = f, !.left = f.blocks,
            !.next = IF f.user = "before" THEN "head" ELSE AfterHead(f)])
    BY DEF uploadFile
  <1> DEFINE n == IF f.user = "before" THEN "head" ELSE AfterHead(f)
             s == [r EXCEPT !.pc = "parse", !.form = f, !.left = f.blocks, !.next = n]
  <1> HIDE DEF r, b
  <1>3. /\ f \in FormShapes /\ f.blocks \in Nat /\ n \in {"head", "part", "cut", "tail", "last"}
        /\ n \in {"tail", "last"} => ~f.cut
    BY UploadAssumption DEF FormShapes, AfterHead, AfterFile
  <1>4. Continue(u, s)
    BY <1>2
  <1> HIDE DEF n
  <1>5. s \in UploadStates
    BY <1>1, <1>3 DEF Good, UploadStates, Parts, UploadLabels
  <1>6. UploadOK(s, b)
    BY <1>1, <1>3 DEF Good, UploadStates, UploadOK, ParserOK, BlocksOK, LabelOK, ObjectOK
  <1>7. Kept(r, b, s, b)
    BY <1>1 DEF Good, UploadStates, Kept, AtOf, UploadOK, LabelOK
  <1> HIDE DEF s
  <1> QED
    BY <1>1, <1>4, <1>5, <1>6, <1>7, SameBucket DEF Goes, Good, r, b

LEMMA FieldInv ==
  ASSUME UploadInv, NEW u \in Uploads, onField(u)
  PROVE  UploadInv' /\ [Contract!Next]_(Contract!contractVars)
  <1> DEFINE r == upload[u]
             b == bucket[u]
             s(n, f) == [r EXCEPT !.user = TRUE, !.next = n, !.source = f]
  <1>1. Good(r, b) /\ b \in Nat \cup {NoObject} /\ KeepBucket
    BY DEF UploadInv, UploadTypeOK, Good, onField
  <1>2. /\ r.pc \notin {"new", "done"} /\ r.form \in FormShapes
        /\ r.source \in {"none", "open", "ended", "broken"}
    BY <1>1 DEF onField, Sends, Good, UploadStates
  <1>3. PICK n \in Parts, f \in {"none", "open", "ended", "broken"} :
          /\ Continue(u, s(n, f))
          /\ \/ r.next = "head" /\ f = r.source /\ n \in {"part", "cut", "tail", "last"}
                /\ (n \in {"tail", "last"} => ~r.form.cut)
             \/ r.next = "tail" /\ n = "last" /\ f = Closed(r)
    <2>1. CASE Sends(u, "head") /\ Continue(u, [r EXCEPT !.user = TRUE, !.next = AfterHead(r.form)])
      <3>1. /\ AfterHead(r.form) \in {"part", "cut", "tail", "last"}
            /\ AfterHead(r.form) \in {"tail", "last"} => ~r.form.cut
        BY <1>2 DEF AfterHead, AfterFile, FormShapes
      <3>2. [r EXCEPT !.user = TRUE, !.next = AfterHead(r.form)] = s(AfterHead(r.form), r.source)
        BY <1>1 DEF Good, UploadStates
      <3> QED
        BY <1>2, <2>1, <3>1, <3>2 DEF Sends, Parts
    <2>2. CASE Sends(u, "tail") /\ Continue(u, s("last", Closed(r)))
      BY <1>2, <2>2 DEF Sends, Parts, Closed
    <2> QED
      BY <2>1, <2>2 DEF onField
  <1> HIDE DEF r, b
  <1>4. s(n, f) \in UploadStates
    BY <1>1 DEF Good, UploadStates
  <1>5. UploadOK(s(n, f), b)
    BY <1>1, <1>2, <1>3 DEF Good, UploadStates, Closed,
       UploadOK, ParserOK, BlocksOK, LabelOK, ObjectOK
  <1>6. Kept(r, b, s(n, f), b)
    BY <1>1, <1>2 DEF Good, UploadStates, Kept, AtOf
  <1> HIDE DEF s
  <1> QED
    BY <1>1, <1>3, <1>4, <1>5, <1>6, SameBucket DEF Goes, Good, r, b

\* putObject stores what came through the hasher, which is everything by then.
LEMMA StoreInv ==
  ASSUME UploadInv, NEW u \in Uploads, putStores(u)
  PROVE  UploadInv' /\ [Contract!Next]_(Contract!contractVars)
  <1> DEFINE r == upload[u]
             b == bucket[u]
             s == [r EXCEPT !.put = "stored"]
  <1>1. /\ Good(r, b) /\ b \in Nat \cup {NoObject} /\ r.pc = "putting" /\ r.put = "running"
        /\ r.taken = r.hashed /\ Continue(u, s) /\ bucket' = [bucket EXCEPT ![u] = r.taken]
        /\ uploadFaults' \in Nat
    BY DEF UploadInv, UploadTypeOK, Good, putStores, UploadAt
  <1> HIDE DEF r, b
  <1>2. r.taken \in Nat /\ r.taken # NoObject /\ WithStorage
    BY <1>1, UploadAssumption DEF Good, UploadStates, UploadOK, LabelOK
  <1>3. s \in UploadStates
    BY <1>1 DEF Good, UploadStates
  <1>4. UploadOK(s, r.taken)
    BY <1>1, <1>2 DEF Good, UploadStates, UploadOK, ParserOK, BlocksOK, LabelOK, ObjectOK
  <1>5. Kept(r, b, s, r.taken)
    BY <1>1, <1>2 DEF Good, UploadStates, Kept, AtOf, UploadOK, LabelOK
  <1> HIDE DEF s
  <1> QED
    BY <1>1, <1>2, <1>3, <1>4, <1>5, OneUpload DEF Goes, Good, r, b

\* A crash answers the requests in progress and leaves every object as it is.
LEMMA DieInv ==
  ASSUME UploadInv, Die, UNCHANGED bucket, uploadFaults' \in Nat
  PROVE  UploadInv' /\ [Contract!Next]_(Contract!contractVars)
  <1>1. ASSUME NEW v \in Uploads
        PROVE  /\ Good(upload'[v], bucket[v])
               /\ AtOf(upload'[v]) = IF AtOf(upload[v]) \in {"upload", "stored"} THEN "failed"
                                     ELSE AtOf(upload[v])
    <2> DEFINE r == upload[v]
               dead == [r EXCEPT !.put = IF @ = "running" THEN "none" ELSE @]
    <2>1. Good(r, bucket[v])
      BY DEF UploadInv, UploadTypeOK, Good
    <2>2. upload'[v] = IF r.pc \in {"new", "done"} THEN dead ELSE Answer(dead, "lost")
      BY DEF Die
    <2> HIDE DEF r
    <2>3. CASE r.pc \in {"new", "done"}
      <3>1. dead \in UploadStates
        BY <2>1 DEF Good, UploadStates
      <3>2. UploadOK(dead, bucket[v])
        BY <2>1, <2>3 DEF Good, UploadStates, UploadOK, ParserOK, BlocksOK, LabelOK, ObjectOK
      <3>3. AtOf(dead) = AtOf(r) /\ AtOf(r) \notin {"upload", "stored"}
        BY <2>1, <2>3 DEF Good, UploadStates, UploadOK, LabelOK, AtOf
      <3> QED
        BY <2>2, <2>3, <3>1, <3>2, <3>3 DEF Good, r
    <2>4. CASE r.pc \notin {"new", "done"}
      <3> DEFINE s == Answer(dead, "lost")
      <3>1. s \in UploadStates
        BY <2>1 DEF Good, UploadStates, Answer, UploadLabels, Answers
      <3>2. UploadOK(s, bucket[v])
        BY <2>1, <2>4 DEF Good, Answer, UploadStates, UploadOK, ParserOK, BlocksOK, LabelOK, ObjectOK
      <3>3. AtOf(r) \in {"upload", "stored"}
        BY <2>1, <2>4 DEF Good, UploadStates, UploadOK, LabelOK, AtOf
      <3>4. AtOf(s) = "failed"
        <4>1. s.pc = "done" /\ s.answer = "lost"
          BY <2>1 DEF Good, UploadStates, Answer
        <4> HIDE DEF s
        <4> QED
          BY <4>1, Answered
      <3> QED
        BY <2>2, <2>4, <3>1, <3>2, <3>3, <3>4 DEF Good, r
    <2> QED
      BY <2>3, <2>4
  <1>2. UploadInv'
    <2>1. upload' = [v \in Uploads |-> upload'[v]]
      BY DEF Die
    <2>2. upload' \in [Uploads -> UploadStates]
      BY <1>1, <2>1 DEF Good
    <2> QED
      BY <1>1, <2>2 DEF UploadInv, UploadTypeOK, Good
  <1> DEFINE at == [v \in Uploads |-> AtOf(upload[v])]
  <1>3. at' = [v \in Uploads |-> IF at[v] \in {"upload", "stored"} THEN "failed" ELSE at[v]]
    BY <1>1
  <1>4. \A v \in Uploads : at[v] \in {"new", "upload", "stored", "create", "failed"}
    BY DEF AtOf
  <1>5. \E answered \in SUBSET {v \in Uploads : at[v] = "create"} :
          at' = [v \in Uploads |-> IF at[v] = "new" \/ v \in answered THEN at[v] ELSE "failed"]
    <2> HIDE DEF at
    <2> WITNESS {v \in Uploads : at[v] = "create"} \in SUBSET {v \in Uploads : at[v] = "create"}
    <2> QED
      BY <1>3, <1>4
  <1>6. Contract!Crash
    BY <1>5 DEF AtOf, UploadAt, Contract!Crash
  <1> QED
    BY <1>2, <1>6 DEF Contract!Next

LEMMA PutFailsInv ==
  ASSUME UploadInv, NEW u \in Uploads, putFails(u)
  PROVE  UploadInv' /\ [Contract!Next]_(Contract!contractVars)
  <1> DEFINE r == upload[u]
             b == bucket[u]
             s == [Answer(r, "rejected") EXCEPT !.put = "failed"]
  <1>1. Good(r, b) /\ b \in Nat \cup {NoObject} /\ uploadFaults' \in Nat /\ r.put = "running"
    BY DEF UploadInv, UploadTypeOK, Good, putFails, UploadFault
  <1>2. CASE Die /\ UNCHANGED bucket
    BY <1>1, <1>2, DieInv
  <1>3. CASE /\ r.pc = "putting" /\ Continue(u, s)
             /\ \/ UNCHANGED bucket
                \/ r.taken = r.hashed /\ bucket' = [bucket EXCEPT ![u] = r.taken]
    <2>1. PICK c \in Nat \cup {NoObject} :
            /\ bucket' = [bucket EXCEPT ![u] = c]
            /\ c = b \/ (c = r.taken /\ r.taken = r.hashed /\ c # NoObject)
      <3>1. CASE UNCHANGED bucket
        BY <1>1, <3>1 DEF UploadInv, UploadTypeOK
      <3>2. CASE r.taken = r.hashed /\ bucket' = [bucket EXCEPT ![u] = r.taken]
        BY <1>1, <3>2, UploadAssumption DEF Good, UploadStates
      <3> QED
        BY <1>3, <3>1, <3>2
    <2> HIDE DEF r, b
    <2>2. s \in UploadStates /\ s.pc = "done" /\ s.answer = "rejected"
      BY <1>1 DEF Good, UploadStates, Answer, UploadLabels, Answers
    <2>3. UploadOK(s, c)
      BY <1>1, <1>3, <2>1 DEF Good, UploadStates, Answer,
         UploadOK, ParserOK, BlocksOK, LabelOK, ObjectOK
    <2>4. AtOf(r) = "upload" /\ WithStorage
      BY <1>1, <1>3 DEF Good, UploadStates, UploadOK, LabelOK, AtOf
    <2>5. Continue(u, s)
      BY <1>3
    <2> HIDE DEF s
    <2>6. AtOf(s) = "failed"
      BY <2>2, Answered
    <2>7. Kept(r, b, s, c)
      BY <2>1, <2>4, <2>6 DEF Kept
    <2> QED
      BY <1>1, <2>1, <2>2, <2>3, <2>5, <2>7, OneUpload DEF Goes, Good, r, b
  <1> QED
    BY <1>2, <1>3 DEF putFails

-----------------------------------------------------------------------------
LEMMA NextInv ==
  ASSUME UploadInv, [UploadNext]_uploadVars
  PROVE  UploadInv' /\ [Contract!Next]_(Contract!contractVars)
  <1>1. ASSUME NEW u \in Uploads, uploadFile(u) \/ ClientGone(u) \/ UploadStep(u) \/ putFails(u)
        PROVE  UploadInv' /\ [Contract!Next]_(Contract!contractVars)
    BY <1>1, BeginInv, FieldInv, FileInv, BlockInv, FinishInv, ErrorInv, GoneInv, LookInv,
       HashInv, TakeInv, EndsInv, BreaksInv, StoreInv, ReturnInv, PutFailsInv DEF UploadStep
  <1>2. CASE ApiCrash
    <2>1. Die /\ UNCHANGED bucket /\ uploadFaults' \in Nat
      BY <1>2 DEF ApiCrash, UploadFault, UploadInv, UploadTypeOK
    <2> QED
      BY <2>1, DieInv
  <1>3. CASE UNCHANGED uploadVars
    BY <1>3 DEF uploadVars, UploadInv, UploadTypeOK, Contract!contractVars
  <1> QED
    BY <1>1, <1>2, <1>3 DEF UploadNext

LEMMA Invariance == UploadSpec => []UploadInv
  <1>1. UploadInv /\ [UploadNext]_uploadVars => UploadInv'
    BY NextInv
  <1> QED
    BY <1>1, InitInv, PTL DEF UploadSpec

\* Every variable of ArtifactUpload keeps its type: no stream ever holds more blocks
\* than its high-water mark.
THEOREM TypeCorrect == UploadSpec => []UploadTypeOK
  <1>1. UploadInv => UploadTypeOK
    BY DEF UploadInv
  <1> QED
    BY <1>1, Invariance, PTL

\* putObject never makes an object of a part of a file, whatever fails, goes away or
\* dies while the blocks are on their way.
THEOREM ObjectsWhole == UploadSpec => []StoredWhole
  <1>1. ASSUME UploadInv, NEW u \in Uploads, bucket[u] # NoObject
        PROVE  ~upload[u].form.cut /\ bucket[u] = upload[u].form.blocks
    <2>1. upload[u] \in UploadStates /\ UploadOK(upload[u], bucket[u])
      BY <1>1 DEF UploadInv, UploadTypeOK
    <2> QED
      BY <1>1, <2>1 DEF UploadStates, FormShapes, UploadOK, ParserOK, BlocksOK, ObjectOK
  <1>2. UploadInv => StoredWhole
    BY <1>1 DEF StoredWhole
  <1> QED
    BY <1>2, Invariance, PTL

\* The sha256 and the size that uploadSubmissionStream returns are those of the whole
\* file, and of the object in the bucket.
THEOREM HashIsOfObject == UploadSpec => []HashOfStored
  <1>1. ASSUME UploadInv, NEW u \in Uploads, upload[u].answer = "created"
        PROVE  /\ upload[u].hashed = upload[u].form.blocks
               /\ WithStorage => bucket[u] = upload[u].hashed
    <2>1. upload[u] \in UploadStates /\ UploadOK(upload[u], bucket[u])
      BY <1>1 DEF UploadInv, UploadTypeOK
    <2> QED
      BY <1>1, <2>1
         DEF UploadStates, FormShapes, UploadOK, ParserOK, BlocksOK, LabelOK, ObjectOK
  <1>2. UploadInv => HashOfStored
    BY <1>1 DEF HashOfStored
  <1> QED
    BY <1>2, Invariance, PTL

\* Parser, pipeline and putObject together do no more than the one step that module
\* Submissions takes for them.
THEOREM ContractImplemented == UploadSpec => UploadContractSpec
  <1>1. UploadInv /\ [UploadNext]_uploadVars => [Contract!Next]_(Contract!contractVars)
    BY NextInv
  <1>2. UploadInit => Contract!Init
    BY InitInv
  <1> QED
    BY <1>1, <1>2, Invariance, PTL DEF UploadSpec, UploadContractSpec, Contract!Spec
=============================================================================
