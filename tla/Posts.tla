------------------------------- MODULE Posts -------------------------------
(***************************************************************************)
(* ONE post, its versions and the media library: people and the AI add     *)
(* versions, each request on the copy of the post it read first; the post  *)
(* is deleted; files are uploaded to the object store and deleted from it; *)
(* and the publish worker sends whichever version is current.              *)
(*                                                                         *)
(* How a schedule comes about, is retried and recovered is in Publishing.  *)
(***************************************************************************)
EXTENDS Naturals, FiniteSets, FiniteSetsExt

CONSTANTS
  Requests,   \* API requests served at a time
  Files,      \* files the workspace may have
  Stored,     \* the files it has to begin with
  Limit,      \* POST_LIMITS.versions: versions kept per post
  MaxVersion, \* bound of the model on version numbers
  Openings    \* how often each kind of event may happen

Events == {"edit", "claim", "delete", "removeFile", "upload", "fault"}

ASSUME FilesAssumption == Stored \subseteq Files
ASSUME BoundsAssumption ==
  /\ Limit \in Nat \ {0} /\ MaxVersion \in Nat \ {0}
  /\ Openings \subseteq [Events -> Nat]

VARIABLES
  post,      \* the Post document
  version,   \* its PostVersion documents, by number
  file,      \* File documents and the objects they stand for
  request,   \* where each request is
  upload,    \* the request that uploads a batch of files
  worker,    \* the publish worker
  schedule,  \* the post's schedule
  sent,      \* history: what the platform was sent
  kept,      \* history: the versions whose requests succeeded
  budget     \* events still to come

postVars == <<post, version, file, request, upload, worker, schedule, sent, kept, budget>>

-----------------------------------------------------------------------------
Numbers == 1..MaxVersion
Statuses == {"READY", "SCHEDULED", "PUBLISHING", "PUBLISHED", "FAILED"}
Post == [exists : BOOLEAN, status : Statuses, current : 0..MaxVersion, count : 0..MaxVersion]
(* The author of a version is the request that wrote it.                    *)
Version == [stored : BOOLEAN, author : Nat, media : SUBSET Files]
NoVersion == [stored |-> FALSE, author |-> 0, media |-> {}]
Steps == {"idle", "write", "number", "create", "save", "prune",
          "cancel", "deleteVersions", "deletePost", "removeObject"}
(* What the request read of the post; what it is about to write; history:   *)
(* it began before the post was claimed for publishing.                     *)
Request == [pc : Steps, current : 0..MaxVersion, count : 0..MaxVersion, media : SUBSET Files,
            number : 0..MaxVersion, tries : 0..3, author : Nat, late : BOOLEAN]
Idle == [pc |-> "idle", current |-> 0, count |-> 0, media |-> {}, number |-> 0,
         tries |-> 0, author |-> 0, late |-> FALSE]
Nothing == [number |-> 0, media |-> {}]

PostsTypeOK ==
  /\ post \in Post
  /\ version \in [Numbers -> Version]
  /\ file \in [Files -> [record : BOOLEAN, object : BOOLEAN]]
  /\ request \in [Requests -> Request]
  /\ upload \in [pc : {"ready", "put", "insert", "rollback", "done"},
                 waiting : SUBSET Files, failed : BOOLEAN]
  /\ worker \in [pc : {"idle", "load", "send", "finish", "fail"},
                 number : 0..MaxVersion, media : SUBSET Files]
  /\ schedule \in {"none", "live", "sending", "cancelled", "published", "failed"}
  /\ sent \in [number : 0..MaxVersion, media : SUBSET Files]
  /\ kept \subseteq (Numbers \X Nat)
  /\ budget \in [Events -> Nat]

(* The post has just been made, or has its first version and may be queued. *)
PostsInit ==
  /\ \E written, queued \in BOOLEAN :
       /\ queued => written
       /\ post = [exists |-> TRUE, status |-> IF queued THEN "SCHEDULED" ELSE "READY",
                  current |-> IF written THEN 1 ELSE 0, count |-> IF written THEN 1 ELSE 0]
       /\ version = [n \in Numbers |->
            IF n = 1 /\ written THEN [stored |-> TRUE, author |-> 0, media |-> Stored]
            ELSE NoVersion]
       /\ schedule = IF queued THEN "live" ELSE "none"
  /\ file = [f \in Files |-> [record |-> f \in Stored, object |-> f \in Stored]]
  /\ request = [h \in Requests |-> Idle]
  /\ upload = [pc |-> "ready", waiting |-> {}, failed |-> FALSE]
  /\ worker = [pc |-> "idle", number |-> 0, media |-> {}]
  /\ sent = Nothing
  /\ kept = {}
  /\ budget \in Openings

At(h, step) == request[h].pc = step
Goto(h, step) == request' = [request EXCEPT ![h].pc = step]
Done(h) == request' = [request EXCEPT ![h] = Idle]
Spend(what) ==
  /\ budget[what] > 0
  /\ budget' = [budget EXCEPT ![what] = @ - 1]
Library == {f \in Files : file[f].record}

-----------------------------------------------------------------------------
(* Adding a version.                                                        *)

\* Mutant: only a post that is being sent is locked.
EditableOncePublished == post.status # "PUBLISHING"
(* assertEditable.                                                          *)
Editable == post.status \notin {"PUBLISHING", "PUBLISHED"}

(* findPost; the copy is what the request works on from here on.            *)
Begin(h, step, media) ==
  /\ At(h, "idle")
  /\ post.exists
  /\ request' = [request EXCEPT ![h] =
       [Idle EXCEPT !.pc = step, !.current = post.current, !.count = post.count,
                    !.media = media, !.author = budget.edit]]

(* updatePostContent: baseVersion is the number the person saw, so of all   *)
(* who saw it the first to save is let through and the others are not,      *)
(* unless they too have read the post by then.                              *)
Edit(h) ==
  /\ \E media \in SUBSET Library : Cardinality(media) <= 1 /\ Begin(h, "number", media)
  /\ Editable
  /\ Spend("edit")
  /\ UNCHANGED <<post, version, file, upload, worker, schedule, sent, kept>>

(* restoreVersion: an earlier version, with the media that is still there.  *)
Restore(h) ==
  /\ \E n \in Numbers \ {post.current} :
       /\ version[n].stored
       /\ version[n].media \subseteq Library
       /\ Begin(h, "number", version[n].media)
  /\ Editable
  /\ Spend("edit")
  /\ UNCHANGED <<post, version, file, upload, worker, schedule, sent, kept>>

(* regeneratePost and refinePost read the post and then wait for the AI.    *)
Rewrite(h) ==
  /\ Begin(h, "write", {})
  /\ Editable
  /\ Spend("edit")
  /\ UNCHANGED <<post, version, file, upload, worker, schedule, sent, kept>>

(* The AI answers, or does not.  What the version the request read has      *)
(* attached carries over, but for files deleted since.                      *)
Written(h) ==
  LET read == request[h].current
      media == IF read # 0 /\ version[read].stored THEN version[read].media ELSE {} IN
  /\ At(h, "write")
  /\ \/ request' = [request EXCEPT ![h].pc = "number", ![h].media = media \cap Library]
     \/ Done(h)
  /\ UNCHANGED <<post, version, file, upload, worker, schedule, sent, kept, budget>>

Latest == Max({0} \cup {n \in Numbers : version[n].stored})
Larger(a, b) == IF a > b THEN a ELSE b
Number(h) ==
  LET next == Larger(Latest, request[h].count) + 1 IN
  /\ At(h, "number")
  /\ next <= MaxVersion
  /\ request' = [request EXCEPT ![h].pc = "create", ![h].number = next, ![h].tries = @ + 1]
  /\ UNCHANGED <<post, version, file, upload, worker, schedule, sent, kept, budget>>

\* Mutant: version numbers are not unique.
NoIndex(n) == FALSE
(* The unique index on post and version.                                    *)
Duplicate(n) == version[n].stored

MaxTries == 3
Create(h) ==
  LET n == request[h].number IN
  /\ At(h, "create")
  /\ IF Duplicate(n)
       THEN /\ IF request[h].tries < MaxTries THEN Goto(h, "number") ELSE Done(h)
            /\ UNCHANGED version
       ELSE /\ version' = [version EXCEPT ![n] =
                 [stored |-> TRUE, author |-> request[h].author, media |-> request[h].media]]
            /\ Goto(h, "save")
  /\ UNCHANGED <<post, file, upload, worker, schedule, sent, kept, budget>>

(* post.save() of a post that was deleted meanwhile fails.                  *)
Save(h) ==
  LET n == request[h].number IN
  /\ At(h, "save")
  /\ IF post.exists
       THEN /\ post' = [post EXCEPT !.current = n, !.count = n]
            /\ kept' = kept \cup {<<n, request[h].author>>}
            /\ request' = [request EXCEPT ![h].pc = "prune", ![h].count = n]
       ELSE Done(h) /\ UNCHANGED <<post, kept>>
  /\ UNCHANGED <<version, file, upload, worker, schedule, sent, budget>>

TooOld(n, count) == n + Limit <= count
Prune(h) ==
  /\ At(h, "prune")
  /\ version' = [n \in Numbers |->
                   IF TooOld(n, request[h].count) THEN NoVersion ELSE version[n]]
  /\ Done(h)
  /\ UNCHANGED <<post, file, upload, worker, schedule, sent, kept, budget>>

-----------------------------------------------------------------------------
(* Deleting the post.                                                       *)

Delete(h) ==
  /\ Begin(h, "cancel", {})
  /\ Spend("delete")
  /\ UNCHANGED <<post, version, file, upload, worker, schedule, sent, kept>>

BeingSent == schedule = "sending"
(* cancelLiveSchedule.                                                      *)
Cancel(h) ==
  /\ At(h, "cancel")
  /\ IF BeingSent
       THEN Done(h) /\ UNCHANGED schedule
       ELSE /\ schedule' = IF schedule = "live" THEN "cancelled" ELSE schedule
            /\ Goto(h, "deleteVersions")
  /\ UNCHANGED <<post, version, file, upload, worker, sent, kept, budget>>

DeleteVersions(h) ==
  /\ At(h, "deleteVersions")
  /\ version' = [n \in Numbers |-> NoVersion]
  /\ Goto(h, "deletePost")
  /\ UNCHANGED <<post, file, upload, worker, schedule, sent, kept, budget>>

DeletePost(h) ==
  /\ At(h, "deletePost")
  /\ post' = [post EXCEPT !.exists = FALSE]
  /\ Done(h)
  /\ UNCHANGED <<version, file, upload, worker, schedule, sent, kept, budget>>

-----------------------------------------------------------------------------
(* The media library.                                                       *)

(* deleteFile: the record first, then the object, which may stay behind.    *)
RemoveFile(h) ==
  /\ At(h, "idle")
  /\ \E f \in Library :
       /\ file' = [file EXCEPT ![f].record = FALSE]
       /\ request' = [request EXCEPT ![h] = [Idle EXCEPT !.pc = "removeObject", !.media = {f}]]
  /\ Spend("removeFile")
  /\ UNCHANGED <<post, version, upload, worker, schedule, sent, kept>>

RemoveObject(h) ==
  /\ At(h, "removeObject")
  /\ \/ file' = [f \in Files |->
           IF f \in request[h].media THEN [file[f] EXCEPT !.object = FALSE] ELSE file[f]]
     \/ UNCHANGED file  \* the store fails; the object is orphaned
  /\ Done(h)
  /\ UNCHANGED <<post, version, upload, worker, schedule, sent, kept, budget>>

(* uploadFiles, with every file of the batch on its way at once.            *)
Upload ==
  /\ upload.pc = "ready"
  /\ Spend("upload")
  /\ upload' = [pc |-> "put", waiting |-> Files \ Stored, failed |-> FALSE]
  /\ UNCHANGED <<post, version, file, request, worker, schedule, sent, kept>>

PutObject ==
  /\ upload.pc = "put"
  /\ \E f \in upload.waiting :
       /\ upload' = [upload EXCEPT !.waiting = @ \ {f}]
       /\ file' = [file EXCEPT ![f].object = TRUE]
  /\ UNCHANGED <<post, version, request, worker, schedule, sent, kept, budget>>

PutFails ==
  /\ upload.pc = "put"
  /\ Spend("fault")
  /\ \E f \in upload.waiting :
       upload' = [upload EXCEPT !.waiting = @ \ {f}, !.failed = TRUE]
  /\ UNCHANGED <<post, version, file, request, worker, schedule, sent, kept>>

AfterPut == IF upload.failed THEN "rollback" ELSE "insert"
PutDone ==
  /\ upload.pc = "put"
  /\ upload.waiting = {}
  /\ upload' = [upload EXCEPT !.pc = AfterPut, !.waiting = Files \ Stored]
  /\ UNCHANGED <<post, version, file, request, worker, schedule, sent, kept, budget>>

(* The records of a batch are inserted together or not at all.              *)
Insert ==
  /\ upload.pc = "insert"
  /\ file' = [f \in Files |-> IF f \in Stored THEN file[f] ELSE [file[f] EXCEPT !.record = TRUE]]
  /\ upload' = [upload EXCEPT !.pc = "done"]
  /\ UNCHANGED <<post, version, request, worker, schedule, sent, kept, budget>>

InsertFails ==
  /\ upload.pc = "insert"
  /\ Spend("fault")
  /\ upload' = [upload EXCEPT !.pc = "rollback"]
  /\ UNCHANGED <<post, version, file, request, worker, schedule, sent, kept>>

(* Objects are deleted one by one, and those that cannot be are left.       *)
Rollback ==
  /\ upload.pc = "rollback"
  /\ \E f \in upload.waiting :
       /\ upload' = [upload EXCEPT !.waiting = @ \ {f}]
       /\ \/ file' = [file EXCEPT ![f].object = FALSE]
          \/ UNCHANGED file
  /\ UNCHANGED <<post, version, request, worker, schedule, sent, kept, budget>>

(* The API server dies during the upload.                                   *)
UploadDies ==
  /\ upload.pc \in {"put", "insert", "rollback"}
  /\ Spend("fault")
  /\ upload' = [upload EXCEPT !.pc = "done"]
  /\ UNCHANGED <<post, version, file, request, worker, schedule, sent, kept>>

-----------------------------------------------------------------------------
(* The publish worker.                                                      *)

(* The claim of the schedule, and the post marked as being published.       *)
Claim ==
  /\ worker.pc = "idle"
  /\ schedule = "live"
  /\ schedule' = "sending"
  /\ post' = IF post.exists THEN [post EXCEPT !.status = "PUBLISHING"] ELSE post
  /\ worker' = [worker EXCEPT !.pc = "load"]
  /\ request' = [h \in Requests |-> [request[h] EXCEPT !.late = request[h].pc # "idle"]]
  /\ Spend("claim")
  /\ UNCHANGED <<version, file, upload, sent, kept>>

\* Mutant: the plan is made of the files that are left.
NeverMissing(n) == FALSE
(* loadPublishPlan: an attached file was deleted from the library.          *)
Missing(n) == ~(version[n].media \subseteq Library)
LoadPlan ==
  LET n == post.current IN
  /\ worker.pc = "load"
  /\ IF post.exists /\ n # 0 /\ version[n].stored /\ ~Missing(n)
       THEN worker' = [pc |-> "send", number |-> n, media |-> version[n].media \cap Library]
       ELSE worker' = [worker EXCEPT !.pc = "fail"]
  /\ UNCHANGED <<post, version, file, request, upload, schedule, sent, kept, budget>>

(* The bytes are read from the store while the post is sent.                *)
Send ==
  /\ worker.pc = "send"
  /\ IF \A f \in worker.media : file[f].object
       THEN /\ sent' = [number |-> worker.number, media |-> worker.media]
            /\ worker' = [worker EXCEPT !.pc = "finish"]
       ELSE worker' = [worker EXCEPT !.pc = "fail"] /\ UNCHANGED sent
  /\ UNCHANGED <<post, version, file, request, upload, schedule, kept, budget>>

Settle(step, outcome, status) ==
  /\ worker.pc = step
  /\ schedule' = outcome
  /\ post' = IF post.exists THEN [post EXCEPT !.status = status] ELSE post
  /\ worker' = [worker EXCEPT !.pc = "idle"]
  /\ UNCHANGED <<version, file, request, upload, sent, kept, budget>>
Finish == Settle("finish", "published", "PUBLISHED")
Fail == Settle("fail", "failed", "FAILED")

RequestNext(h) ==
  \/ Edit(h) \/ Restore(h) \/ Rewrite(h) \/ Written(h) \/ Number(h) \/ Create(h)
  \/ Save(h) \/ Prune(h)
  \/ Delete(h) \/ Cancel(h) \/ DeleteVersions(h) \/ DeletePost(h)
  \/ RemoveFile(h) \/ RemoveObject(h)
UploadNext ==
  Upload \/ PutObject \/ PutFails \/ PutDone \/ Insert \/ InsertFails \/ Rollback \/ UploadDies
WorkerNext == Claim \/ LoadPlan \/ Send \/ Finish \/ Fail

PostsNext == (\E h \in Requests : RequestNext(h)) \/ UploadNext \/ WorkerNext

-----------------------------------------------------------------------------
BeingDeleted == \E h \in Requests : At(h, "deletePost")
Readable == post.exists /\ ~BeingDeleted

(* The version a post shows is there to be read: no prune, delayed save or  *)
(* number given twice leaves the post pointing at nothing.                  *)
CurrentStands ==
  Readable /\ post.current # 0 => version[post.current].stored

(* Whatever was answered with success is in the post's history until it is  *)
(* too old, even when two people saved at the same moment.                  *)
EditsAreKept ==
  Readable =>
    \A k \in kept :
      ~TooOld(k[1], Latest) => version[k[1]].stored /\ version[k[1]].author = k[2]

(* Once the worker has claimed a post its content only changes through a    *)
(* request that had read it before.                                         *)
RecordStays ==
  [][post.status \in {"PUBLISHING", "PUBLISHED"} /\ post'.current # post.current =>
       \E h \in Requests : request[h].late /\ At(h, "save")]_postVars

(* A post is never sent without a part of its media, and a deleted one does *)
(* not appear on a platform.                                                *)
SentWhole ==
  [][sent' # sent =>
       /\ post.exists
       /\ \/ worker.media = version[worker.number].media
          \/ ~version[worker.number].stored]_postVars

(* Every file the library lists is in the object store.                     *)
RecordsHaveObjects == \A f \in Files : file[f].record => file[f].object

(* A post's history is whole, and so is the library it takes files from.    *)
PostsHold == PostsTypeOK /\ CurrentStands /\ EditsAreKept /\ RecordsHaveObjects
=============================================================================
