------------------------------ MODULE Requests ------------------------------
(***************************************************************************)
(* The server's concurrency: net/http runs each request in a goroutine of  *)
(* its own, and handlers share nothing but the two stores.  A handler's    *)
(* step ends where it calls a store, so a process holds what the handler's *)
(* local variables hold across that call.                                  *)
(***************************************************************************)
EXTENDS BlobStore, MetaStore

VARIABLES
  req,      \* req[p]: the request that process p is serving
  expired   \* sessions whose expires_at has passed

vars == <<link, bytes, disk, buckets, objects, uploads, req, expired>>

(* The steps of the handlers.  Between requests a process is idle.         *)
PC == {"idle", "create", "open", "write", "sync", "row", "serve", "count",
       "commit", "remove", "reply"}

Code == {"none", "ok", "bucket_not_found", "object_not_found",
         "upload_not_found", "body_length_mismatch", "checksum_mismatch",
         "session_not_active", "upload_incomplete", "part_size_mismatch",
         "bucket_not_empty", "bucket_exists", "internal"}

(* body: the bytes received (or, for a read, sent); want: the checksum     *)
(* declared with them, read from a row, or folded from a session's parts;  *)
(* done: how much of a part has been written; size: how much of a file is  *)
(* to be sent; blob: the blob the handler works on, and then the one it    *)
(* removes; code: the answer once decided.                                 *)
Request == [op : AllOps \cup {"none"}, pc : PC,
            bucket : Bucket \cup {None}, name : Name \cup {None},
            upload : UploadId \cup {None}, part : 0..MaxParts,
            body : Seq(Data), want : Seq(Data), done : 0..PartSize,
            size : 0..FileLen, blob : BlobId \cup {None}, code : Code]

Idle == [op |-> "none", pc |-> "idle", bucket |-> None, name |-> None,
         upload |-> None, part |-> 0, body |-> << >>, want |-> << >>,
         done |-> 0, size |-> 0, blob |-> None, code |-> "none"]

RequestTypeOK ==
  /\ req \in [Proc -> Request]
  /\ expired \subseteq UploadId

RequestInit ==
  /\ req = [p \in Proc |-> Idle]
  /\ expired = {}

----------------------------------------------------------------------------
(* Moves of a handler.                                                     *)

At(p, op, pc) == req[p].op = op /\ req[p].pc = pc

(* The handler of a new request passes its checks up to step pc.           *)
Enter(p, r, pc) == req' = [req EXCEPT ![p] = [r EXCEPT !.pc = pc]]

(* The handler of a new request answers before it reaches a second step.   *)
Refuse(p, r, code) ==
  req' = [req EXCEPT ![p] = [r EXCEPT !.pc = "reply", !.code = code]]

(* What a call of the metadata store may answer whatever is in it.         *)
StoreErrors == IF "store" \in Faults THEN {"internal"} ELSE {}

(* The handler of a new request reads the store and goes on to step pc,    *)
(* unless what it reads makes it refuse or the read fails.                 *)
EnterUnless(p, r, refusals, pc) ==
  \/ refusals = {} /\ Enter(p, r, pc)
  \/ \E code \in refusals \cup StoreErrors : Refuse(p, r, code)

(* GetBucket, the first call of most handlers.                             *)
BucketRefusal(b) == IF b \in buckets THEN {} ELSE {"bucket_not_found"}

Accepts(p, op) == req[p] = Idle /\ op \in Ops

Goto(p, pc) == req' = [req EXCEPT ![p].pc = pc]

Answer(p, code) == req' = [req EXCEPT ![p].pc = "reply", ![p].code = code]

(* Mutant of RemoveThenAnswer: the blob is forgotten.                      *)
ForgetThenAnswer(p, id, code) == Answer(p, code)

(* The answer is decided; a blob nothing refers to is removed first.       *)
RemoveThenAnswer(p, id, code) ==
  req' = [req EXCEPT ![p].pc = IF id = None THEN "reply" ELSE "remove",
                     ![p].blob = id,
                     ![p].code = code]

(* Mutant of RemoveBlob: only the answer is given.                         *)
RemoveBlobSkipped(p) ==
  /\ req[p].pc = "remove"
  /\ Goto(p, "reply")
  /\ UNCHANGED <<blobVars, metaVars, expired>>

(* blobs.Remove at the end of a handler.  A failure is logged and changes  *)
(* nothing in the answer.                                                  *)
RemoveBlob(p) ==
  /\ req[p].pc = "remove"
  /\ \/ Remove(req[p].blob)
     \/ "remove" \in Faults /\ UNCHANGED blobVars
  /\ Goto(p, "reply")
  /\ UNCHANGED <<metaVars, expired>>

(* The goroutine ends; after a panic it does so without an answer.         *)
Drop(p) == req' = [req EXCEPT ![p] = Idle]

(* The response goes out and the goroutine ends.                           *)
Reply(p) ==
  /\ req[p].pc = "reply"
  /\ Drop(p)
  /\ UNCHANGED <<blobVars, metaVars, expired>>

(* Bounds: requests that need a new id stop when the instance's ids are    *)
(* used up, counting those that requests in flight will still draw.        *)
BlobIdsLeft ==
  Cardinality({p \in Proc : req[p].pc = "create"})
    < Cardinality({id \in BlobId : link[id] = "unused"})

UploadIdsLeft ==
  Cardinality({p \in Proc : req[p].op = "createUpload" /\ req[p].code = "none"})
    < Cardinality({u \in UploadId : uploads[u].state = "unused"})

(* blobs.Create, the step after the bucket check in both handlers that     *)
(* start a blob.                                                           *)
CreateBlob(p, next) ==
  /\ req[p].pc = "create"
  /\ \E id \in BlobId :
       /\ Create(id)
       /\ req' = [req EXCEPT ![p].pc = next, ![p].blob = id]
  /\ UNCHANGED <<metaVars, expired>>

(* It fails: without a file, or, where closing the new file fails, with an *)
(* empty one under an id that the handler does not look at.                *)
CreateBlobFails(p) ==
  /\ req[p].pc = "create"
  /\ \/ "disk" \in Faults /\ UNCHANGED blobVars
     \/ "close" \in Faults /\ \E id \in BlobId : Create(id)
  /\ Answer(p, "internal")
  /\ UNCHANGED <<metaVars, expired>>
=============================================================================
