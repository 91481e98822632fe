--------------------------- MODULE BucketHandlers ---------------------------
(***************************************************************************)
(* internal/httpapi/buckets.go: creation and deletion of a bucket.         *)
(***************************************************************************)
EXTENDS Requests

createBucket(p) ==
  /\ Accepts(p, "createBucket")
  /\ \E b \in Bucket :
       LET r == [Idle EXCEPT !.op = "createBucket", !.bucket = b]
       IN  \/ /\ b \notin buckets
              /\ CreateBucket(b)
              /\ Refuse(p, r, "ok")
           \/ /\ b \in buckets
              /\ Refuse(p, r, "bucket_exists")
              /\ UNCHANGED metaVars
           \/ /\ \E code \in StoreErrors : Refuse(p, r, code)
              /\ UNCHANGED metaVars
  /\ UNCHANGED <<blobVars, expired>>

----------------------------------------------------------------------------
(* deleteBucket: look for objects, then for uploads, then delete, in three *)
(* separate store calls.                                                   *)

DeleteBucketBegin(p) ==
  /\ Accepts(p, "deleteBucket")
  /\ \E b \in Bucket :
       LET r == [Idle EXCEPT !.op = "deleteBucket", !.bucket = b]
       IN  EnterUnless(p, r, IF HasObjects(b) THEN {"bucket_not_empty"} ELSE {},
                       "count")
  /\ UNCHANGED <<blobVars, metaVars, expired>>

DeleteBucketCount(p) ==
  /\ At(p, "deleteBucket", "count")
  /\ \/ HasUploads(req[p].bucket) /\ Answer(p, "bucket_not_empty")
     \/ ~HasUploads(req[p].bucket) /\ Goto(p, "commit")
     \/ \E code \in StoreErrors : Answer(p, code)
  /\ UNCHANGED <<blobVars, metaVars, expired>>

(* What landed since the checks is caught by the foreign key.              *)
DeleteBucketCommit(p) ==
  /\ At(p, "deleteBucket", "commit")
  /\ \/ /\ req[p].bucket \in buckets
        /\ DeleteBucket(req[p].bucket)
        /\ Answer(p, "ok")
     \/ /\ req[p].bucket \notin buckets
        /\ Answer(p, "bucket_not_found")
        /\ UNCHANGED metaVars
     \/ /\ ReferencesTo(req[p].bucket) \/ "store" \in Faults
        /\ Answer(p, "internal")
        /\ UNCHANGED metaVars
  /\ UNCHANGED <<blobVars, expired>>

deleteBucket(p) == DeleteBucketBegin(p) \/ DeleteBucketCount(p)
                   \/ DeleteBucketCommit(p)
=============================================================================
