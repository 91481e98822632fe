------------------------------ MODULE MetaStore ------------------------------
(***************************************************************************)
(* internal/sqlite: the buckets, objects and uploads tables.  Every        *)
(* operation is one immediate transaction of a database opened with WAL,   *)
(* synchronous=FULL and foreign keys on, so it is atomic and durable when  *)
(* it returns, and a row whose bucket does not exist is refused.           *)
(***************************************************************************)
EXTENDS Params

VARIABLES
  buckets,  \* the buckets that exist
  objects,  \* objects[n]: the row of the object named n
  uploads   \* uploads[u]: the row of the upload session u

metaVars == <<buckets, objects, uploads>>

NoObject == [blob |-> None, sum |-> << >>]
ObjectRow == [blob : BlobId \cup {None}, sum : Seq(Data)]

(* A part that was never recorded has the empty checksum: an empty part    *)
(* body is refused on arrival.  Session ids are random and never reused,   *)
(* so an ended session is told apart from one that never was.              *)
NoParts == [n \in 1..MaxParts |-> << >>]
UploadRow == [state : {"unused", "active", "ended"},
              blob  : BlobId \cup {None},
              name  : Name \cup {None},
              parts : [1..MaxParts -> Seq(Data)]]
Unused == [state |-> "unused", blob |-> None, name |-> None,
           parts |-> NoParts]
Ended == [Unused EXCEPT !.state = "ended"]

Active(u) == uploads[u].state = "active"

MetaTypeOK ==
  /\ buckets \subseteq Bucket
  /\ objects \in [Name -> ObjectRow]
  /\ uploads \in [UploadId -> UploadRow]

MetaInit ==
  /\ buckets \in SUBSET Bucket
  /\ objects = [n \in Name |-> NoObject]
  /\ uploads = [u \in UploadId |-> Unused]

----------------------------------------------------------------------------
(* Buckets.                                                                *)

CreateBucket(b) ==
  /\ buckets' = buckets \cup {b}
  /\ UNCHANGED <<objects, uploads>>

(* The rows whose foreign key refers to the bucket.                        *)
HasObjects(b) == \E n \in Name : n[1] = b /\ objects[n].blob # None
HasUploads(b) == \E u \in UploadId : Active(u) /\ uploads[u].name[1] = b

ReferencesTo(b) == HasObjects(b) \/ HasUploads(b)

(* Mutant of DeleteBucket: foreign keys are not enforced.                  *)
DeleteBucketUnchecked(b) ==
  /\ buckets' = buckets \ {b}
  /\ UNCHANGED <<objects, uploads>>

DeleteBucket(b) ==
  /\ ~ReferencesTo(b)
  /\ buckets' = buckets \ {b}
  /\ UNCHANGED <<objects, uploads>>

----------------------------------------------------------------------------
(* Objects.                                                                *)

(* Upsert in one transaction; the previous row's blob is returned.         *)
PutObject(n, row) ==
  /\ n[1] \in buckets
  /\ objects' = [objects EXCEPT ![n] = row]
  /\ UNCHANGED <<buckets, uploads>>

DeleteObject(n) ==
  /\ objects' = [objects EXCEPT ![n] = NoObject]
  /\ UNCHANGED <<buckets, uploads>>

----------------------------------------------------------------------------
(* Upload sessions.                                                        *)

CreateUpload(u, id, n) ==
  /\ n[1] \in buckets
  /\ uploads[u].state = "unused"
  /\ uploads' = [uploads EXCEPT ![u] =
                   [state |-> "active", blob |-> id, name |-> n,
                    parts |-> NoParts]]
  /\ UNCHANGED <<buckets, objects>>

(* One UPDATE of the part's entry in the JSON column.                      *)
PutPart(u, part, sum) ==
  /\ Active(u)
  /\ uploads' = [uploads EXCEPT ![u].parts[part] = sum]
  /\ UNCHANGED <<buckets, objects>>

(* Mutants of CompleteUpload: the session stays; its existence is not      *)
(* checked in the transaction.                                             *)
CompleteUploadKeepingSession(u, n, row) ==
  /\ Active(u)
  /\ n[1] \in buckets
  /\ objects' = [objects EXCEPT ![n] = row]
  /\ UNCHANGED <<buckets, uploads>>

CompleteUploadUnchecked(u, n, row) ==
  /\ n[1] \in buckets
  /\ objects' = [objects EXCEPT ![n] = row]
  /\ uploads' = [uploads EXCEPT ![u] = Ended]
  /\ UNCHANGED buckets

(* The session must exist; the object is upserted and the session deleted  *)
(* in the same transaction.                                                *)
CompleteUpload(u, n, row) ==
  /\ Active(u)
  /\ n[1] \in buckets
  /\ objects' = [objects EXCEPT ![n] = row]
  /\ uploads' = [uploads EXCEPT ![u] = Ended]
  /\ UNCHANGED buckets

DeleteUpload(u) ==
  /\ Active(u)
  /\ uploads' = [uploads EXCEPT ![u] = Ended]
  /\ UNCHANGED <<buckets, objects>>
=============================================================================
