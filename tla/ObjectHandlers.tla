--------------------------- MODULE ObjectHandlers ---------------------------
(***************************************************************************)
(* internal/httpapi/objects.go: PUT, GET and DELETE of an object.          *)
(***************************************************************************)
EXTENDS Requests

----------------------------------------------------------------------------
(* putObject: check the bucket; a new blob; the body into it; fsync; the   *)
(* row; then the overwritten row's blob goes.                              *)

PutObjectBegin(p) ==
  /\ Accepts(p, "put")
  /\ BlobIdsLeft
  /\ \E n \in Name, body \in PutBodies :
       \E want \in Declared(body, PutBodies) :
         LET r == [Idle EXCEPT !.op = "put", !.bucket = n[1], !.name = n,
                               !.body = body, !.want = want]
         IN  EnterUnless(p, r, BucketRefusal(n[1]), "create")
  /\ UNCHANGED <<blobVars, metaVars, expired>>

(* Mutant of PutObjectCreate: an object is overwritten in place.           *)
PutObjectReuse(p) ==
  /\ At(p, "put", "create")
  /\ IF objects[req[p].name].blob = None
       THEN CreateBlob(p, "write")
       ELSE /\ req' = [req EXCEPT ![p].pc = "write",
                                  ![p].blob = objects[req[p].name].blob]
            /\ UNCHANGED <<blobVars, metaVars, expired>>

PutObjectCreate(p) == req[p].op = "put" /\ CreateBlob(p, "write")

(* The blob is private until the row commits, so the body is one write.    *)
PutObjectWrite(p) ==
  /\ At(p, "put", "write")
  /\ Write(req[p].blob, 0, req[p].body)
  /\ Goto(p, "sync")
  /\ UNCHANGED <<metaVars, expired>>

(* The body ends before Content-Length bytes came, or the disk refuses it. *)
PutObjectShort(p) ==
  /\ At(p, "put", "write")
  /\ \E code \in (IF "stream" \in Faults THEN {"body_length_mismatch"} ELSE {})
            \cup (IF "disk" \in Faults THEN {"internal"} ELSE {}) :
       RemoveThenAnswer(p, req[p].blob, code)
  /\ \E k \in 0..Len(req[p].body) :
       Write(req[p].blob, 0, SubSeq(req[p].body, 1, k))
  /\ UNCHANGED <<metaVars, expired>>

(* fsync, and only then the comparison with the declared checksum.         *)
PutObjectSync(p) ==
  /\ At(p, "put", "sync")
  /\ Sync(req[p].blob)
  /\ IF req[p].body = req[p].want
       THEN Goto(p, "commit")
       ELSE RemoveThenAnswer(p, req[p].blob, "checksum_mismatch")
  /\ UNCHANGED <<metaVars, expired>>

PutObjectSyncFails(p) ==
  /\ At(p, "put", "sync")
  /\ ~Present(req[p].blob) \/ "disk" \in Faults
  /\ RemoveThenAnswer(p, req[p].blob, "internal")
  /\ UNCHANGED <<blobVars, metaVars, expired>>

PutObjectCommit(p) ==
  /\ At(p, "put", "commit")
  /\ PutObject(req[p].name, [blob |-> req[p].blob, sum |-> req[p].body])
  /\ RemoveThenAnswer(p, objects[req[p].name].blob, "ok")
  /\ UNCHANGED <<blobVars, expired>>

(* The foreign key refuses the row (the bucket was deleted meanwhile), or  *)
(* the store fails; the handler answers and leaves the blob where it is.   *)
PutObjectCommitFails(p) ==
  /\ At(p, "put", "commit")
  /\ req[p].bucket \notin buckets \/ "store" \in Faults
  /\ Answer(p, "internal")
  /\ UNCHANGED <<blobVars, metaVars, expired>>

putObject(p) ==
  \/ PutObjectBegin(p)  \/ PutObjectCreate(p) \/ PutObjectWrite(p)
  \/ PutObjectShort(p)  \/ PutObjectSync(p)   \/ PutObjectSyncFails(p)
  \/ PutObjectCommit(p) \/ PutObjectCommitFails(p)

----------------------------------------------------------------------------
(* getObject: the bucket, the row, the blob, the bytes.                    *)

GetObjectBegin(p) ==
  /\ Accepts(p, "get")
  /\ \E n \in Name :
       LET r == [Idle EXCEPT !.op = "get", !.bucket = n[1], !.name = n]
       IN  EnterUnless(p, r, BucketRefusal(n[1]), "row")
  /\ UNCHANGED <<blobVars, metaVars, expired>>

GetObjectRow(p) ==
  /\ At(p, "get", "row")
  /\ LET row == objects[req[p].name]
     IN  \/ row.blob = None /\ Answer(p, "object_not_found")
         \/ /\ row.blob # None
            /\ req' = [req EXCEPT ![p].pc = "open", ![p].blob = row.blob,
                                  ![p].want = row.sum]
         \/ \E code \in StoreErrors : Answer(p, code)
  /\ UNCHANGED <<blobVars, metaVars, expired>>

(* The row was read in an earlier step, so the file may be gone by now.    *)
(* ServeContent asks an open file for its size.                            *)
GetObjectOpen(p) ==
  /\ At(p, "get", "open")
  /\ \/ /\ Present(req[p].blob)
        /\ req' = [req EXCEPT ![p].pc = "serve",
                              ![p].size = Extent(bytes[req[p].blob])]
     \/ /\ ~Present(req[p].blob) \/ "disk" \in Faults
        /\ Answer(p, "internal")
  /\ UNCHANGED <<blobVars, metaVars, expired>>

(* It sends the file chunk by chunk, under the row's ETag.                 *)
GetObjectServe(p) ==
  /\ At(p, "get", "serve")
  /\ Len(req[p].body) < req[p].size
  /\ req' = [req EXCEPT ![p].body =
                Append(@, bytes[req[p].blob][Len(req[p].body) + 1])]
  /\ UNCHANGED <<blobVars, metaVars, expired>>

GetObjectServed(p) ==
  /\ At(p, "get", "serve")
  /\ Len(req[p].body) = req[p].size
  /\ Answer(p, "ok")
  /\ UNCHANGED <<blobVars, metaVars, expired>>

getObject(p) == GetObjectBegin(p) \/ GetObjectRow(p) \/ GetObjectOpen(p)
                \/ GetObjectServe(p) \/ GetObjectServed(p)

----------------------------------------------------------------------------
(* deleteObject: the row goes first, then the blob it named.               *)

DeleteObjectBegin(p) ==
  /\ Accepts(p, "delete")
  /\ \E n \in Name :
       LET r == [Idle EXCEPT !.op = "delete", !.bucket = n[1], !.name = n]
       IN  EnterUnless(p, r, BucketRefusal(n[1]), "commit")
  /\ UNCHANGED <<blobVars, metaVars, expired>>

(* Mutant of DeleteObjectCommit: the store's error is ignored.             *)
DeleteObjectCommitBlind(p) ==
  /\ At(p, "delete", "commit")
  /\ RemoveThenAnswer(p, objects[req[p].name].blob, "ok")
  /\ \/ DeleteObject(req[p].name)
     \/ "store" \in Faults /\ UNCHANGED metaVars
  /\ UNCHANGED <<blobVars, expired>>

DeleteObjectCommit(p) ==
  /\ At(p, "delete", "commit")
  /\ LET row == objects[req[p].name]
     IN  \/ /\ row.blob = None
            /\ Answer(p, "object_not_found")
            /\ UNCHANGED metaVars
         \/ /\ row.blob # None
            /\ DeleteObject(req[p].name)
            /\ RemoveThenAnswer(p, row.blob, "ok")
         \/ /\ "store" \in Faults
            /\ Answer(p, "internal")
            /\ UNCHANGED metaVars
  /\ UNCHANGED <<blobVars, expired>>

deleteObject(p) == DeleteObjectBegin(p) \/ DeleteObjectCommit(p)
=============================================================================
