--------------------------- MODULE UploadHandlers ---------------------------
(***************************************************************************)
(* internal/httpapi/uploads.go: multipart upload sessions.  A session owns *)
(* one blob; parts are written into it at fixed offsets and recorded in    *)
(* the session's row; complete turns the blob into an object.              *)
(***************************************************************************)
EXTENDS Requests

----------------------------------------------------------------------------
(* createUpload.                                                           *)

CreateUploadBegin(p) ==
  /\ Accepts(p, "createUpload")
  /\ BlobIdsLeft
  /\ UploadIdsLeft
  /\ \E n \in Name :
       LET r == [Idle EXCEPT !.op = "createUpload", !.bucket = n[1],
                             !.name = n]
       IN  EnterUnless(p, r, BucketRefusal(n[1]), "create")
  /\ UNCHANGED <<blobVars, metaVars, expired>>

CreateUploadCreate(p) == req[p].op = "createUpload" /\ CreateBlob(p, "commit")

(* The session's row; on an error the handler removes the blob.            *)
CreateUploadCommit(p) ==
  /\ At(p, "createUpload", "commit")
  /\ \/ \E u \in UploadId :
          CreateUpload(u, req[p].blob, req[p].name) /\ Answer(p, "ok")
     \/ /\ req[p].bucket \notin buckets \/ "store" \in Faults
        /\ RemoveThenAnswer(p, req[p].blob, "internal")
        /\ UNCHANGED metaVars
  /\ UNCHANGED <<blobVars, expired>>

createUpload(p) == CreateUploadBegin(p) \/ CreateUploadCreate(p)
                   \/ CreateUploadCommit(p)

----------------------------------------------------------------------------
(* GetUpload and the checks that follow it in every route of a session:    *)
(* the row is a copy that the handler keeps.                               *)

LookupRefusal(u) ==
  IF ~Active(u) THEN {"upload_not_found"}
  ELSE IF u \in expired THEN {"session_not_active"} ELSE {}

----------------------------------------------------------------------------
(* putUploadPart: the body goes into the session's blob chunk by chunk;    *)
(* then the checksum is compared, the blob synced and the part recorded.   *)

PutUploadPartBegin(p) ==
  /\ Accepts(p, "part")
  /\ \E u \in UploadId, n \in 1..MaxParts : \E body \in PartBodies[u][n] :
       \E want \in Declared(body, PartBodies[u][n]) :
         LET r == [Idle EXCEPT !.op = "part", !.upload = u, !.part = n,
                               !.body = body, !.want = want,
                               !.blob = uploads[u].blob]
         IN  EnterUnless(p, r, LookupRefusal(u), "open")
  /\ UNCHANGED <<blobVars, metaVars, expired>>

(* Mutant of PartOffset: parts are counted from zero.                      *)
PartOffsetFromZero(n) == n * PartSize

PartOffset(n) == (n - 1) * PartSize

(* Write opens the file by its path.                                       *)
PutUploadPartOpen(p) ==
  /\ At(p, "part", "open")
  /\ \/ Present(req[p].blob) /\ Goto(p, "write")
     \/ /\ ~Present(req[p].blob) \/ "disk" \in Faults
        /\ Answer(p, "internal")
  /\ UNCHANGED <<blobVars, metaVars, expired>>

PutUploadPartWrite(p) ==
  /\ At(p, "part", "write")
  /\ req[p].done < Len(req[p].body)
  /\ Write(req[p].blob, PartOffset(req[p].part) + req[p].done,
           <<req[p].body[req[p].done + 1]>>)
  /\ req' = [req EXCEPT ![p].done = @ + 1]
  /\ UNCHANGED <<metaVars, expired>>

(* Mutant of PutUploadPartShort: the error is taken for the end of body.   *)
PutUploadPartShortTaken(p) ==
  /\ At(p, "part", "write")
  /\ req[p].done < Len(req[p].body)
  /\ "stream" \in Faults
  /\ Goto(p, "sync")
  /\ UNCHANGED <<blobVars, metaVars, expired>>

(* The body ends early, or the disk fails: an answer and nothing else.     *)
PutUploadPartShort(p) ==
  /\ At(p, "part", "write")
  /\ req[p].done < Len(req[p].body)
  /\ \/ "stream" \in Faults /\ Answer(p, "body_length_mismatch")
     \/ "disk" \in Faults /\ Answer(p, "internal")
  /\ UNCHANGED <<blobVars, metaVars, expired>>

(* io.Copy has returned; the bytes are in the file whatever comes next.    *)
PutUploadPartVerify(p) ==
  /\ At(p, "part", "write")
  /\ req[p].done = Len(req[p].body)
  /\ IF req[p].body = req[p].want THEN Goto(p, "sync")
                                  ELSE Answer(p, "checksum_mismatch")
  /\ UNCHANGED <<blobVars, metaVars, expired>>

PutUploadPartSync(p) ==
  /\ At(p, "part", "sync")
  /\ \/ Sync(req[p].blob) /\ Goto(p, "commit")
     \/ /\ ~Present(req[p].blob) \/ "disk" \in Faults
        /\ Answer(p, "internal")
        /\ UNCHANGED blobVars
  /\ UNCHANGED <<metaVars, expired>>

PutUploadPartCommit(p) ==
  /\ At(p, "part", "commit")
  /\ \/ /\ PutPart(req[p].upload, req[p].part, req[p].body)
        /\ \/ Answer(p, "ok")
           \/ "ambiguous" \in Faults /\ Answer(p, "internal")
     \/ /\ ~Active(req[p].upload) \/ "store" \in Faults
        /\ Answer(p, "internal")
        /\ UNCHANGED metaVars
  /\ UNCHANGED <<blobVars, expired>>

putUploadPart(p) ==
  \/ PutUploadPartBegin(p) \/ PutUploadPartOpen(p)   \/ PutUploadPartWrite(p)
  \/ PutUploadPartShort(p) \/ PutUploadPartVerify(p) \/ PutUploadPartSync(p)
  \/ PutUploadPartCommit(p)

----------------------------------------------------------------------------
(* completeUpload.                                                         *)

(* The three checks in the contract's order: every part received, every    *)
(* part but the last of full size, every supplied checksum the recorded    *)
(* one.                                                                    *)
PartsRefusal(parts, count, supplied) ==
  IF \E n \in 1..count : parts[n] = << >> THEN {"upload_incomplete"}
  ELSE IF \E n \in 1..(count - 1) : Len(parts[n]) # PartSize
    THEN {"part_size_mismatch"}
  ELSE IF supplied # << >> /\ \E n \in 1..count : supplied[n] # parts[n]
    THEN {"checksum_mismatch"}
  ELSE {}

(* CombineCRC32C folded over the parts: the checksum of their             *)
(* concatenation, the parts before the last being of equal length.         *)
Fold(parts, count) ==
  [i \in 1..((count - 1) * PartSize + Len(parts[count])) |->
     parts[((i - 1) \div PartSize) + 1][((i - 1) % PartSize) + 1]]

(* The optional "checksums" array: absent, or one entry per part.          *)
Supplied(u, count) ==
  {<< >>} \cup
  {s \in [1..count -> UNION {PartBodies[u][n] : n \in 1..count}] :
     \A n \in 1..count : s[n] \in PartBodies[u][n]}

CompleteUploadBegin(p) ==
  /\ Accepts(p, "complete")
  /\ \E u \in UploadId : \E count \in CompleteCounts[u] :
       \E supplied \in Supplied(u, count) :
         LET row == uploads[u]
             r == [Idle EXCEPT !.op = "complete", !.upload = u]
             refusal == IF LookupRefusal(u) # {} THEN LookupRefusal(u)
                        ELSE PartsRefusal(row.parts, count, supplied)
         IN  \/ /\ refusal = {}
                /\ Enter(p, [r EXCEPT !.bucket = row.name[1],
                                      !.name = row.name, !.blob = row.blob,
                                      !.want = Fold(row.parts, count)],
                         "commit")
             \/ \E code \in refusal \cup StoreErrors : Refuse(p, r, code)
  /\ UNCHANGED <<blobVars, metaVars, expired>>

(* Object row in, session row out, in one transaction; what goes into the  *)
(* row was computed from the copy of the session read at the beginning.    *)
CompleteUploadCommit(p) ==
  /\ At(p, "complete", "commit")
  /\ \/ /\ CompleteUpload(req[p].upload, req[p].name,
                          [blob |-> req[p].blob, sum |-> req[p].want])
        /\ RemoveThenAnswer(p, objects[req[p].name].blob, "ok")
     \/ /\ ~Active(req[p].upload)
        /\ Answer(p, "upload_not_found")
        /\ UNCHANGED metaVars
     \/ /\ "store" \in Faults
        /\ Answer(p, "internal")
        /\ UNCHANGED metaVars
  /\ UNCHANGED <<blobVars, expired>>

completeUpload(p) == CompleteUploadBegin(p) \/ CompleteUploadCommit(p)

----------------------------------------------------------------------------
(* deleteUpload: the session, then its blob.                               *)

DeleteUploadBegin(p) ==
  /\ Accepts(p, "abort")
  /\ \E u \in UploadId :
       LET r == [Idle EXCEPT !.op = "abort", !.upload = u]
       IN  EnterUnless(p, r, LookupRefusal(u), "commit")
  /\ UNCHANGED <<blobVars, metaVars, expired>>

(* When BeginTx fails, the deferred Rollback of the nil transaction panics *)
(* and net/http closes the connection without an answer.                   *)
DeleteUploadCommit(p) ==
  /\ At(p, "abort", "commit")
  /\ \/ /\ DeleteUpload(req[p].upload)
        /\ RemoveThenAnswer(p, uploads[req[p].upload].blob, "ok")
     \/ /\ ~Active(req[p].upload)
        /\ Answer(p, "upload_not_found")
        /\ UNCHANGED metaVars
     \/ /\ "store" \in Faults
        /\ Answer(p, "internal") \/ Drop(p)
        /\ UNCHANGED metaVars
  /\ UNCHANGED <<blobVars, expired>>

deleteUpload(p) == DeleteUploadBegin(p) \/ DeleteUploadCommit(p)
=============================================================================
