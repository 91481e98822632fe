------------------------------- MODULE Server -------------------------------
(***************************************************************************)
(* The storage server: concurrent handlers over one blob store and one     *)
(* metadata store, the clock that ends upload sessions, and power loss.    *)
(***************************************************************************)
EXTENDS ObjectHandlers, BucketHandlers, UploadHandlers

Init == BlobInit /\ MetaInit /\ RequestInit

(* The time to live of an upload session runs out.                         *)
Expire(u) ==
  /\ "expiry" \in Faults
  /\ Active(u)
  /\ u \notin expired
  /\ expired' = expired \cup {u}
  /\ UNCHANGED <<blobVars, metaVars, req>>

(* The process ends - killed, or by the deadline of a graceful shutdown -   *)
(* and starts again: requests in flight are gone, all else is as it was.   *)
Kill ==
  /\ "kill" \in Faults
  /\ req' = [p \in Proc |-> Idle]
  /\ UNCHANGED <<blobVars, metaVars, expired>>

(* Power loss and restart: requests in flight are gone, unsynced disk      *)
(* state is kept or lost, committed transactions stay.                     *)
Crash ==
  /\ "crash" \in Faults
  /\ LoseUnsynced
  /\ req' = [p \in Proc |-> Idle]
  /\ UNCHANGED <<metaVars, expired>>

(* One step of the handler process p is running.                           *)
Handle(p) ==
  \/ putObject(p) \/ getObject(p) \/ deleteObject(p)
  \/ createBucket(p) \/ deleteBucket(p)
  \/ createUpload(p) \/ putUploadPart(p) \/ completeUpload(p)
  \/ deleteUpload(p)
  \/ CreateBlobFails(p) \/ RemoveBlob(p) \/ Reply(p)

Next ==
  \/ \E p \in Proc : Handle(p)
  \/ \E u \in UploadId : Expire(u)
  \/ Kill
  \/ Crash

Spec == Init /\ [][Next]_vars

(* The handler's next step is up to its client: to send more of a body, or *)
(* to take more of an answer.  The server sets no deadline for either.     *)
AwaitsClient(r) ==
  \/ r.pc = "write" /\ (r.op = "put" \/ r.done < Len(r.body))
  \/ r.pc \in {"serve", "reply"}

(* A goroutine that has started runs on where it does not wait for its     *)
(* client; nobody is obliged to send a new request or the rest of one, to  *)
(* crash the machine or to let a session expire.                           *)
Fairness ==
  \A p \in Proc : WF_vars(req[p] # Idle /\ ~AwaitsClient(req[p]) /\ Handle(p))

FairSpec == Spec /\ Fairness

----------------------------------------------------------------------------
(* Invariants.                                                             *)

TypeOK == BlobTypeOK /\ MetaTypeOK /\ RequestTypeOK

(* The blobs that object and session rows point at.                        *)
ObjectBlobs == {objects[n].blob : n \in Name} \ {None}
SessionBlobs == {uploads[u].blob : u \in UploadId} \ {None}

(* No dangling row: whatever is interleaved, fails or crashes, an object's *)
(* row points at a file that exists (ADR-0007: blob first and row last on  *)
(* creation, row first and blob last on removal).                          *)
NoDanglingObject == \A id \in ObjectBlobs : Present(id)

(* The bytes a row points at are the bytes its checksum and size promise,  *)
(* in the page cache and on the platter, from the commit of the row on.    *)
ObjectIntact ==
  \A n \in Name : objects[n].blob # None =>
    LET id == objects[n].blob
    IN  Content(bytes[id]) = objects[n].sum /\ disk[id] = bytes[id]

(* The range of a session's blob that belongs to part n, up to size bytes. *)
PartRange(f, n, size) == [i \in 1..size |-> f[(n - 1) * PartSize + i]]

(* A part that the session's row reports as received is on the platter     *)
(* with the bytes that were acknowledged, whatever other parts, resends    *)
(* and crashes did since: what resuming an upload relies on.               *)
RecordedPartsDurable ==
  \A u \in UploadId : Active(u) =>
    \A n \in 1..MaxParts :
      LET sum == uploads[u].parts[n]
      IN  sum # << >> =>
            /\ link[uploads[u].blob] = "durable"
            /\ PartRange(disk[uploads[u].blob], n, Len(sum)) = sum

(* A part that was received stays in the session's file until a resend     *)
(* takes its place; one that is refused changes nothing (spec/wire.md: a   *)
(* "body is rejected with checksum_mismatch").                             *)
ReceivedPartsStay ==
  \A u \in UploadId :
    Active(u) /\ (\A p \in Proc : req[p].upload = u => req[p].pc = "reply") =>
      \A n \in 1..MaxParts :
        LET sum == uploads[u].parts[n]
        IN  sum # << >> => PartRange(bytes[uploads[u].blob], n, Len(sum)) = sum

(* A blob belongs to one row: two names, two sessions, or a session and an *)
(* object never share a file, so removing one row's blob is removing       *)
(* nobody else's bytes.                                                    *)
OneOwner ==
  /\ \A m, n \in Name :
       objects[m].blob = objects[n].blob /\ objects[m].blob # None => m = n
  /\ \A t, u \in UploadId : Active(t) /\ Active(u)
       /\ uploads[t].blob = uploads[u].blob => t = u
  /\ ObjectBlobs \cap SessionBlobs = {}

(* The handler that created q's blob has not handed it to a row yet.       *)
Owns(q) == /\ req[q].op \in {"put", "createUpload"}
           /\ req[q].pc \in {"write", "sync", "commit"}

(* A handler that is about to unlink a blob is the last to do anything     *)
(* with it but read it: no row points at it, and no other handler will     *)
(* unlink it again or make a row of it.                                    *)
RemovalIsFinal ==
  \A p \in Proc : req[p].pc = "remove" =>
    /\ req[p].blob \notin ObjectBlobs \cup SessionBlobs
    /\ \A q \in Proc \ {p} :
         req[q].blob = req[p].blob => ~Owns(q) /\ req[q].pc # "remove"

(* The foreign keys: no object and no session outlives its bucket, though  *)
(* deleteBucket looks for both before it deletes.                          *)
RowsHaveBuckets ==
  /\ \A n \in Name : objects[n].blob # None => n[1] \in buckets
  /\ \A u \in UploadId : Active(u) => uploads[u].name[1] \in buckets

(* A reader is sent one version whole: the bytes of a 200 answer are the   *)
(* ones its ETag was computed from, even if the object was overwritten or  *)
(* deleted after the row was read.                                         *)
ReadsOneVersion ==
  \A p \in Proc : At(p, "get", "reply") /\ req[p].code = "ok" =>
    req[p].body = req[p].want

(* Files that no row points at and that no running handler will deal with. *)
Orphans ==
  {id \in BlobId : /\ Present(id)
                   /\ id \notin ObjectBlobs \cup SessionBlobs
                   /\ \A p \in Proc : req[p].blob = id =>
                        ~Owns(p) /\ req[p].pc # "remove"}

(* Without crashes and failing unlinks nothing leaks: every file is a      *)
(* row's, or some handler still holds it to commit or remove it.           *)
NoOrphan == Orphans = {}

----------------------------------------------------------------------------
(* Liveness.                                                               *)

(* The file is being written, and its client has the handler wait.         *)
Stalled(id) == \E p \in Proc : Owns(p) /\ req[p].blob = id /\ AwaitsClient(req[p])

(* A file that no row points at does not stay: its handler commits it or   *)
(* unlinks it, unless its client leaves it waiting for the body for ever.  *)
UnreferencedIsTransient ==
  \A id \in BlobId :
    Present(id) /\ id \notin ObjectBlobs \cup SessionBlobs
      ~> \/ ~Present(id) \/ id \in ObjectBlobs \cup SessionBlobs
         \/ []Stalled(id)
=============================================================================
