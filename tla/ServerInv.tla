------------------------------ MODULE ServerInv ------------------------------
(***************************************************************************)
(* The inductive invariant behind OneOwner, RemovalIsFinal and             *)
(* NoDanglingObject: who may hold a blob's id, and how durable its         *)
(* directory entry then is.                                                *)
(***************************************************************************)
EXTENDS Server

(* What a handler has in hand at each of its steps.                        *)
Shape(r) ==
  /\ r.op \in {"put", "get", "delete", "createUpload"} => r.name \in Name
  /\ r.op = "complete" /\ r.pc = "commit" => r.name \in Name
  /\ r.op \in {"part", "complete", "abort"} => r.upload \in UploadId
  /\ r.op = "part" => /\ r.part \in 1..MaxParts
                      /\ Len(r.body) <= PartSize
  /\ r.pc \in {"open", "write", "sync", "serve", "remove"} => r.blob \in BlobId
  /\ r.op \in {"put", "createUpload", "part", "complete"} /\ r.pc = "commit"
       => r.blob \in BlobId
  /\ r.pc = "create" => r.op \in {"put", "createUpload"}

(* An active session has a blob and a name, any other has none; no part is *)
(* longer than part_size.                                                  *)
SessionShape(row) ==
  /\ row.state = "active" => row.blob \in BlobId /\ row.name \in Name
  /\ row.state # "active" => row.blob = None
  /\ \A n \in 1..MaxParts : Len(row.parts[n]) <= PartSize

RequestTyping == RequestTypeOK /\ \A p \in Proc : Shape(req[p])

MetaTyping == MetaTypeOK /\ \A u \in UploadId : SessionShape(uploads[u])

Typing == BlobTypeOK /\ MetaTyping /\ RequestTyping

(* Where an fsync of a file keeps its directory entry too, the entry is    *)
(* durable; where it does not, all that is sure is that the id was drawn.  *)
Kept(id) == /\ link[id] # "unused"
            /\ "entry" \notin Faults => link[id] = "durable"

(* The handler alone decides what becomes of its blob: it made the blob    *)
(* and has not committed it, or it is about to unlink it.                  *)
Holds(r) ==
  \/ r.pc = "remove"
  \/ r.op \in {"put", "createUpload"} /\ r.pc \in {"write", "sync", "commit"}

(* Handlers that work on a session's blob without owning it.               *)
Borrows(r) ==
  \/ r.op = "part" /\ r.pc \in {"open", "write", "sync", "commit"}
  \/ r.op = "complete" /\ r.pc = "commit"

(* A held blob is drawn, and known to no row and to no other holder.       *)
HeldAlone ==
  \A p \in Proc : Holds(req[p]) =>
    LET id == req[p].blob
    IN  /\ link[id] # "unused"
        /\ \A n \in Name : objects[n].blob # id
        /\ \A u \in UploadId : uploads[u].blob # id
        /\ \A q \in Proc : Holds(req[q]) /\ req[q].blob = id => q = p

(* An object's blob is kept and belongs to no other row.                   *)
ObjectsKept ==
  \A n \in Name : objects[n].blob # None =>
    LET id == objects[n].blob
    IN  /\ Kept(id)
        /\ \A m \in Name : objects[m].blob = id => m = n
        /\ \A u \in UploadId : uploads[u].blob # id

(* A session's blob is drawn and belongs to no other session; once a part  *)
(* is recorded it is kept.                                                 *)
SessionsKept ==
  \A u \in UploadId : uploads[u].state = "active" =>
    LET id == uploads[u].blob
    IN  /\ link[id] # "unused"
        /\ \A t \in UploadId : uploads[t].blob = id => t = u
        /\ (\E n \in 1..MaxParts : uploads[u].parts[n] # << >>) => Kept(id)

(* A handler in the middle of a session's route holds the blob of that     *)
(* session, if the session is still there; where it is going to commit,    *)
(* that blob is kept.                                                      *)
BorrowedFromSession ==
  \A p \in Proc : Borrows(req[p]) =>
    LET u == req[p].upload
    IN  /\ uploads[u].state # "unused"
        /\ link[req[p].blob] # "unused"
        /\ Active(u) => uploads[u].blob = req[p].blob
        /\ Active(u) /\ req[p].pc = "commit" => Kept(req[p].blob)

(* putObject commits a row only for a synced blob.                         *)
PutIsSynced ==
  \A p \in Proc : At(p, "put", "commit") => Kept(req[p].blob)

RefInv == /\ HeldAlone
          /\ ObjectsKept
          /\ SessionsKept
          /\ BorrowedFromSession
          /\ PutIsSynced

Inv == Typing /\ RefInv

----------------------------------------------------------------------------
(* The inductive invariant behind NoOrphan.                                *)

(* Nothing is left behind while no process ends in the middle of a request *)
(* and no unlink, no closing of a new file, no row and no bucket fails a   *)
(* handler.                                                                *)
Tidy == /\ Faults \cap {"kill", "crash", "close", "remove", "store"} = {}
        /\ "deleteBucket" \notin Ops

(* Some row points at the blob.                                            *)
Referred(id) == \/ \E n \in Name : objects[n].blob = id
                \/ \E u \in UploadId : uploads[u].blob = id

(* A put that passed its bucket check and has not committed.               *)
Admitted(r) ==
  r.op = "put" /\ r.pc \in {"create", "write", "sync", "commit"}

(* A file that is there is a row's, or a handler's that will commit or     *)
(* unlink it; a put that will commit finds its bucket.                     *)
TidyInv ==
  /\ \A id \in BlobId : Present(id) =>
       Referred(id) \/ \E p \in Proc : Holds(req[p]) /\ req[p].blob = id
  /\ \A p \in Proc : /\ req[p].op # "deleteBucket"
                     /\ Admitted(req[p]) => req[p].bucket \in buckets
=============================================================================
