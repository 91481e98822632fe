------------------------------ MODULE BlobStore ------------------------------
(***************************************************************************)
(* internal/disk: blobs as files under <root>/objects, each named by a     *)
(* fresh random id.  The model keeps what the page cache shows (`bytes'),  *)
(* what the platter holds (`disk'), and the state of the directory entry   *)
(* (`link'), because Write and Create are not durable until Sync.          *)
(***************************************************************************)
EXTENDS Params

VARIABLES
  link,   \* link[id]: the file's directory entry
  bytes,  \* bytes[id]: the file as open descriptors read it
  disk    \* disk[id]: the part of it that a power loss cannot take back

blobVars == <<link, bytes, disk>>

(* unused: the id was never drawn.  fresh: the entry exists and may be     *)
(* lost in a crash.  durable: the entry survives.  removed: unlinked, and  *)
(* the unlink itself may be lost in a crash.  gone: no file any more.      *)
LinkState == {"unused", "fresh", "durable", "removed", "gone"}

File == [1..FileLen -> Data]
Empty == [i \in 1..FileLen |-> Hole]

(* The file's length: one past the last offset ever written.               *)
Extent(f) ==
  CHOOSE k \in 0..FileLen :
    /\ k > 0 => f[k] # Hole
    /\ \A i \in 1..FileLen : i > k => f[i] = Hole

(* What a reader of the whole file gets.                                   *)
Content(f) == [i \in 1..Extent(f) |-> f[i]]

(* Mutant of Overlay: the offset is ignored and the data appended.         *)
OverlayAppend(f, offset, data) == f \o data

Overlay(f, offset, data) ==
  [i \in 1..FileLen |-> IF i - offset \in 1..Len(data)
                          THEN data[i - offset] ELSE f[i]]

(* The file is found at its path.                                          *)
Present(id) == link[id] \in {"fresh", "durable"}

BlobTypeOK ==
  /\ link \in [BlobId -> LinkState]
  /\ bytes \in [BlobId -> File]
  /\ disk \in [BlobId -> File]

BlobInit ==
  /\ link = [id \in BlobId |-> "unused"]
  /\ bytes = [id \in BlobId |-> Empty]
  /\ disk = [id \in BlobId |-> Empty]

(* O_CREATE|O_EXCL on a random id: an id is drawn at most once.            *)
Create(id) ==
  /\ link[id] = "unused"
  /\ link' = [link EXCEPT ![id] = "fresh"]
  /\ UNCHANGED <<bytes, disk>>

(* One chunk of io.Copy into the OffsetWriter.  The descriptor was opened  *)
(* before, so the chunk lands even in a file unlinked meanwhile.           *)
Write(id, offset, data) ==
  /\ bytes' = [bytes EXCEPT ![id] = Overlay(@, offset, data)]
  /\ UNCHANGED <<link, disk>>

(* Mutants of Sync: fsync is not called; only the entry is synced.         *)
SyncNothing(id) == Present(id) /\ UNCHANGED blobVars

SyncEntryOnly(id) ==
  /\ Present(id)
  /\ link' = [link EXCEPT ![id] = "durable"]
  /\ UNCHANGED <<bytes, disk>>

(* fsync of the file; the leaf directory is not synced.  A file system     *)
(* that journals a new file's entry with its fsync makes it durable;       *)
(* with the fault "entry" it does not.                                     *)
Sync(id) ==
  /\ Present(id)
  /\ disk' = [disk EXCEPT ![id] = bytes[id]]
  /\ link' = IF "entry" \in Faults THEN link
                                   ELSE [link EXCEPT ![id] = "durable"]
  /\ UNCHANGED bytes

(* os.Remove; an absent file is not an error.                              *)
Remove(id) ==
  /\ link' = IF Present(id) THEN [link EXCEPT ![id] = "removed"] ELSE link
  /\ UNCHANGED <<bytes, disk>>

(* Bytes written since the last fsync.                                     *)
Dirty == {c \in BlobId \X (1..FileLen) : bytes[c[1]][c[2]] # disk[c[1]][c[2]]}

(* Power loss: every entry operation and every written byte not yet        *)
(* synced is kept or lost, independently of the others.                    *)
LoseUnsynced ==
  \E kept \in SUBSET {id \in BlobId : link[id] \in {"fresh", "removed"}},
     lost \in SUBSET Dirty :
    /\ link' = [id \in BlobId |->
                  IF link[id] \in {"fresh", "removed"}
                    THEN IF id \in kept THEN "durable" ELSE "gone"
                    ELSE link[id]]
    /\ bytes' = [id \in BlobId |-> [i \in 1..FileLen |->
                   IF <<id, i>> \in lost THEN disk[id][i] ELSE bytes[id][i]]]
    /\ disk' = bytes'
=============================================================================
