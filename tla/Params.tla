------------------------------- MODULE Params -------------------------------
(***************************************************************************)
(* The constants of the storage server's model: the names, ids and bodies  *)
(* that occur, the operations clients issue, and the faults that the       *)
(* environment may inject.                                                 *)
(*                                                                         *)
(* A body is a sequence of bytes.  CRC32C (with the length that is always  *)
(* stored beside it) is idealised as injective: the checksum of a body is  *)
(* the body itself, so a row's `sum' says both which bytes and how many    *)
(* the row promises.                                                       *)
(***************************************************************************)
EXTENDS Integers, Sequences, FiniteSets

CONSTANTS
  Bucket,         \* bucket names
  Key,            \* object keys
  BlobId,         \* the 128-bit random ids that Create may draw
  UploadId,       \* the 128-bit random upload-session ids
  Proc,           \* concurrently running request handlers
  None,           \* no blob, no name, no upload
  Byte,           \* byte values; 0 is kept for a hole in a sparse file
  PartSize,       \* the part_size every session asks for
  MaxParts,       \* the server's limit on part numbers
  PutBodies,      \* bodies clients PUT in one request
  PartBodies,     \* PartBodies[u][n]: bodies clients PUT as part n of session u
  CompleteCounts, \* CompleteCounts[u]: values of "parts" in completes of u
  Ops,            \* operations the clients of this instance issue
  Faults          \* faults this instance injects, a subset of AllFaults

(* Every operation a client may issue.                                     *)
AllOps == {"put", "get", "delete", "createBucket", "deleteBucket",
           "createUpload", "part", "complete", "abort"}

(* kill: the process ends. crash: power loss. entry: fsync of a file does  *)
(* not make its directory entry durable. stream: a body ends early.        *)
(* corrupt: the bytes received are not those the declared checksum was     *)
(* computed from. disk: creating or opening a file, a write or an fsync    *)
(* fails. close: closing a file just created fails. remove: an unlink      *)
(* fails. store: a metadata call fails without effect. ambiguous: the      *)
(* recording of a part takes effect and still reports an error (its        *)
(* context was cancelled as it finished). expiry: sessions outlive their   *)
(* time to live.                                                           *)
AllFaults == {"kill", "crash", "entry", "stream", "corrupt", "disk", "close",
              "remove", "store", "ambiguous", "expiry"}

FileLen == PartSize * MaxParts

(* What a cell of a file holds: a byte, or a hole that was never written   *)
(* and reads as zero.                                                      *)
Hole == 0
Data == Byte \cup {Hole}

ASSUME SizeAssumption ==
  /\ PartSize \in Nat \ {0}
  /\ MaxParts \in Nat \ {0}
  /\ Byte \subseteq Nat \ {0}

ASSUME BodyAssumption ==
  /\ PutBodies \subseteq {b \in Seq(Byte) : Len(b) <= FileLen}
  /\ PartBodies \in [UploadId -> [1..MaxParts -> SUBSET Seq(Byte)]]
  /\ \A u \in UploadId, n \in 1..MaxParts :
       \A b \in PartBodies[u][n] : Len(b) \in 1..PartSize
  /\ CompleteCounts \in [UploadId -> SUBSET (1..MaxParts)]

ASSUME NoneAssumption ==
  None \notin BlobId \cup UploadId \cup Bucket \cup (Bucket \X Key)

ASSUME WorkloadAssumption == Ops \subseteq AllOps /\ Faults \subseteq AllFaults

(* An object's address: the objects table's primary key.                   *)
Name == Bucket \X Key

(* What a client declares in X-Tunna-Checksum for a body it sends.         *)
Declared(body, bodies) == IF "corrupt" \in Faults THEN bodies ELSE {body}
=============================================================================
