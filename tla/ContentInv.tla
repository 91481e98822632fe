----------------------------- MODULE ContentInv -----------------------------
(***************************************************************************)
(* The inductive invariant behind ObjectIntact, RecordedPartsDurable and   *)
(* ReadsOneVersion: what the files hold at each step of the handlers that  *)
(* write, sync, commit and read them.                                      *)
(***************************************************************************)
EXTENDS ServerInv

(* Clients that have made up their mind: in each session one body for each *)
(* part, which arrives as it was sent or cut short, and no part beyond a   *)
(* count the session is completed with.  A session's file is shared by the *)
(* writers of a part, written before the checksum of the part is known and *)
(* never truncated, so without this two bodies of a part mix, or one that  *)
(* is refused stays, and a part too many lengthens the object.             *)
SteadyClients ==
  \A u \in UploadId, n \in 1..MaxParts :
    /\ \A a, b \in PartBodies[u][n] : a = b
    /\ \A c \in CompleteCounts[u] : n > c => PartBodies[u][n] = {}

(* The file of session u when its parts have all been written.  Whatever a *)
(* part handler of the session writes, it writes this file's byte of the   *)
(* cell.                                                                   *)
Image(u) ==
  [i \in 1..FileLen |->
     LET bodies == PartBodies[u][((i - 1) \div PartSize) + 1]
         j == ((i - 1) % PartSize) + 1
     IN  IF \E b \in bodies : j <= Len(b)
           THEN (CHOOSE b \in bodies : TRUE)[j] ELSE Hole]

(* Nothing but bytes of the image has been written.                        *)
Partial(u, f) == \A i \in 1..FileLen : f[i] = Hole \/ f[i] = Image(u)[i]

(* The first k bytes of part n have been written.                          *)
Written(u, f, n, k) ==
  \A j \in 1..k : f[PartOffset(n) + j] = Image(u)[PartOffset(n) + j]

(* The handler made its blob and has not passed it to a row.               *)
Makes(r) == \/ r.op = "put" /\ r.pc \in {"write", "sync", "commit"}
            \/ r.op = "createUpload" /\ r.pc = "commit"

(* The handler has a part of a session in hand.                            *)
Writes(r) == r.op = "part" /\ r.pc \in {"open", "write", "sync", "commit"}

(* The handler knows its blob from an object's row, and will send it.      *)
Reads(r) == r.op = "get" /\ r.pc \in {"open", "serve"}

----------------------------------------------------------------------------
(* What a handler may rely on at its step.                                 *)

PutReady(r) ==
  r.op = "put" =>
    /\ r.body \in PutBodies
    /\ r.pc = "write" => bytes[r.blob] = Empty
    /\ r.pc \in {"sync", "commit"} => bytes[r.blob] = Overlay(Empty, 0, r.body)
    /\ r.pc = "commit" => disk[r.blob] = bytes[r.blob]

SessionReady(r) ==
  r.op = "createUpload" /\ r.pc = "commit" =>
    bytes[r.blob] = Empty /\ disk[r.blob] = Empty

PartReady(r) ==
  Writes(r) =>
    /\ r.body \in PartBodies[r.upload][r.part]
    /\ r.pc = "open" => r.done = 0
    /\ r.pc = "write" => Written(r.upload, bytes[r.blob], r.part, r.done)
    /\ r.pc \in {"sync", "commit"} =>
         Written(r.upload, bytes[r.blob], r.part, Len(r.body))
    /\ r.pc = "commit" => Written(r.upload, disk[r.blob], r.part, Len(r.body))

CompleteReady(r) ==
  r.op = "complete" /\ r.pc = "commit" =>
    /\ bytes[r.blob] = Image(r.upload)
    /\ disk[r.blob] = Image(r.upload)
    /\ r.want = Content(Image(r.upload))

ReadReady(r) ==
  r.op = "get" =>
    /\ r.pc \in {"row", "open", "serve", "reply"}
    /\ Reads(r) => /\ Content(bytes[r.blob]) = r.want
                   /\ link[r.blob] # "unused"
                   /\ \A u \in UploadId : uploads[u].blob # r.blob
    /\ r.pc \in {"row", "open"} => r.body = << >>
    /\ r.pc = "serve" => /\ r.size = Len(r.want)
                         /\ Len(r.body) <= r.size
                         /\ \A i \in 1..Len(r.body) : r.body[i] = r.want[i]
    /\ r.pc = "reply" /\ r.code = "ok" => r.body = r.want

Ready(r) == /\ PutReady(r) /\ SessionReady(r) /\ PartReady(r)
            /\ CompleteReady(r) /\ ReadReady(r)

HandlersReady == \A p \in Proc : Ready(req[p])

(* A blob in the making is nobody's to write or to read.                   *)
MadeAlone ==
  \A p, q \in Proc : Makes(req[p]) /\ (Borrows(req[q]) \/ Reads(req[q])) =>
    req[q].blob # req[p].blob

(* Handlers with one session's blob in hand have it from one session.      *)
OneSession ==
  \A p \in Proc : Borrows(req[p]) =>
    /\ \A q \in Proc : Borrows(req[q]) /\ req[q].blob = req[p].blob =>
         req[q].upload = req[p].upload
    /\ \A u \in UploadId : uploads[u].blob = req[p].blob => req[p].upload = u

(* A part that arrives after its session was completed finds its bytes in  *)
(* the file already.                                                       *)
LateParts ==
  \A p \in Proc : Writes(req[p]) =>
    \/ bytes[req[p].blob] = Image(req[p].upload)
    \/ /\ \A n \in Name : objects[n].blob # req[p].blob
       /\ \A q \in Proc : Reads(req[q]) => req[q].blob # req[p].blob

----------------------------------------------------------------------------
(* What the files hold.                                                    *)

UnusedEmpty ==
  \A id \in BlobId : link[id] = "unused" => bytes[id] = Empty /\ disk[id] = Empty

SessionsSteady ==
  \A u \in UploadId : Active(u) =>
    LET id == uploads[u].blob
        parts == uploads[u].parts
    IN  /\ Partial(u, bytes[id]) /\ Partial(u, disk[id])
        /\ \A n \in 1..MaxParts : parts[n] # << >> =>
             /\ parts[n] \in PartBodies[u][n]
             /\ Written(u, bytes[id], n, Len(parts[n]))
             /\ Written(u, disk[id], n, Len(parts[n]))

FileInv == /\ UnusedEmpty
           /\ ObjectIntact
           /\ SessionsSteady
           /\ HandlersReady
           /\ MadeAlone
           /\ OneSession
           /\ LateParts
=============================================================================
