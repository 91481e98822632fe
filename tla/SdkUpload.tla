----------------------------- MODULE SdkUpload ------------------------------
(***************************************************************************)
(* One call of the SDK's upload (sdk/typescript/src/client.ts) against the *)
(* server's upload routes: the client's workers, its retries, its abort    *)
(* controller and the caller's signal; requests that are lost before or    *)
(* after they run, or run long after the client gave them up; and on the   *)
(* server the handlers of one session, step by step between two calls of a *)
(* store (internal/httpapi/uploads.go).                                    *)
(***************************************************************************)
EXTENDS Crc

CONSTANTS
  Sources,  \* uploads: the bytes, the session's part size, the concurrency
  Tries     \* attempts a part gets; 3 in the code

ASSUME SdkAssumption ==
  /\ Tries \in Nat \ {0}
  /\ \A s \in Sources :
       /\ s.bytes \in Seq(SUBSET (0 .. 7)) /\ s.bytes # <<>>
       /\ {s.partSize, s.concurrency} \subseteq Nat \ {0}

VARIABLES
  source,   \* what is uploaded
  client,   \* the call: its phase and the variables its workers share
  worker,   \* the workers
  parts,    \* part requests that the server has or may get
  request,  \* the complete request, what it would make, and the abort request
  server    \* the session, its blob and the object

sdkVars == <<source, client, worker, parts, request, server>>

----------------------------------------------------------------------------
(* Slices.                                                                 *)

Size == Len(source.bytes)
Count == (Size + source.partSize - 1) \div source.partSize

Smallest(m, n) == IF m < n THEN m ELSE n

Slice(s, n) ==
  SubSeq(s.bytes, (n - 1) * s.partSize + 1, Smallest(n * s.partSize, Len(s.bytes)))

(* The checksums of all slices, computed once.                             *)
Sum == [b \in UNION {{Slice(s, n) : n \in 1 .. Len(s.bytes)} : s \in Sources} |-> Crc(b)]

----------------------------------------------------------------------------
(* State.                                                                  *)

Settled == {"resolved", "rejected"}

(* Something that may be missing is a set of at most one element.          *)
None == {}

(* reading: a part is claimed and its bytes are being read.                *)
Worker == 1 .. Smallest(source.concurrency, Count)

SdkInit ==
  /\ source \in Sources
  /\ client = [phase |-> "create", next |-> 1, aborted |-> FALSE, cancelled |-> FALSE,
               done |-> 0, reported |-> 0, inFlight |-> [n \in 1 .. Count |-> 0],
               sums |-> [n \in 1 .. Count |-> None], unread |-> FALSE, acked |-> FALSE]
  /\ worker = [w \in Worker |-> [at |-> "idle", n |-> 0, try |-> 0, ahead |-> 0]]
  /\ parts = {}
  /\ request = [complete |-> "unsent", abort |-> "unsent", object |-> None]
  /\ server = [session |-> FALSE, rows |-> [n \in 1 .. Count |-> None],
               blob |-> None, object |-> None]

----------------------------------------------------------------------------
(* The client.                                                             *)

(* Mutant: nobody looks whether there is another part.                     *)
ClaimUnbounded(next) == next

(* prepare: the part number a worker gets, 0 when there is none left.      *)
Claim(next) == IF next <= Count THEN next ELSE 0

(* f[1] + ... + f[n]                                                       *)
Total(f, n) ==
  LET upTo[k \in 0 .. n] == IF k = 0 THEN 0 ELSE upTo[k - 1] + f[k]
  IN  upTo[n]

(* report: progress never runs backwards.                                  *)
Report(c) ==
  LET current == c.done + Total(c.inFlight, Count)
  IN  [c EXCEPT !.reported = IF current > @ THEN current ELSE @]

(* uploads.create answers, and every worker claims its first part.         *)
CreateAnswered ==
  /\ client.phase = "create" /\ server.session
  /\ client' = [client EXCEPT !.phase = "parts", !.next = Cardinality(Worker) + 1]
  /\ worker' = [w \in Worker |-> [at |-> "reading", n |-> w, try |-> 0, ahead |-> 0]]
  /\ UNCHANGED <<source, parts, request, server>>

(* It fails: the call rejects, and there is no session it could abort.  It *)
(* passes on no signal, so a cancellation does not end it.                 *)
CreateFails ==
  /\ client.phase = "create"
  /\ client' = [client EXCEPT !.phase = "rejected"]
  /\ UNCHANGED <<source, worker, parts, request, server>>

(* The bytes are there.  The worker looks at the abort controller, claims  *)
(* the next part and sends this one.                                       *)
Send(w) ==
  /\ worker[w].at = "reading"
  /\ IF client.aborted
       THEN /\ worker' = [worker EXCEPT ![w].at = "returned"]
            /\ UNCHANGED <<client, parts>>
       ELSE /\ worker' = [worker EXCEPT ![w] =
                 [at |-> "sending", n |-> @.n, try |-> 1, ahead |-> Claim(client.next)]]
            /\ client' = [client EXCEPT !.next = @ + 1, !.inFlight[worker[w].n] = 0]
            /\ parts' = parts \cup
                 IF client.cancelled THEN {}
                 ELSE {[n |-> worker[w].n, try |-> 1, at |-> "sent"]}
  /\ UNCHANGED <<source, request, server>>

(* The bytes cannot be read.  A worker looks at what it read ahead when    *)
(* the part it sends is done; then it throws, past the handler that would  *)
(* abort the others.                                                       *)
ReadFails(w) ==
  /\ worker[w].at = "reading"
  /\ worker' = [worker EXCEPT ![w].at = "threw"]
  /\ client' = [client EXCEPT !.unread = TRUE]
  /\ UNCHANGED <<source, parts, request, server>>

(* The transport reports how much of the body has gone out.                *)
Progress(w) ==
  /\ worker[w].at = "sending"
  /\ [n |-> worker[w].n, try |-> worker[w].try, at |-> "sent"] \in parts
  /\ client.inFlight[worker[w].n] = 0
  /\ client' = Report([client EXCEPT !.inFlight[worker[w].n] = Len(Slice(source, worker[w].n))])
  /\ UNCHANGED <<source, worker, parts, request, server>>

Attempt(w) == {m \in parts : m.n = worker[w].n /\ m.try = worker[w].try}

(* Mutant: the finished part stays among those in flight.                  *)
CountPartTwice(n) ==
  Report([client EXCEPT !.done = @ + Len(Slice(source, n)),
                        !.sums[n] = {Sum[Slice(source, n)]}])

(* What a finished part adds.                                              *)
CountPart(n) ==
  Report([client EXCEPT !.done = @ + Len(Slice(source, n)), !.inFlight[n] = 0,
                        !.sums[n] = {Sum[Slice(source, n)]}])

(* The answer 200 arrives; the worker goes on to the part it read ahead.   *)
PartAnswered(w) ==
  /\ worker[w].at = "sending"
  /\ \E m \in Attempt(w) : m.at = "ok" /\ parts' = parts \ {m}
  /\ client' = CountPart(worker[w].n)
  /\ worker' = [worker EXCEPT ![w] =
       [at |-> IF @.ahead = 0 THEN "returned" ELSE "reading",
        n |-> @.ahead, try |-> 0, ahead |-> 0]]
  /\ UNCHANGED <<source, request, server>>

(* Mutant: a worker that throws leaves the others alone.                   *)
ThrowAlone(c) == c

(* A worker that throws aborts the others first.                           *)
Throw(c) == [c EXCEPT !.aborted = TRUE]

(* A failure that is no TransportError: the server's refusal, an answer    *)
(* whose body broke off, or the caller's signal or the abort controller,   *)
(* which end the request at once.                                          *)
Abandon(w) ==
  /\ worker[w].at = "sending"
  /\ \/ client.aborted \/ client.cancelled
     \/ \E m \in Attempt(w) : m.at \in {"ok", "refused"}
  /\ parts' = parts \ {m \in Attempt(w) : m.at \in {"ok", "refused"}}
  /\ worker' = [worker EXCEPT ![w].at = "threw"]
  /\ client' = Throw(client)
  /\ UNCHANGED <<source, request, server>>

(* Mutant: the tries are not counted.                                      *)
NextTryUncounted(w) == worker[w].try

NextTry(w) == worker[w].try + 1

(* A TransportError: no answer, whatever the server made of the request.   *)
TransportFails(w) ==
  /\ worker[w].at = "sending" /\ ~client.aborted /\ ~client.cancelled
  /\ LET left == parts \ {m \in Attempt(w) : m.at \in {"ok", "refused"}}
     IN  IF worker[w].try < Tries
           THEN /\ worker' = [worker EXCEPT ![w].try = NextTry(w)]
                /\ client' = [client EXCEPT !.inFlight[worker[w].n] = 0]
                /\ parts' = left \cup
                     {[n |-> worker[w].n, try |-> NextTry(w), at |-> "sent"]}
           ELSE /\ worker' = [worker EXCEPT ![w].at = "threw"]
                /\ client' = Throw(client)
                /\ parts' = left
  /\ UNCHANGED <<source, request, server>>

(* Promise.all resolves when every worker has returned.                    *)
SendComplete ==
  /\ client.phase = "parts" /\ \A w \in Worker : worker[w].at = "returned"
  /\ client' = [client EXCEPT !.phase = "complete"]
  /\ request' = [request EXCEPT !.complete = IF client.cancelled THEN "unsent" ELSE "sent"]
  /\ UNCHANGED <<source, worker, parts, server>>

(* It rejects at the first one that throws, and the session is aborted;    *)
(* so it is when complete fails, is refused, or gets no answer.            *)
SendAbort ==
  /\ \/ client.phase = "parts" /\ \E w \in Worker : worker[w].at = "threw"
     \/ client.phase = "complete"
  /\ client' = [client EXCEPT !.phase = "abort"]
  /\ request' = [request EXCEPT !.abort = "sent"]
  /\ UNCHANGED <<source, worker, parts, server>>

CompleteAnswered ==
  /\ client.phase = "complete" /\ request.complete = "ok"
  /\ client' = [client EXCEPT !.phase = "resolved"]
  /\ UNCHANGED <<source, worker, parts, request, server>>

(* Whatever became of the abort, the call rejects.                         *)
Reject ==
  /\ client.phase = "abort"
  /\ \E acked \in {FALSE, request.abort \in {"ok", "refused", "orphaned"}} :
       client' = [client EXCEPT !.phase = "rejected", !.acked = acked]
  /\ UNCHANGED <<source, worker, parts, request, server>>

(* The caller's signal.                                                    *)
Cancel ==
  /\ client.phase \notin Settled /\ ~client.cancelled
  /\ client' = [client EXCEPT !.cancelled = TRUE]
  /\ UNCHANGED <<source, worker, parts, request, server>>

ClientNext ==
  \/ CreateAnswered \/ CreateFails \/ SendComplete \/ SendAbort
  \/ CompleteAnswered \/ Reject
  \/ \E w \in Worker :
       Send(w) \/ ReadFails(w) \/ Progress(w) \/ PartAnswered(w) \/ Abandon(w)
       \/ TransportFails(w)

----------------------------------------------------------------------------
(* The server.  Each handler looks the session up first and then works     *)
(* with what it found; the session may go in between.                      *)

(* createUpload: an empty blob and the session's row.  It may run after    *)
(* the client gave it up, or never.                                        *)
HandleCreate ==
  /\ client.phase \in {"create", "rejected"} /\ ~server.session
  /\ server.blob = None /\ request.abort = "unsent"
  /\ server' = [server EXCEPT !.session = TRUE, !.blob = {<<>>}]
  /\ UNCHANGED <<source, client, worker, parts, request>>

Move(m, at) == parts' = (parts \ {m}) \cup {[m EXCEPT !.at = at]}

Awaited(m) == \E w \in Worker : worker[w].at = "sending" /\ m \in Attempt(w)

(* An answer nobody waits for is gone.                                     *)
Answer(m, at) == IF Awaited(m) THEN Move(m, at) ELSE parts' = parts \ {m}

(* putUploadPart, up to the body.                                          *)
LookUpSession(m) ==
  /\ m.at = "sent"
  /\ IF server.session THEN Move(m, "open") ELSE Answer(m, "refused")
  /\ UNCHANGED <<source, client, worker, request, server>>

(* Mutant: part numbers counted from zero.                                 *)
OffsetFromZero(n) == n * source.partSize

Offset(n) == (n - 1) * source.partSize

(* Bytes written into a file at an offset.                                 *)
WriteAt(file, offset, bytes) ==
  [i \in DOMAIN file \cup offset + 1 .. offset + Len(bytes) |->
     IF i > offset /\ i <= offset + Len(bytes) THEN bytes[i - offset] ELSE file[i]]

(* blobs.Write; the file of an aborted session is gone.                    *)
WritePart(m) ==
  /\ m.at = "open"
  /\ IF server.blob = None
       THEN Answer(m, "refused") /\ UNCHANGED server
       ELSE /\ Move(m, "written")
            /\ server' = [server EXCEPT
                 !.blob = {WriteAt(file, Offset(m.n), Slice(source, m.n)) : file \in @}]
  /\ UNCHANGED <<source, client, worker, request>>

(* uploads.PutPart, and the answer.                                        *)
RecordPart(m) ==
  /\ m.at = "written"
  /\ IF server.session
       THEN /\ Answer(m, "ok")
            /\ server' = [server EXCEPT !.rows[m.n] =
                 {[size |-> Len(Slice(source, m.n)), sum |-> Sum[Slice(source, m.n)]]}]
       ELSE Answer(m, "refused") /\ UNCHANGED server
  /\ UNCHANGED <<source, client, worker, request>>

(* The fold: the first part's row, and the following ones one by one.      *)
FoldParts(row) ==
  LET folded[i \in 0 .. Count - 1] ==
        IF i = 0 THEN row[1]
        ELSE LET acc == folded[i - 1]
             IN  [size |-> acc.size + row[i + 1].size,
                  sum |-> Combine(acc.sum, row[i + 1].sum, row[i + 1].size)]
  IN  folded[Count - 1]

(* completeUpload, up to its transaction: the session's rows, the checks   *)
(* and the fold.                                                           *)
CheckComplete ==
  LET row == [n \in 1 .. Count |-> CHOOSE r \in server.rows[n] : TRUE]
      complete == \A n \in 1 .. Count : server.rows[n] # None
      right == \A n \in 1 .. Count :
                 /\ n < Count => row[n].size = source.partSize
                 /\ {row[n].sum} = client.sums[n]
  IN  /\ request.complete = "sent"
      /\ request' = IF server.session /\ complete /\ right
                      THEN [request EXCEPT !.complete = "checked", !.object = {FoldParts(row)}]
                      ELSE [request EXCEPT !.complete = "refused"]
      /\ UNCHANGED <<source, client, worker, parts, server>>

(* Mutant: the in-memory store's three critical sections, an abort between *)
(* the first and the second.                                               *)
CommitUnchecked ==
  /\ request.complete = "checked"
  /\ request' = [request EXCEPT !.complete = "ok"]
  /\ server' = [server EXCEPT !.session = FALSE, !.object = request.object]
  /\ UNCHANGED <<source, client, worker, parts>>

(* uploads.CompleteUpload: one transaction.                                *)
CommitComplete ==
  /\ request.complete = "checked"
  /\ request' = [request EXCEPT !.complete = IF server.session THEN "ok" ELSE "refused"]
  /\ server' = IF server.session
                 THEN [server EXCEPT !.session = FALSE, !.object = request.object]
                 ELSE server
  /\ UNCHANGED <<source, client, worker, parts>>

(* deleteUpload: the row, and then the blob.  It fails while the session   *)
(* stays, if the session has expired or the store does not do it.          *)
DropSession ==
  /\ request.abort = "sent"
  /\ \/ /\ request' = [request EXCEPT !.abort = IF server.session THEN "dropped" ELSE "refused"]
        /\ server' = [server EXCEPT !.session = FALSE]
     \/ /\ request' = [request EXCEPT !.abort = "failed"]
        /\ UNCHANGED server
  /\ UNCHANGED <<source, client, worker, parts>>

(* An unlink that fails is logged, and the answer is the same.             *)
RemoveBlob ==
  /\ request.abort = "dropped"
  /\ \/ /\ request' = [request EXCEPT !.abort = "ok"]
        /\ server' = [server EXCEPT !.blob = None]
     \/ /\ request' = [request EXCEPT !.abort = "orphaned"]
        /\ UNCHANGED server
  /\ UNCHANGED <<source, client, worker, parts>>

Handle(m) == LookUpSession(m) \/ WritePart(m) \/ RecordPart(m)

ServerNext ==
  \/ HandleCreate \/ CheckComplete \/ CommitComplete \/ DropSession \/ RemoveBlob
  \/ \E m \in parts : Handle(m)

SdkNext == ClientNext \/ ServerNext \/ Cancel

SdkSpec == SdkInit /\ [][SdkNext]_sdkVars

(* The steps that wait for no answer: the event loop, bytes that are read, *)
(* and fetches that a signal has ended.                                    *)
LocalNext ==
  \/ SendComplete
  \/ (client.phase = "parts" \/ client.cancelled) /\ SendAbort
  \/ \E w \in Worker :
       \/ Send(w) \/ ReadFails(w)
       \/ (client.aborted \/ client.cancelled) /\ Abandon(w)

(* Those are taken; no fetch need ever end, and no request that was sent   *)
(* need ever run.                                                          *)
FairSdkSpec == SdkSpec /\ WF_sdkVars(LocalNext)

----------------------------------------------------------------------------
(* Properties.                                                             *)

(* The state is well formed.                                               *)
SdkTypeOK ==
  /\ source \in Sources
  /\ client.phase \in {"create", "parts", "complete", "abort"} \cup Settled
  /\ client.next \in 1 .. Count + 2 * source.concurrency
  /\ {client.done, client.reported} \subseteq 0 .. 2 * Size
  /\ \A w \in Worker :
       /\ worker[w].at \in {"idle", "reading", "sending", "returned", "threw"}
       /\ worker[w].n \in 0 .. Count /\ worker[w].try \in 0 .. Tries
       /\ worker[w].ahead \in 0 .. Count
  /\ parts \subseteq [n : 1 .. Count, try : 1 .. Tries,
                      at : {"sent", "open", "written", "ok", "refused"}]
  /\ server.session \in BOOLEAN

Whole == server.blob = {source.bytes}

(* An object that the session became is the source, byte for byte, with    *)
(* its size and its checksum, however often parts were sent again, in what *)
(* order they arrived, and whatever still writes after complete; and a     *)
(* call that resolved has made one.                                        *)
ObjectIsSource ==
  /\ server.object # None =>
       /\ Whole
       /\ server.object = {[size |-> Size, sum |-> Crc(source.bytes)]}
  /\ client.phase = "resolved" => server.object # None

(* A rejected call whose abort was answered leaves nothing behind: no      *)
(* session, and a file only if complete won and made it an object's, or    *)
(* its unlink failed.                                                      *)
CleanAfterAbort ==
  client.acked =>
    /\ ~server.session
    /\ server.blob # None <=> server.object # None \/ request.abort = "orphaned"

(* onProgress never reports more than there is, or less than all of it for *)
(* a call that resolved, with parts read ahead, failed and sent again.     *)
ProgressIsHonest ==
  /\ client.reported <= Size
  /\ client.phase = "resolved" => client.reported = Size

(* Once the call has settled no worker sends another request, unless the   *)
(* source could not be read: that failure does not reach the other workers.*)
QuietOnceSettled ==
  [][client.phase \in Settled /\ ~client.unread =>
       \A m \in parts' : \E o \in parts : m.n = o.n /\ m.try = o.try]_sdkVars

Stopped ==
  client.phase \in Settled /\ \A w \in Worker : worker[w].at \notin {"reading", "sending"}

(* A fetch is under way that only an answer or a failing transport ends:   *)
(* create and abort are sent without a signal, and a fetch has no timeout. *)
AwaitsAnswer ==
  \/ client.phase \in {"create", "abort"}
  \/ client.phase = "complete" /\ ~client.cancelled
  \/ ~client.aborted /\ ~client.cancelled /\ \E w \in Worker : worker[w].at = "sending"

(* Retries, read-ahead and workers that abort each other come to an end: a *)
(* call settles and its workers stop, unless it is left waiting for the    *)
(* answer to a request, for ever.                                          *)
CallSettles ==
  <>[](Stopped \/ AwaitsAnswer) /\ <>[][~ClientNext]_sdkVars

(* sdk/typescript/README.md: "A cancelled call rejects with the signal's   *)
(* reason".                                                                *)
CancelledCallRejects == client.cancelled ~> client.phase \in Settled
=============================================================================
