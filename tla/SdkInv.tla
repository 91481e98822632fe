------------------------------- MODULE SdkInv -------------------------------
(***************************************************************************)
(* The inductive invariant of an upload call: who has which part, what the *)
(* parts that are done add up to, what has become of the session, and      *)
(* which bytes are in its file.                                            *)
(***************************************************************************)
EXTENDS SdkUpload

Working == {"reading", "sending"}

Row == [size : Nat, sum : SUBSET Bits]

(* The state is well formed.                                               *)
Clients ==
  [phase : {"create", "parts", "complete", "abort"} \cup Settled,
   next : Nat \ {0}, done : Nat, reported : Nat,
   aborted : BOOLEAN, cancelled : BOOLEAN, unread : BOOLEAN, acked : BOOLEAN,
   inFlight : [1 .. Count -> Nat],
   sums : [1 .. Count -> SUBSET SUBSET Bits]]

ClientShape == client \in Clients

WorkersShape ==
  worker \in [Worker -> [at : Working \cup {"idle", "returned", "threw"},
                         n : 0 .. Count, try : 0 .. Tries, ahead : 0 .. Count]]

PartsShape ==
  parts \subseteq [n : 1 .. Count, try : 1 .. Tries,
                   at : {"sent", "open", "written", "ok", "refused"}]

AbortStates == {"unsent", "sent", "dropped", "ok", "orphaned", "refused", "failed"}

RequestShape ==
  request \in [complete : {"unsent", "sent", "checked", "ok", "refused"},
               abort : AbortStates,
               object : SUBSET Row]

ServerShape ==
  /\ server = [session |-> server.session, rows |-> server.rows,
               blob |-> server.blob, object |-> server.object]
  /\ server.session \in BOOLEAN /\ server.rows \in [1 .. Count -> SUBSET Row]

Shape ==
  /\ source \in Sources
  /\ ClientShape /\ WorkersShape /\ PartsShape /\ RequestShape /\ ServerShape

----------------------------------------------------------------------------
(* Workers.                                                                *)

(* A worker that works has a part, sends it in its first try or a later    *)
(* one, and has one read ahead only from the time it sends.                *)
WorkerShape ==
  \A w \in Worker :
    /\ worker[w].at \in Working => worker[w].n # 0
    /\ worker[w].at = "sending" => worker[w].try # 0
    /\ worker[w].at \in {"idle", "reading", "returned"} => worker[w].ahead = 0
    /\ worker[w].at = "idle" => worker[w].n = 0

(* What the phase of the call says of the workers.                         *)
PhaseOfWorkers ==
  /\ client.phase = "create" => client.next = 1 /\ \A w \in Worker : worker[w].at = "idle"
  /\ client.phase \in {"parts", "complete", "resolved"} =>
       \A w \in Worker : worker[w].at # "idle"
  /\ client.phase \in {"complete", "resolved"} =>
       \A w \in Worker : worker[w].at = "returned"
  /\ client.phase \in {"abort", "rejected"} =>
       \/ client.aborted \/ client.unread
       \/ \A w \in Worker : worker[w].at \in {"idle", "returned"}

(* A worker that throws aborts the others, or could not read; nothing else *)
(* aborts them; and only then does one return with a part it did not send. *)
AbortedByThrow ==
  /\ \A w \in Worker : worker[w].at = "threw" => client.aborted \/ client.unread
  /\ client.aborted => \E w \in Worker : worker[w].at = "threw"
  /\ \A w \in Worker : worker[w].at = "returned" => worker[w].n = 0 \/ client.aborted

WorkersInv == WorkerShape /\ PhaseOfWorkers /\ AbortedByThrow

----------------------------------------------------------------------------
(* Parts.                                                                  *)

Counted(n) == client.sums[n] # None

Held(w) == {worker[w].n, worker[w].ahead} \ {0}

(* No part is with two workers, none is done that is with one, and none is *)
(* done that was not claimed.                                              *)
HeldOnce ==
  /\ \A n \in 1 .. Count : Counted(n) => n < client.next
  /\ \A w \in Worker :
       /\ \A n \in Held(w) : n < client.next /\ ~Counted(n)
       /\ worker[w].ahead # 0 => worker[w].ahead # worker[w].n
  /\ \A v, w \in Worker : v # w => Held(v) \cap Held(w) = {}

(* No part that was claimed is lost, and a worker that reads nothing ahead *)
(* found that nothing was left.                                            *)
NoneLost ==
  /\ \A n \in 1 .. Count :
       n < client.next => Counted(n) \/ \E w \in Worker : n \in Held(w)
  /\ \A w \in Worker :
       worker[w].at \in {"sending", "returned"} /\ worker[w].ahead = 0 =>
         client.next > Count \/ client.aborted

(* A worker claims once more than there are parts, and then never again.   *)
Spent == {w \in Worker : worker[w].at \notin {"idle", "reading"} /\ worker[w].ahead = 0}

ClaimsBounded == client.next <= Count + 1 + Cardinality(Spent)

ClaimsInv == HeldOnce /\ NoneLost /\ ClaimsBounded

(* Progress is what is done and what is in flight, and the parts done are  *)
(* each counted once.                                                      *)
CountedLength == [n \in 1 .. Count |-> IF Counted(n) THEN Len(Slice(source, n)) ELSE 0]

Ledger ==
  /\ \A n \in 1 .. Count :
       /\ client.inFlight[n] <= Len(Slice(source, n))
       /\ Counted(n) => client.inFlight[n] = 0
       /\ Counted(n) => client.sums[n] = {Sum[Slice(source, n)]}
  /\ client.done = Total(CountedLength, Count)
  /\ client.done <= client.reported /\ client.reported <= Size

----------------------------------------------------------------------------
(* The session.                                                            *)

Begun == \E w \in Worker : worker[w].at # "idle"

(* The abort has ended the session.                                       *)
Dropped == {"dropped", "ok", "orphaned"}

(* A session ends in one of two ways, and its file with it or not at all.  *)
SessionFate ==
  /\ Begun \/ request.abort # "unsent" =>
       server.session \/ server.object # None \/ request.abort \in Dropped
  /\ server.session => /\ server.object = None /\ server.blob # None
                       /\ request.abort \in {"unsent", "sent", "failed"}
  /\ server.object # None => /\ server.blob # None
                             /\ request.abort \in {"unsent", "sent", "refused", "failed"}
  /\ request.abort \in Dropped => ~server.session /\ server.object = None
  /\ request.abort = "ok" => server.blob = None
  /\ request.abort \in {"dropped", "orphaned"} => server.blob # None
  /\ request.abort = "refused" => server.object # None
  /\ client.acked => request.abort \in {"ok", "refused", "orphaned"}
  /\ client.phase \notin {"abort", "rejected"} => request.abort = "unsent"

(* What complete has made, or is about to.                                 *)
CompleteFate ==
  /\ request.complete # "unsent" =>
       client.phase \notin {"create", "parts"}
  /\ request.complete \in {"checked", "ok"} => request.object # None
  /\ request.complete = "ok" <=> server.object # None
  /\ client.phase = "resolved" => request.complete = "ok"

----------------------------------------------------------------------------
(* Bytes.                                                                  *)

(* The cells of part n, and a file that has the cells of a set.            *)
Cells(n) == Offset(n) + 1 .. Offset(n) + Len(Slice(source, n))

Filled(cells) == [i \in cells |-> source.bytes[i]]

(* The file has cells of the source and nothing else, among them those of  *)
(* every part that was recorded or is about to be.                         *)
FileInv ==
  /\ \/ server.blob = None
     \/ \E cells \in SUBSET (1 .. Size) :
          /\ server.blob = {Filled(cells)}
          /\ \A n \in 1 .. Count : server.rows[n] # None => Cells(n) \subseteq cells
          /\ \A m \in parts : m.at = "written" => Cells(m.n) \subseteq cells
  /\ \A n \in 1 .. Count :
       server.rows[n] # None =>
         server.rows[n] = {[size |-> Len(Slice(source, n)), sum |-> Sum[Slice(source, n)]]}
  /\ ~Begun => parts = {} /\ \A n \in 1 .. Count : server.rows[n] = None

(* What complete checked is all of the source.                             *)
CheckedInv ==
  /\ request.complete \in {"checked", "ok"} => \A n \in 1 .. Count : server.rows[n] # None
  /\ request.object \subseteq {[size |-> Size, sum |-> Crc(source.bytes)]}
  /\ server.object \subseteq request.object

SdkInv ==
  /\ Shape /\ WorkersInv /\ ClaimsInv /\ Ledger
  /\ SessionFate /\ CompleteFate /\ FileInv /\ CheckedInv
=============================================================================
