------------------------------ MODULE MapProofs ------------------------------
(***************************************************************************)
(* The server implements ObjectMap: every step of a handler, and every     *)
(* failure and power loss, is a step of the abstract map under the         *)
(* mapping of ServerMap, or changes nothing that the map shows.            *)
(***************************************************************************)
EXTENDS ServerMap, ContentProofs

(* A handler has decided its answer when only an unlink or the reply is    *)
(* left to do.                                                             *)
Settled(r) == r.pc \in {"remove", "reply"} <=> r.code # "none"

Decided == \A p \in Proc : Settled(req[p])

----------------------------------------------------------------------------
(* What the map shows.                                                     *)

(* What the rows promise.                                                  *)
Rows == [n \in Name |-> IF objects[n].blob = None THEN None ELSE objects[n].sum]

(* A stored body is what the row promises.                                 *)
ShowsRows == MapStore = Rows

LEMMA StoreIsRows == "entry" \notin Faults /\ Inv /\ FileInv => ShowsRows
<1> SUFFICES ASSUME "entry" \notin Faults, Inv, FileInv PROVE MapStore = Rows
  BY DEF ShowsRows
<1>1. ASSUME NEW n \in Name, objects[n].blob # None
      PROVE  /\ Present(objects[n].blob)
             /\ Content(bytes[objects[n].blob]) = objects[n].sum
  BY <1>1 DEF Inv, RefInv, ObjectsKept, Kept, Present, FileInv, ObjectIntact
<1> QED BY <1>1 DEF MapStore, Rows

LEMMA NextStoreIsRows ==
  ASSUME "entry" \notin Faults PROVE Inv' /\ FileInv' => ShowsRows'
<1>1. Inv /\ FileInv => ShowsRows
  BY StoreIsRows
<1> QED BY <1>1, PTL

(* The call that a request is shown as.                                    *)
LEMMA CallOf ==
  ASSUME NEW r, Settled(r)
  PROVE  LET call(op, body, outcome) ==
               [op |-> op, name |-> r.name, body |-> body, outcome |-> outcome]
         IN  /\ r.op = "put" =>
                  MapCall(r) = call("put", r.body, MapOutcome(r.code))
             /\ r.op = "complete" /\ r.name # None =>
                  MapCall(r) = call("put", r.want, MapOutcome(r.code))
             /\ r.op = "complete" /\ r.name = None => MapCall(r) = Map!NoCall
             /\ r.op = "delete" =>
                  MapCall(r) = call("delete", None, MapOutcome(r.code))
             /\ r.op = "get" /\ r.pc = "row" =>
                  MapCall(r) = call("get", None, "none")
             /\ r.op = "get" /\ r.pc \in {"open", "serve"} =>
                  MapCall(r) = call("get", r.want, "ok")
             /\ r.op = "get" /\ r.pc = "reply" /\ r.code = "ok" =>
                  MapCall(r) = call("get", r.body, "ok")
             /\ r.op = "get" /\ r.pc = "reply" /\ r.code # "ok" =>
                  MapCall(r) = call("get", None, MapOutcome(r.code))
             /\ r.op \notin {"put", "complete", "delete", "get"} =>
                  MapCall(r) = Map!NoCall
<1>1. r.op = "put" =>
        MapCall(r) = [op |-> "put", name |-> r.name, body |-> r.body,
                      outcome |-> MapOutcome(r.code)]
  BY DEF MapCall
<1>2. r.op = "complete" => MapCall(r) =
        IF r.name # None
          THEN [op |-> "put", name |-> r.name, body |-> r.want,
                outcome |-> MapOutcome(r.code)]
          ELSE Map!NoCall
  BY DEF MapCall, Map!NoCall
<1>3. r.op = "delete" =>
        MapCall(r) = [op |-> "delete", name |-> r.name, body |-> None,
                      outcome |-> MapOutcome(r.code)]
  BY DEF MapCall
<1>4. r.op = "get" /\ r.pc = "row" =>
        MapCall(r) = [op |-> "get", name |-> r.name, body |-> None, outcome |-> "none"]
  BY DEF MapCall, MapOutcome, Settled
<1>5. r.op = "get" /\ r.pc \in {"open", "serve"} =>
        MapCall(r) = [op |-> "get", name |-> r.name, body |-> r.want, outcome |-> "ok"]
  BY DEF MapCall, Settled
<1>6. r.op = "get" /\ r.pc = "reply" /\ r.code = "ok" =>
        MapCall(r) = [op |-> "get", name |-> r.name, body |-> r.body, outcome |-> "ok"]
  BY DEF MapCall, MapOutcome
<1>7. r.op = "get" /\ r.pc = "reply" /\ r.code # "ok" =>
        MapCall(r) = [op |-> "get", name |-> r.name, body |-> None,
                      outcome |-> MapOutcome(r.code)]
  BY DEF MapCall
<1>8. r.op \notin {"put", "complete", "delete", "get"} => MapCall(r) = Map!NoCall
  BY DEF MapCall, Map!NoCall
<1> QED BY <1>1, <1>2, <1>3, <1>4, <1>5, <1>6, <1>7, <1>8

LEMMA Outcomes ==
  /\ MapOutcome("none") = "none" /\ MapOutcome("ok") = "ok"
  /\ MapOutcome("object_not_found") = "absent"
  /\ \A code : code \notin {"none", "ok", "object_not_found"} =>
       MapOutcome(code) = "failed"
BY DEF MapOutcome

(* One process moves from call c to call d.                                *)
Moves(c, d) ==
  \/ d = c
  \/ c = Map!NoCall /\ d \in Map!Asked
  \/ /\ c.op \in {"put", "get", "delete"} /\ c.outcome = "none"
     /\ d = [c EXCEPT !.outcome = "failed"]
  \/ /\ c.op = "get" /\ c.outcome = "ok"
     /\ d = [c EXCEPT !.outcome = "failed", !.body = None]
  \/ /\ c.op \in {"get", "delete"} /\ c.outcome = "none" /\ c.name \in Name
     /\ objects[c.name].blob = None
     /\ d = [c EXCEPT !.outcome = "absent"]
  \/ /\ c.op = "get" /\ c.outcome = "none" /\ c.name \in Name
     /\ objects[c.name].blob # None
     /\ d = [c EXCEPT !.outcome = "ok", !.body = objects[c.name].sum]
  \/ c.outcome # "none" /\ d = Map!NoCall

(* What the invariants say before and after a step, and what is to be      *)
(* shown of the step.                                                      *)
Sound == /\ "entry" \notin Faults
         /\ Inv /\ FileInv /\ Decided
         /\ Inv' /\ FileInv'

Refines == Decided' /\ [Map!MapNext]_(Map!mapVars)

(* Handler p goes on as r.                                                 *)
LEMMA Shown ==
  ASSUME Sound, NEW p \in Proc, NEW r, req' = [req EXCEPT ![p] = r], Settled(r)
  PROVE  LET call == [q \in Proc |-> MapCall(req[q])]
         IN  /\ Decided'
             /\ call' = [call EXCEPT ![p] = MapCall(r)]
<1>1. \A q \in Proc : req'[q] = IF q = p THEN r ELSE req[q]
  BY DEF Sound, Inv, Typing, RequestTyping, RequestTypeOK
<1>2. Decided'
  BY <1>1 DEF Sound, Decided, Settled
<1>3. \A q \in Proc : MapCall(req'[q]) = IF q = p THEN MapCall(r) ELSE MapCall(req[q])
  BY <1>1
<1>4. [q \in Proc |-> MapCall(req'[q])] =
        [[q \in Proc |-> MapCall(req[q])] EXCEPT ![p] = MapCall(r)]
  BY <1>3
<1> QED BY <1>2, <1>4

LEMMA RowIsBody ==
  ASSUME Inv, NEW n \in Name PROVE objects[n].sum # None
BY BodyIsNotNone DEF Inv, Typing, MetaTyping, MetaTypeOK, ObjectRow

(* No row changes.                                                         *)
LEMMA QuietRefines ==
  ASSUME Sound, UNCHANGED objects, NEW p \in Proc, NEW r,
         req' = [req EXCEPT ![p] = r], Settled(r),
         Moves(MapCall(req[p]), MapCall(r))
  PROVE  Refines
<1> DEFINE call == [q \in Proc |-> MapCall(req[q])]
           c == MapCall(req[p])
           d == MapCall(r)
<1>1. Decided' /\ call' = [call EXCEPT ![p] = d] /\ call[p] = c
  BY Shown
<1>2. MapStore = Rows /\ MapStore' = Rows /\ Rows' = Rows
  <2>1. Rows' = Rows
    BY DEF Rows
  <2> QED BY <2>1, StoreIsRows, NextStoreIsRows DEF Sound, ShowsRows
<1>3. call \in [Proc -> {MapCall(req[q]) : q \in Proc}]
  OBVIOUS
<1>4. CASE d = c
  BY <1>1, <1>2, <1>3, <1>4 DEF Refines, Map!mapVars
<1>5. CASE c = Map!NoCall /\ d \in Map!Asked
  <2>1. Map!Invoke(p)
    BY <1>1, <1>2, <1>3, <1>5 DEF Map!Invoke
  <2> QED BY <1>1, <2>1 DEF Refines, Map!MapNext
<1>6. CASE /\ c.op \in {"put", "get", "delete"} /\ c.outcome = "none"
           /\ d = [c EXCEPT !.outcome = "failed"]
  <2>1. Map!Fail(p)
    BY <1>1, <1>2, <1>3, <1>6 DEF Map!Fail
  <2> QED BY <1>1, <2>1 DEF Refines, Map!MapNext
<1>7. CASE /\ c.op = "get" /\ c.outcome = "ok"
           /\ d = [c EXCEPT !.outcome = "failed", !.body = None]
  <2>1. Map!ReadFails(p)
    BY <1>1, <1>2, <1>3, <1>7 DEF Map!ReadFails
  <2> QED BY <1>1, <2>1 DEF Refines, Map!MapNext
<1>8. CASE /\ c.op \in {"get", "delete"} /\ c.outcome = "none" /\ c.name \in Name
           /\ objects[c.name].blob = None
           /\ d = [c EXCEPT !.outcome = "absent"]
  <2>1. MapStore[c.name] = None
    BY <1>2, <1>8 DEF Rows
  <2>2. Map!FindAbsent(p)
    BY <1>1, <1>2, <1>3, <1>8, <2>1 DEF Map!FindAbsent, Map!Pending
  <2> QED BY <1>1, <2>2 DEF Refines, Map!MapNext
<1>9. CASE /\ c.op = "get" /\ c.outcome = "none" /\ c.name \in Name
           /\ objects[c.name].blob # None
           /\ d = [c EXCEPT !.outcome = "ok", !.body = objects[c.name].sum]
  <2>1. MapStore[c.name] = objects[c.name].sum /\ MapStore[c.name] # None
    BY <1>2, <1>9, RowIsBody DEF Rows, Sound
  <2>2. Map!DoGet(p)
    BY <1>1, <1>2, <1>3, <1>9, <2>1 DEF Map!DoGet, Map!Pending
  <2> QED BY <1>1, <2>2 DEF Refines, Map!MapNext
<1>10. CASE c.outcome # "none" /\ d = Map!NoCall
  <2>1. Map!Return(p)
    BY <1>1, <1>2, <1>3, <1>10 DEF Map!Return
  <2> QED BY <1>1, <2>1 DEF Refines, Map!MapNext
<1> QED BY <1>4, <1>5, <1>6, <1>7, <1>8, <1>9, <1>10 DEF Moves

LEMMA RowsUpdate ==
  ASSUME NEW m \in Name, NEW body,
         \A n \in Name : Rows'[n] = IF n = m THEN body ELSE Rows[n]
  PROVE  Rows' = [Rows EXCEPT ![m] = body]
<1>1. Rows = [n \in Name |-> Rows[n]] /\ Rows' = [n \in Name |-> Rows'[n]]
  BY DEF Rows
<1> QED BY <1>1

(* A transaction puts a body.                                              *)
LEMMA PutRefines ==
  ASSUME Sound, NEW p \in Proc, NEW r, req' = [req EXCEPT ![p] = r], Settled(r),
         NEW row, row.blob # None,
         LET c == MapCall(req[p])
         IN  /\ c.op = "put" /\ c.outcome = "none" /\ c.name \in Name
             /\ MapCall(r) = [c EXCEPT !.outcome = "ok"]
             /\ row.sum = c.body
             /\ objects' = [objects EXCEPT ![c.name] = row]
  PROVE  Refines
<1> DEFINE call == [q \in Proc |-> MapCall(req[q])]
           c == MapCall(req[p])
           d == MapCall(r)
<1>1. Decided' /\ call' = [call EXCEPT ![p] = d] /\ call[p] = c
  BY Shown
<1>2. MapStore = Rows /\ MapStore' = Rows'
  BY StoreIsRows, NextStoreIsRows DEF Sound, ShowsRows
<1>3. Rows' = [Rows EXCEPT ![c.name] = c.body]
  <2>1. objects \in [Name -> ObjectRow]
    BY DEF Sound, Inv, Typing, MetaTyping, MetaTypeOK
  <2>2. \A n \in Name : objects'[n] = IF n = c.name THEN row ELSE objects[n]
    BY <2>1
  <2>3. c.name \in Name /\ row.sum = c.body
    OBVIOUS
  <2> HIDE DEF c
  <2>4. \A n \in Name : Rows'[n] = IF n = c.name THEN c.body ELSE Rows[n]
    BY <2>2, <2>3 DEF Rows
  <2> QED BY <2>3, <2>4, RowsUpdate
<1>4. Map!DoPut(p)
  BY <1>1, <1>2, <1>3 DEF Map!DoPut, Map!Pending
<1> QED BY <1>1, <1>4 DEF Refines, Map!MapNext

(* A transaction deletes a body.                                           *)
LEMMA DeleteRefines ==
  ASSUME Sound, NEW p \in Proc, NEW r, req' = [req EXCEPT ![p] = r], Settled(r),
         LET c == MapCall(req[p])
         IN  /\ c.op = "delete" /\ c.outcome = "none" /\ c.name \in Name
             /\ MapCall(r) = [c EXCEPT !.outcome = "ok"]
             /\ objects[c.name].blob # None
             /\ objects' = [objects EXCEPT ![c.name] = NoObject]
  PROVE  Refines
<1> DEFINE call == [q \in Proc |-> MapCall(req[q])]
           c == MapCall(req[p])
           d == MapCall(r)
<1>1. Decided' /\ call' = [call EXCEPT ![p] = d] /\ call[p] = c
  BY Shown
<1>2. MapStore = Rows /\ MapStore' = Rows'
  BY StoreIsRows, NextStoreIsRows DEF Sound, ShowsRows
<1>3. Rows' = [Rows EXCEPT ![c.name] = None]
  <2>1. objects \in [Name -> ObjectRow]
    BY DEF Sound, Inv, Typing, MetaTyping, MetaTypeOK
  <2>2. \A n \in Name : objects'[n] = IF n = c.name THEN NoObject ELSE objects[n]
    BY <2>1
  <2>3. NoObject.blob = None
    BY DEF NoObject
  <2>4. c.name \in Name
    OBVIOUS
  <2> HIDE DEF c
  <2>5. \A n \in Name : Rows'[n] = IF n = c.name THEN None ELSE Rows[n]
    BY <2>2, <2>3 DEF Rows
  <2> QED BY <2>4, <2>5, RowsUpdate
<1>4. MapStore[c.name] # None
  BY <1>2, RowIsBody DEF Rows, Sound
<1>5. Map!DoDelete(p)
  BY <1>1, <1>2, <1>3, <1>4 DEF Map!DoDelete, Map!Pending
<1> QED BY <1>1, <1>5 DEF Refines, Map!MapNext

----------------------------------------------------------------------------
(* The kinds of step.                                                      *)

LEMMA IdleCall == MapCall(Idle) = Map!NoCall /\ Settled(Idle)
<1>1. Settled(Idle) /\ Idle.op = "none"
  BY DEF Settled, Idle
<1> QED BY <1>1, CallOf

(* The handler works on, its answer still open or long decided.            *)
LEMMA WorkRefines ==
  ASSUME Sound, UNCHANGED objects, NEW p \in Proc, NEW r,
         req' = [req EXCEPT ![p] = r], Settled(r), req[p].op # "get",
         r.op = req[p].op, r.name = req[p].name, r.body = req[p].body,
         r.want = req[p].want, r.code = req[p].code
  PROVE  Refines
<1>1. Settled(req[p])
  BY DEF Sound, Decided
<1>2. MapCall(r) = MapCall(req[p])
  BY <1>1, CallOf
<1> QED BY <1>2, QuietRefines DEF Moves

(* The handler decides to fail.                                            *)
LEMMA FailRefines ==
  ASSUME Sound, UNCHANGED objects, NEW p \in Proc, NEW r,
         req' = [req EXCEPT ![p] = r], req[p].op # "get",
         r.op = req[p].op, r.name = req[p].name, r.body = req[p].body,
         r.want = req[p].want, req[p].pc \notin {"remove", "reply"},
         r.pc \in {"remove", "reply"}, r.code # "none",
         r.op \in {"put", "complete", "delete"} =>
           r.code \notin {"ok", "object_not_found"}
  PROVE  Refines
<1>1. Settled(req[p]) /\ Settled(r) /\ req[p].code = "none"
  BY DEF Sound, Decided, Settled
<1>2. Moves(MapCall(req[p]), MapCall(r))
  <2>1. CASE \/ r.op \notin {"put", "complete", "delete"}
             \/ r.op = "complete" /\ r.name = None
    <3>1. MapCall(req[p]) = Map!NoCall /\ MapCall(r) = Map!NoCall
      BY <1>1, <2>1, CallOf
    <3> QED BY <3>1 DEF Moves
  <2>2. CASE \/ r.op \in {"put", "delete"}
             \/ r.op = "complete" /\ r.name # None
    <3>1. MapOutcome(req[p].code) = "none" /\ MapOutcome(r.code) = "failed"
      BY <1>1, <2>2, Outcomes
    <3>2. PICK op, body :
            /\ op \in {"put", "delete"}
            /\ MapCall(req[p]) = [op |-> op, name |-> r.name, body |-> body,
                                  outcome |-> "none"]
            /\ MapCall(r) = [op |-> op, name |-> r.name, body |-> body,
                             outcome |-> "failed"]
      BY <1>1, <2>2, <3>1, CallOf
    <3> QED BY <3>2 DEF Moves
  <2> QED BY <2>1, <2>2
<1> QED BY <1>1, <1>2, QuietRefines

(* Nothing that the map shows: requests about buckets and sessions.        *)
LEMMA HiddenRefines ==
  ASSUME Sound, UNCHANGED objects, NEW p \in Proc, NEW r,
         req' = [req EXCEPT ![p] = r], Settled(r),
         \/ req[p] = Idle
         \/ req[p].op \notin {"put", "complete", "delete", "get"},
         \/ r.op \notin {"put", "complete", "delete", "get"}
         \/ r.op = "complete" /\ r.name = None
  PROVE  Refines
<1>1. Settled(req[p])
  BY DEF Sound, Decided
<1>2. MapCall(req[p]) = Map!NoCall /\ MapCall(r) = Map!NoCall
  BY <1>1, CallOf, IdleCall
<1> QED BY <1>2, QuietRefines DEF Moves

LEMMA AnswerRefines ==
  ASSUME Sound, UNCHANGED objects, NEW p \in Proc, req[p].op # "get",
         req[p].pc \notin {"remove", "reply"},
         NEW code, code # "none", Answer(p, code),
         req[p].op \in {"put", "complete", "delete"} =>
           code \notin {"ok", "object_not_found"}
  PROVE  Refines
<1>0. PICK r : r = [req[p] EXCEPT !.pc = "reply", !.code = code]
  OBVIOUS
<1>1. req[p] \in Request /\ req' = [req EXCEPT ![p] = r]
  BY <1>0, RequestFacts DEF Sound, Inv, Answer
<1>2. /\ r.op = req[p].op /\ r.name = req[p].name /\ r.body = req[p].body
      /\ r.want = req[p].want /\ r.pc = "reply" /\ r.code = code
  BY <1>0, <1>1 DEF Request
<1> QED BY <1>1, <1>2, FailRefines

LEMMA GiveUpRefines ==
  ASSUME Sound, UNCHANGED objects, NEW p \in Proc, req[p].op # "get",
         req[p].pc \notin {"remove", "reply"},
         NEW id, NEW code, code # "none", RemoveThenAnswer(p, id, code),
         req[p].op \in {"put", "complete", "delete"} =>
           code \notin {"ok", "object_not_found"}
  PROVE  Refines
<1>0. PICK r : r = [req[p] EXCEPT !.pc = IF id = None THEN "reply" ELSE "remove",
                                  !.blob = id, !.code = code]
  OBVIOUS
<1>1. req[p] \in Request /\ req' = [req EXCEPT ![p] = r]
  BY <1>0, RequestFacts DEF Sound, Inv, RemoveThenAnswer
<1>2. /\ r.op = req[p].op /\ r.name = req[p].name /\ r.body = req[p].body
      /\ r.want = req[p].want /\ r.pc \in {"reply", "remove"} /\ r.code = code
  BY <1>0, <1>1 DEF Request
<1> QED BY <1>1, <1>2, FailRefines

LEMMA GotoRefines ==
  ASSUME Sound, UNCHANGED objects, NEW p \in Proc, req[p].op # "get",
         NEW pc, Goto(p, pc),
         pc \in {"remove", "reply"} <=> req[p].pc \in {"remove", "reply"}
  PROVE  Refines
<1>0. PICK r : r = [req[p] EXCEPT !.pc = pc]
  OBVIOUS
<1>1. /\ req[p] \in Request /\ req' = [req EXCEPT ![p] = r] /\ Settled(req[p])
  BY <1>0, RequestFacts DEF Sound, Inv, Goto, Decided
<1>2. /\ r.op = req[p].op /\ r.name = req[p].name /\ r.body = req[p].body
      /\ r.want = req[p].want /\ r.pc = pc /\ r.code = req[p].code
  BY <1>0, <1>1 DEF Request
<1>3. Settled(r)
  BY <1>1, <1>2 DEF Settled
<1> QED BY <1>1, <1>2, <1>3, WorkRefines

LEMMA CreateBlobRefines ==
  ASSUME Sound, NEW p \in Proc, NEW next \in {"write", "commit"},
         CreateBlob(p, next), req[p].op # "get"
  PROVE  Refines
<1>1. PICK id \in BlobId : req' = [req EXCEPT ![p].pc = next, ![p].blob = id]
  BY DEF CreateBlob
<1>2. PICK r : r = [req[p] EXCEPT !.pc = next, !.blob = id]
  OBVIOUS
<1>3. /\ req[p] \in Request /\ req' = [req EXCEPT ![p] = r] /\ Settled(req[p])
      /\ req[p].pc = "create" /\ UNCHANGED objects
  BY <1>1, <1>2, RequestFacts DEF Sound, Inv, Decided, CreateBlob, metaVars
<1>4. /\ r.op = req[p].op /\ r.name = req[p].name /\ r.body = req[p].body
      /\ r.want = req[p].want /\ r.pc = next /\ r.code = req[p].code
  BY <1>2, <1>3 DEF Request
<1>5. Settled(r)
  BY <1>3, <1>4 DEF Settled
<1> QED BY <1>3, <1>4, <1>5, WorkRefines

LEMMA RefuseRefines ==
  ASSUME Sound, UNCHANGED objects, NEW p \in Proc, req[p] = Idle,
         NEW s \in Request, NEW code, code # "none", Refuse(p, s, code),
         \/ s.op \notin {"put", "complete", "delete", "get"}
         \/ s.op = "complete" /\ s.name = None
  PROVE  Refines
<1>0. PICK r : r = [s EXCEPT !.pc = "reply", !.code = code]
  OBVIOUS
<1>1. /\ req' = [req EXCEPT ![p] = r] /\ r.op = s.op /\ r.name = s.name
      /\ r.pc = "reply" /\ r.code = code
  BY <1>0 DEF Refuse, Request
<1>2. Settled(r)
  BY <1>1 DEF Settled
<1> QED BY <1>1, <1>2, HiddenRefines

LEMMA CreateBlobFailsRefines ==
  ASSUME Sound, NEW p \in Proc, CreateBlobFails(p)
  PROVE  Refines
<1>1. /\ req[p].pc = "create" /\ Answer(p, "internal") /\ UNCHANGED objects
      /\ ReadReady(req[p])
  BY DEF CreateBlobFails, metaVars, Sound, FileInv, HandlersReady, Ready
<1>2. req[p].op # "get"
  BY <1>1 DEF ReadReady
<1> QED BY <1>1, <1>2, AnswerRefines

(* A request that the map does not show.                                   *)
LEMMA EnterHiddenRefines ==
  ASSUME Sound, UNCHANGED objects, NEW p \in Proc, req[p] = Idle,
         NEW s \in Request, s.code = "none",
         NEW pc, pc \notin {"remove", "reply"}, Enter(p, s, pc),
         s.op \notin {"put", "complete", "delete", "get"}
  PROVE  Refines
<1>0. PICK r : r = [s EXCEPT !.pc = pc]
  OBVIOUS
<1>1. /\ req' = [req EXCEPT ![p] = r] /\ r.op = s.op /\ r.pc = pc /\ r.code = "none"
  BY <1>0 DEF Enter, Request
<1>2. Settled(r)
  BY <1>1 DEF Settled
<1> QED BY <1>1, <1>2, HiddenRefines

(* A call arrives.                                                         *)
LEMMA InvokeRefines ==
  ASSUME Sound, UNCHANGED objects, NEW p \in Proc, req[p] = Idle,
         NEW s, s.code = "none", s \in Request, s.name \in Name,
         NEW pc, Enter(p, s, pc),
         \/ s.op = "put" /\ s.body \in MapBody /\ pc = "create"
         \/ s.op = "complete" /\ s.want \in MapBody /\ pc = "commit"
         \/ s.op = "delete" /\ pc = "commit"
         \/ s.op = "get" /\ pc = "row"
  PROVE  Refines
<1>0. PICK r : r = [s EXCEPT !.pc = pc]
  OBVIOUS
<1>1. /\ req' = [req EXCEPT ![p] = r] /\ r.op = s.op /\ r.pc = pc /\ r.code = "none"
      /\ r.name = s.name /\ r.body = s.body /\ r.want = s.want
  BY <1>0 DEF Enter, Request
<1>2. Settled(r) /\ MapOutcome(r.code) = "none" /\ r.name # None
  BY <1>1, Outcomes, NoneAssumption DEF Settled, Name
<1>3. MapCall(r) \in Map!Asked
  <2>1. CASE r.op \in {"put", "complete"}
    <3>1. PICK body \in MapBody : MapCall(r) =
            [op |-> "put", name |-> r.name, body |-> body, outcome |-> "none"]
      BY <1>1, <1>2, <2>1, CallOf
    <3> QED BY <1>1, <3>1 DEF Map!Asked
  <2>2. CASE r.op \in {"get", "delete"}
    <3>1. MapCall(r) =
            [op |-> r.op, name |-> r.name, body |-> None, outcome |-> "none"]
      BY <1>1, <1>2, <2>2, CallOf
    <3> QED BY <1>1, <2>2, <3>1 DEF Map!Asked
  <2> QED BY <1>1, <2>1, <2>2
<1>4. MapCall(req[p]) = Map!NoCall
  BY IdleCall
<1> QED BY <1>1, <1>2, <1>3, <1>4, QuietRefines DEF Moves

(* A call is refused as it arrives.                                        *)
LEMMA RefusedRefines ==
  ASSUME Sound, UNCHANGED objects, NEW p \in Proc, req[p] = Idle,
         NEW s \in Request, s.name \in Name,
         NEW code \in {"bucket_not_found", "internal"}, Refuse(p, s, code),
         \/ s.op = "put" /\ s.body \in MapBody
         \/ s.op \in {"get", "delete"}
  PROVE  Refines
<1>0. PICK r : r = [s EXCEPT !.pc = "reply", !.code = code]
  OBVIOUS
<1>1. /\ req' = [req EXCEPT ![p] = r] /\ r.op = s.op /\ r.pc = "reply"
      /\ r.code = code /\ r.name = s.name /\ r.body = s.body
  BY <1>0 DEF Refuse, Request
<1>2. /\ Settled(r) /\ MapOutcome(r.code) = "failed"
      /\ r.code # "ok"
  BY <1>1, Outcomes DEF Settled
<1>3. MapCall(r) \in Map!Asked
  <2>1. CASE r.op = "put"
    <3>1. MapCall(r) =
            [op |-> "put", name |-> r.name, body |-> r.body, outcome |-> "failed"]
      BY <1>2, <2>1, CallOf
    <3> QED BY <1>1, <2>1, <3>1 DEF Map!Asked
  <2>2. CASE r.op \in {"get", "delete"}
    <3>1. MapCall(r) =
            [op |-> r.op, name |-> r.name, body |-> None, outcome |-> "failed"]
      BY <1>1, <1>2, <2>2, CallOf
    <3> QED BY <1>1, <2>2, <3>1 DEF Map!Asked
  <2> QED BY <1>1, <2>1, <2>2
<1>4. MapCall(req[p]) = Map!NoCall
  BY IdleCall
<1> QED BY <1>1, <1>2, <1>3, <1>4, QuietRefines DEF Moves

(* A call on a name, which the bucket's absence or the store may refuse.   *)
LEMMA CallRefines ==
  ASSUME Sound, UNCHANGED objects, NEW p \in Proc, req[p] = Idle,
         NEW s \in Request, s.code = "none", s.name \in Name,
         NEW b, NEW pc, EnterUnless(p, s, BucketRefusal(b), pc),
         \/ s.op = "put" /\ s.body \in MapBody /\ pc = "create"
         \/ s.op = "delete" /\ pc = "commit"
         \/ s.op = "get" /\ pc = "row"
  PROVE  Refines
<1>1. \/ Enter(p, s, pc)
      \/ \E code \in {"bucket_not_found", "internal"} : Refuse(p, s, code)
  BY DEF EnterUnless, BucketRefusal, StoreErrors
<1> QED BY <1>1, InvokeRefines, RefusedRefines

(* A request that the map does not show arrives.                           *)
LEMMA HiddenArrives ==
  ASSUME Sound, UNCHANGED objects, NEW p \in Proc, req[p] = Idle,
         NEW s \in Request, s.code = "none",
         s.op \notin {"put", "complete", "delete", "get"},
         NEW refusals, refusals \subseteq Refusals,
         NEW pc, pc \notin {"remove", "reply"}, EnterUnless(p, s, refusals, pc)
  PROVE  Refines
BY EnterOrRefuse, EnterHiddenRefines, RefuseRefines DEF Refusals

----------------------------------------------------------------------------
(* The handlers.                                                           *)

LEMMA BodyInMap ==
  ASSUME NEW b \in Seq(Byte), Len(b) <= FileLen PROVE b \in MapBody
<1>1. b \in [1..Len(b) -> Byte] /\ Len(b) \in 0..FileLen
  BY FileLenType
<1> QED BY <1>1 DEF MapBody

LEMMA PutObjectRefines ==
  ASSUME Sound, NEW p \in Proc, putObject(p)
  PROVE  Refines
<1> USE DEF metaVars, At
<1>0. req[p] \in Request /\ Shape(req[p]) /\ Settled(req[p])
  BY RequestFacts DEF Sound, Inv, Decided
<1>1. CASE PutObjectBegin(p)
  <2> DEFINE R(n, body, want) ==
        [Idle EXCEPT !.op = "put", !.bucket = n[1], !.name = n, !.body = body,
                     !.want = want]
  <2>1. PICK n \in Name, body \in PutBodies :
          \E want \in Declared(body, PutBodies) :
            EnterUnless(p, R(n, body, want), BucketRefusal(n[1]), "create")
    BY <1>1 DEF PutObjectBegin
  <2>2. PICK want \in Declared(body, PutBodies) :
          EnterUnless(p, R(n, body, want), BucketRefusal(n[1]), "create")
    BY <2>1
  <2>3. /\ body \in Seq(Data) /\ want \in Seq(Data) /\ n[1] \in Bucket
        /\ body \in MapBody
    BY BodyTypes, BodyAssumption, BodyInMap DEF Declared, Name
  <2>4. PICK s : s = R(n, body, want)
    OBVIOUS
  <2>5. /\ s \in Request /\ s.op = "put" /\ s.name = n /\ s.body = body
        /\ s.code = "none"
    BY <2>3, <2>4, IdleTyping DEF Request, AllOps, Idle
  <2>6. EnterUnless(p, s, BucketRefusal(n[1]), "create")
    BY <2>2, <2>4
  <2>7. req[p] = Idle /\ UNCHANGED objects
    BY <1>1 DEF PutObjectBegin, Accepts
  <2> HIDE DEF R
  <2> QED BY <2>3, <2>5, <2>6, <2>7, CallRefines
<1>2. CASE PutObjectCreate(p)
  BY <1>2, CreateBlobRefines DEF PutObjectCreate
<1>3. CASE PutObjectWrite(p)
  BY <1>3, GotoRefines DEF PutObjectWrite
<1>4. CASE PutObjectShort(p) \/ PutObjectSyncFails(p)
  BY <1>4, GiveUpRefines DEF PutObjectShort, PutObjectSyncFails
<1>5. CASE PutObjectSync(p)
  BY <1>5, GotoRefines, GiveUpRefines DEF PutObjectSync
<1>6. CASE PutObjectCommit(p)
  <2> DEFINE n == req[p].name
             old == objects[n].blob
             row == [blob |-> req[p].blob, sum |-> req[p].body]
  <2>1. PICK r : r = [req[p] EXCEPT !.pc = IF old = None THEN "reply" ELSE "remove",
                                    !.blob = old, !.code = "ok"]
    OBVIOUS
  <2>2. /\ req' = [req EXCEPT ![p] = r] /\ objects' = [objects EXCEPT ![n] = row]
        /\ req[p].op = "put" /\ req[p].pc = "commit" /\ n \in Name
        /\ req[p].blob \in BlobId
    BY <1>0, <1>6, <2>1 DEF PutObjectCommit, PutObject, RemoveThenAnswer, Shape
  <2>3. /\ r.op = "put" /\ r.pc \in {"reply", "remove"} /\ r.code = "ok"
        /\ r.name = n /\ r.body = req[p].body
    BY <1>0, <2>1, <2>2 DEF Request
  <2>4. Settled(r) /\ req[p].code = "none" /\ row.blob # None
    BY <1>0, <2>2, <2>3, NoneAssumption DEF Settled
  <2>5. /\ MapCall(req[p]) = [op |-> "put", name |-> n, body |-> req[p].body,
                              outcome |-> "none"]
        /\ MapCall(r) = [op |-> "put", name |-> n, body |-> req[p].body,
                         outcome |-> "ok"]
    BY <1>0, <2>2, <2>3, <2>4, CallOf, Outcomes
  <2>6. row.sum = req[p].body
    OBVIOUS
  <2> HIDE DEF row
  <2> DEFINE c == MapCall(req[p])
  <2> HIDE DEF n
  <2>7. /\ MapCall(r) = [c EXCEPT !.outcome = "ok"]
        /\ c.op = "put" /\ c.name = n /\ c.outcome = "none" /\ c.body = req[p].body
    BY <2>5
  <2>8. objects' = [objects EXCEPT ![c.name] = row] /\ c.name \in Name /\ row.sum = c.body
    BY <2>2, <2>6, <2>7
  <2> QED BY <2>2, <2>4, <2>7, <2>8, PutRefines
<1>7. CASE PutObjectCommitFails(p)
  BY <1>7, AnswerRefines DEF PutObjectCommitFails
<1> QED BY <1>1, <1>2, <1>3, <1>4, <1>5, <1>6, <1>7 DEF putObject

LEMMA GetObjectRefines ==
  ASSUME Sound, NEW p \in Proc, getObject(p)
  PROVE  Refines
<1> USE DEF metaVars, At
<1>0. /\ req[p] \in Request /\ Shape(req[p]) /\ Settled(req[p])
      /\ ReadReady(req[p])
  BY RequestFacts DEF Sound, Inv, Decided, FileInv, HandlersReady, Ready
<1>1. CASE GetObjectBegin(p)
  <2> DEFINE R(n) == [Idle EXCEPT !.op = "get", !.bucket = n[1], !.name = n]
  <2>1. PICK n \in Name : EnterUnless(p, R(n), BucketRefusal(n[1]), "row")
    BY <1>1 DEF GetObjectBegin
  <2>2. n[1] \in Bucket
    BY DEF Name
  <2>3. PICK s : s = R(n)
    OBVIOUS
  <2>4. s \in Request /\ s.op = "get" /\ s.name = n /\ s.code = "none"
    BY <2>2, <2>3, IdleTyping DEF Request, AllOps, Idle
  <2>5. EnterUnless(p, s, BucketRefusal(n[1]), "row")
    BY <2>1, <2>3
  <2>6. req[p] = Idle /\ UNCHANGED objects
    BY <1>1 DEF GetObjectBegin, Accepts
  <2> HIDE DEF R
  <2> QED BY <2>4, <2>5, <2>6, CallRefines
<1>2. CASE GetObjectRow(p)
  <2> DEFINE n == req[p].name
             row == objects[n]
  <2>1. /\ req[p].op = "get" /\ req[p].pc = "row" /\ n \in Name
        /\ UNCHANGED objects
    BY <1>0, <1>2 DEF GetObjectRow, Shape
  <2>2. MapCall(req[p]) = [op |-> "get", name |-> n, body |-> None, outcome |-> "none"]
    BY <1>0, <2>1, CallOf
  <2>3. CASE row.blob = None /\ Answer(p, "object_not_found")
    <3>1. PICK r : r = [req[p] EXCEPT !.pc = "reply", !.code = "object_not_found"]
      OBVIOUS
    <3>2. /\ req' = [req EXCEPT ![p] = r] /\ r.op = "get" /\ r.pc = "reply"
          /\ r.code = "object_not_found" /\ r.name = n
      BY <1>0, <2>1, <2>3, <3>1 DEF Request, Answer
    <3>3. Settled(r)
      BY <3>2 DEF Settled
    <3>4. MapCall(r) = [op |-> "get", name |-> n, body |-> None, outcome |-> "absent"]
      BY <3>2, <3>3, CallOf, Outcomes
    <3>5. Moves(MapCall(req[p]), MapCall(r))
      BY <2>1, <2>2, <2>3, <3>4 DEF Moves
    <3> QED BY <2>1, <3>2, <3>3, <3>5, QuietRefines
  <2>4. CASE /\ row.blob # None
             /\ req' = [req EXCEPT ![p].pc = "open", ![p].blob = row.blob,
                                   ![p].want = row.sum]
    <3>1. PICK r : r = [req[p] EXCEPT !.pc = "open", !.blob = row.blob,
                                      !.want = row.sum]
      OBVIOUS
    <3>2. /\ req' = [req EXCEPT ![p] = r] /\ r.op = "get" /\ r.pc = "open"
          /\ r.code = req[p].code /\ r.name = n /\ r.want = row.sum
      BY <1>0, <2>1, <2>4, <3>1 DEF Request
    <3>3. Settled(r)
      BY <1>0, <2>1, <3>2 DEF Settled
    <3>4. MapCall(r) = [op |-> "get", name |-> n, body |-> row.sum, outcome |-> "ok"]
      BY <3>2, <3>3, CallOf
    <3>5. Moves(MapCall(req[p]), MapCall(r))
      <4>0. PICK c : c = MapCall(req[p])
        OBVIOUS
      <4>1. PICK d : d = [c EXCEPT !.outcome = "ok", !.body = row.sum]
        OBVIOUS
      <4>2. /\ d = [i \in {"op", "name", "body", "outcome"} |-> d[i]]
            /\ d.op = "get" /\ d.name = n /\ d.body = row.sum /\ d.outcome = "ok"
        <5>1. PICK name, body, outcome :
                c = [op |-> "get", name |-> name, body |-> body, outcome |-> outcome]
                /\ name = n
          BY <2>2, <4>0
        <5>2. d = [i \in {"op", "name", "body", "outcome"} |-> d[i]]
          BY <5>1, <4>1
        <5> QED BY <5>1, <5>2, <4>1
      <4>3. d = MapCall(r)
        BY <3>4, <4>2
      <4>4. c.op = "get" /\ c.name = n /\ c.outcome = "none"
        BY <2>2, <4>0
      <4>5. Moves(c, d)
        BY <2>1, <2>4, <4>1, <4>4 DEF Moves
      <4> QED BY <4>0, <4>3, <4>5
    <3> QED BY <2>1, <3>2, <3>3, <3>5, QuietRefines
  <2>5. CASE Answer(p, "internal")
    <3>1. PICK r : r = [req[p] EXCEPT !.pc = "reply", !.code = "internal"]
      OBVIOUS
    <3>2. /\ req' = [req EXCEPT ![p] = r] /\ r.op = "get" /\ r.pc = "reply"
          /\ r.code = "internal" /\ r.name = n
      BY <1>0, <2>1, <2>5, <3>1 DEF Request, Answer
    <3>3. Settled(r)
      BY <3>2 DEF Settled
    <3>4. MapCall(r) = [op |-> "get", name |-> n, body |-> None, outcome |-> "failed"]
      BY <3>2, <3>3, CallOf, Outcomes
    <3>5. Moves(MapCall(req[p]), MapCall(r))
      BY <2>2, <3>4 DEF Moves
    <3> QED BY <2>1, <3>2, <3>3, <3>5, QuietRefines
  <2> QED BY <1>2, <2>3, <2>4, <2>5 DEF GetObjectRow, StoreErrors
<1>3. CASE GetObjectOpen(p) \/ GetObjectServe(p) \/ GetObjectServed(p)
  <2> DEFINE n == req[p].name
  <2>1. /\ req[p].op = "get" /\ req[p].pc \in {"open", "serve"}
        /\ UNCHANGED objects
    BY <1>3 DEF GetObjectOpen, GetObjectServe, GetObjectServed
  <2>2. MapCall(req[p]) = [op |-> "get", name |-> n, body |-> req[p].want,
                           outcome |-> "ok"]
    BY <1>0, <2>1, CallOf
  <2>3. CASE \/ \E size : req' = [req EXCEPT ![p].pc = "serve", ![p].size = size]
             \/ GetObjectServe(p)
    <3>1. PICK r : /\ req' = [req EXCEPT ![p] = r]
                   /\ \/ \E size : r = [req[p] EXCEPT !.pc = "serve", !.size = size]
                      \/ /\ req[p].pc = "serve"
                         /\ \E body : r = [req[p] EXCEPT !.body = body]
      <4>1. CASE \E size : req' = [req EXCEPT ![p].pc = "serve", ![p].size = size]
        <5>1. PICK size : req' = [req EXCEPT ![p].pc = "serve", ![p].size = size]
          BY <4>1
        <5>2. req' = [req EXCEPT ![p] = [req[p] EXCEPT !.pc = "serve", !.size = size]]
          BY <5>1
        <5> QED BY <5>2
      <4>2. CASE GetObjectServe(p)
        <5>1. PICK body : /\ req[p].pc = "serve"
                          /\ req' = [req EXCEPT ![p].body = body]
          BY <4>2 DEF GetObjectServe
        <5>2. req' = [req EXCEPT ![p] = [req[p] EXCEPT !.body = body]]
          BY <5>1
        <5> QED BY <5>1, <5>2
      <4> QED BY <2>3, <4>1, <4>2
    <3>2. /\ req' = [req EXCEPT ![p] = r] /\ r.op = "get" /\ r.pc = "serve"
          /\ r.code = req[p].code /\ r.name = n /\ r.want = req[p].want
      BY <1>0, <2>1, <3>1 DEF Request
    <3>3. Settled(r)
      BY <1>0, <2>1, <3>2 DEF Settled
    <3>4. MapCall(r) = MapCall(req[p])
      BY <2>2, <3>2, <3>3, CallOf
    <3> QED BY <2>1, <3>2, <3>3, <3>4, QuietRefines DEF Moves
  <2>4. CASE Answer(p, "internal")
    <3>1. PICK r : r = [req[p] EXCEPT !.pc = "reply", !.code = "internal"]
      OBVIOUS
    <3>2. /\ req' = [req EXCEPT ![p] = r] /\ r.op = "get" /\ r.pc = "reply"
          /\ r.code = "internal" /\ r.name = n
      BY <1>0, <2>1, <2>4, <3>1 DEF Request, Answer
    <3>3. Settled(r)
      BY <3>2 DEF Settled
    <3>4. MapCall(r) = [op |-> "get", name |-> n, body |-> None, outcome |-> "failed"]
      BY <3>2, <3>3, CallOf, Outcomes
    <3>5. Moves(MapCall(req[p]), MapCall(r))
      <4>0. PICK c : c = MapCall(req[p])
        OBVIOUS
      <4>1. PICK d : d = [c EXCEPT !.outcome = "failed", !.body = None]
        OBVIOUS
      <4>2. /\ d = [i \in {"op", "name", "body", "outcome"} |-> d[i]]
            /\ d.op = "get" /\ d.name = n /\ d.body = None /\ d.outcome = "failed"
        <5>1. PICK name, body, outcome :
                c = [op |-> "get", name |-> name, body |-> body, outcome |-> outcome]
                /\ name = n
          BY <2>2, <4>0
        <5>2. d = [i \in {"op", "name", "body", "outcome"} |-> d[i]]
          BY <5>1, <4>1
        <5> QED BY <5>1, <5>2, <4>1
      <4>3. d = MapCall(r)
        BY <3>4, <4>2
      <4>4. c.op = "get" /\ c.outcome = "ok"
        BY <2>2, <4>0
      <4>5. Moves(c, d)
        BY <4>1, <4>4 DEF Moves
      <4> QED BY <4>0, <4>3, <4>5
    <3> QED BY <2>1, <3>2, <3>3, <3>5, QuietRefines
  <2>5. CASE GetObjectServed(p)
    <3>0. /\ req[p].body \in Seq(Data) /\ req[p].want \in Seq(Data)
          /\ Len(req[p].body) = Len(req[p].want)
          /\ \A i \in 1..Len(req[p].body) : req[p].body[i] = req[p].want[i]
      BY <1>0, <2>1, <2>5 DEF ReadReady, GetObjectServed, Request
    <3>1. req[p].body = req[p].want
      BY <3>0
    <3>2. PICK r : r = [req[p] EXCEPT !.pc = "reply", !.code = "ok"]
      OBVIOUS
    <3>3. /\ req' = [req EXCEPT ![p] = r] /\ r.op = "get" /\ r.pc = "reply"
          /\ r.code = "ok" /\ r.name = n /\ r.body = req[p].want
      BY <1>0, <2>1, <2>5, <3>1, <3>2 DEF Request, GetObjectServed, Answer
    <3>4. Settled(r)
      BY <3>3 DEF Settled
    <3>5. MapCall(r) = MapCall(req[p])
      BY <2>2, <3>3, <3>4, CallOf
    <3> QED BY <2>1, <3>3, <3>4, <3>5, QuietRefines DEF Moves
  <2> QED BY <1>3, <2>3, <2>4, <2>5 DEF GetObjectOpen
<1> QED BY <1>1, <1>2, <1>3 DEF getObject

LEMMA DeleteObjectRefines ==
  ASSUME Sound, NEW p \in Proc, deleteObject(p)
  PROVE  Refines
<1> USE DEF metaVars, At
<1>0. req[p] \in Request /\ Shape(req[p]) /\ Settled(req[p])
  BY RequestFacts DEF Sound, Inv, Decided
<1>1. CASE DeleteObjectBegin(p)
  <2> DEFINE R(n) == [Idle EXCEPT !.op = "delete", !.bucket = n[1], !.name = n]
  <2>1. PICK n \in Name : EnterUnless(p, R(n), BucketRefusal(n[1]), "commit")
    BY <1>1 DEF DeleteObjectBegin
  <2>2. n[1] \in Bucket
    BY DEF Name
  <2>3. PICK s : s = R(n)
    OBVIOUS
  <2>4. s \in Request /\ s.op = "delete" /\ s.name = n /\ s.code = "none"
    BY <2>2, <2>3, IdleTyping DEF Request, AllOps, Idle
  <2>5. EnterUnless(p, s, BucketRefusal(n[1]), "commit")
    BY <2>1, <2>3
  <2>6. req[p] = Idle /\ UNCHANGED objects
    BY <1>1 DEF DeleteObjectBegin, Accepts
  <2> HIDE DEF R
  <2> QED BY <2>4, <2>5, <2>6, CallRefines
<1>2. CASE DeleteObjectCommit(p)
  <2> DEFINE n == req[p].name
             old == objects[n].blob
  <2>1. /\ req[p].op = "delete" /\ req[p].pc = "commit" /\ n \in Name
    BY <1>0, <1>2 DEF DeleteObjectCommit, Shape
  <2>2. MapCall(req[p]) = [op |-> "delete", name |-> n, body |-> None,
                           outcome |-> "none"]
    BY <1>0, <2>1, CallOf, Outcomes DEF Settled
  <2>3. CASE old = None /\ Answer(p, "object_not_found") /\ UNCHANGED metaVars
    <3>1. PICK r : r = [req[p] EXCEPT !.pc = "reply", !.code = "object_not_found"]
      OBVIOUS
    <3>2. /\ req' = [req EXCEPT ![p] = r] /\ r.op = "delete" /\ r.pc = "reply"
          /\ r.code = "object_not_found" /\ r.name = n
      BY <1>0, <2>1, <2>3, <3>1 DEF Request, Answer
    <3>3. Settled(r)
      BY <3>2 DEF Settled
    <3>4. MapCall(r) = [op |-> "delete", name |-> n, body |-> None,
                        outcome |-> "absent"]
      BY <3>2, <3>3, CallOf, Outcomes
    <3>5. Moves(MapCall(req[p]), MapCall(r))
      BY <2>1, <2>2, <2>3, <3>4 DEF Moves
    <3> QED BY <2>3, <3>2, <3>3, <3>5, QuietRefines
  <2>4. CASE old # None /\ DeleteObject(n) /\ RemoveThenAnswer(p, old, "ok")
    <3>1. PICK r : r = [req[p] EXCEPT !.pc = IF old = None THEN "reply" ELSE "remove",
                                      !.blob = old, !.code = "ok"]
      OBVIOUS
    <3>2. /\ req' = [req EXCEPT ![p] = r] /\ r.op = "delete"
          /\ r.pc \in {"reply", "remove"} /\ r.code = "ok" /\ r.name = n
      BY <1>0, <2>1, <2>4, <3>1 DEF Request, RemoveThenAnswer
    <3>3. Settled(r)
      BY <3>2 DEF Settled
    <3>4. MapCall(r) = [op |-> "delete", name |-> n, body |-> None, outcome |-> "ok"]
      BY <3>2, <3>3, CallOf, Outcomes
    <3>5. objects' = [objects EXCEPT ![n] = NoObject]
      BY <2>4 DEF DeleteObject
    <3> DEFINE c == MapCall(req[p])
    <3>6. /\ MapCall(r) = [c EXCEPT !.outcome = "ok"]
          /\ c.op = "delete" /\ c.name = n /\ c.outcome = "none"
      BY <2>2, <3>4
    <3>7. c.name \in Name /\ objects[c.name].blob # None
      BY <2>1, <2>4, <3>6
    <3>8. objects' = [objects EXCEPT ![c.name] = NoObject]
      BY <3>5, <3>6
    <3> QED BY <3>2, <3>3, <3>6, <3>7, <3>8, DeleteRefines
  <2>5. CASE Answer(p, "internal") /\ UNCHANGED metaVars
    BY <2>1, <2>5, AnswerRefines
  <2> QED BY <1>2, <2>3, <2>4, <2>5 DEF DeleteObjectCommit
<1> QED BY <1>1, <1>2 DEF deleteObject

(* The checksum that a session folds to is a body.                         *)
LEMMA FoldInMap ==
  ASSUME Inv, FileInv, NEW u \in UploadId, Active(u),
         NEW count \in CompleteCounts[u], NEW supplied,
         PartsRefusal(uploads[u].parts, count, supplied) = {}
  PROVE  Fold(uploads[u].parts, count) \in MapBody
<1> DEFINE parts == uploads[u].parts
<1>1. count \in 1..MaxParts /\ count \in Nat
  BY BodyAssumption, SizeAssumption
<1>2. uploads[u] \in UploadRow /\ SessionShape(uploads[u])
  BY DEF Inv, Typing, MetaTyping, MetaTypeOK
<1>3. /\ parts \in [1..MaxParts -> Seq(Data)]
      /\ \A n \in 1..MaxParts : Len(parts[n]) <= PartSize
  BY <1>2 DEF UploadRow, SessionShape
<1>4. \A n \in 1..MaxParts : parts[n] \in Seq(Byte)
  <2>1. \A n \in 1..MaxParts : parts[n] = << >> \/ parts[n] \in PartBodies[u][n]
    BY DEF FileInv, SessionsSteady
  <2>2. << >> \in Seq(Byte)
    OBVIOUS
  <2>3. \A n \in 1..MaxParts : PartBodies[u][n] \subseteq Seq(Byte)
    BY BodyAssumption
  <2> QED BY <2>1, <2>2, <2>3
<1>5. parts \in [1..MaxParts -> Seq(Byte)]
  BY <1>3, <1>4
<1>6. Fold(parts, count) \in Seq(Byte)
  BY <1>1, <1>3, <1>5, FoldType
<1>7. Len(Fold(parts, count)) <= FileLen
  <2> DEFINE j == Len(parts[count])
  <2>1. j \in 1..PartSize
    <3>1. parts[count] # << >> /\ parts[count] \in Seq(Byte)
      BY <1>1, <1>4 DEF PartsRefusal
    <3>2. j \in Nat /\ j <= PartSize /\ j # 0
      BY <1>1, <1>3, <3>1
    <3> QED BY <3>2, SizeAssumption
  <2>2. PartOffset(count) + j \in 1..FileLen
    BY <1>1, <2>1, PartCell
  <2>3. (count - 1) * PartSize + j \in Nat /\ (count - 1) * PartSize + j <= FileLen
    BY <2>2, FileLenType DEF PartOffset
  <2>4. Len(Fold(parts, count)) = (count - 1) * PartSize + j
    <3>1. DOMAIN Fold(parts, count) = 1..((count - 1) * PartSize + j)
      BY DEF Fold
    <3>2. PICK f, k : f = Fold(parts, count) /\ k = (count - 1) * PartSize + j
      OBVIOUS
    <3>3. f \in Seq(Byte) /\ DOMAIN f = 1..k /\ k \in Nat
      BY <1>6, <2>3, <3>1, <3>2
    <3>4. Len(f) = k
      BY <3>3
    <3> QED BY <3>2, <3>4
  <2> QED BY <2>3, <2>4
<1> QED BY <1>6, <1>7, BodyInMap

LEMMA CompleteUploadRefines ==
  ASSUME Sound, NEW p \in Proc, completeUpload(p)
  PROVE  Refines
<1> USE DEF metaVars, At
<1>0. req[p] \in Request /\ Shape(req[p]) /\ Settled(req[p])
  BY RequestFacts DEF Sound, Inv, Decided
<1>1. CASE CompleteUploadBegin(p)
  <2> DEFINE R(u) == [Idle EXCEPT !.op = "complete", !.upload = u]
             S(u, count) ==
               [R(u) EXCEPT !.bucket = uploads[u].name[1],
                            !.name = uploads[u].name,
                            !.blob = uploads[u].blob,
                            !.want = Fold(uploads[u].parts, count)]
             Refusal(u, count, supplied) ==
               IF LookupRefusal(u) # {} THEN LookupRefusal(u)
               ELSE PartsRefusal(uploads[u].parts, count, supplied)
  <2>0. PICK u \in UploadId : \E count \in CompleteCounts[u] :
          \E supplied \in Supplied(u, count) :
            \/ /\ Refusal(u, count, supplied) = {}
               /\ Enter(p, S(u, count), "commit")
            \/ \E code \in Refusal(u, count, supplied) \cup StoreErrors :
                 Refuse(p, R(u), code)
    BY <1>1 DEF CompleteUploadBegin
  <2>1. PICK count \in CompleteCounts[u] :
          \E supplied \in Supplied(u, count) :
            \/ /\ Refusal(u, count, supplied) = {}
               /\ Enter(p, S(u, count), "commit")
            \/ \E code \in Refusal(u, count, supplied) \cup StoreErrors :
                 Refuse(p, R(u), code)
    BY <2>0
  <2>2. PICK supplied \in Supplied(u, count) :
            \/ /\ Refusal(u, count, supplied) = {}
               /\ Enter(p, S(u, count), "commit")
            \/ \E code \in Refusal(u, count, supplied) \cup StoreErrors :
                 Refuse(p, R(u), code)
    BY <2>1
  <2>3. "none" \notin Refusal(u, count, supplied) \cup StoreErrors
    BY DEF LookupRefusal, PartsRefusal, StoreErrors
  <2>4. req[p] = Idle /\ UNCHANGED objects
    BY <1>1 DEF CompleteUploadBegin, Accepts
  <2>5. PICK s : s = R(u)
    OBVIOUS
  <2>6. s \in Request /\ s.op = "complete" /\ s.name = None
    BY <2>5, IdleTyping DEF Request, AllOps, Idle
  <2>7. CASE Refusal(u, count, supplied) = {} /\ Enter(p, S(u, count), "commit")
    <3>1. Active(u) /\ PartsRefusal(uploads[u].parts, count, supplied) = {}
      BY <2>7 DEF LookupRefusal
    <3>2. Fold(uploads[u].parts, count) \in MapBody
      BY <3>1, FoldInMap DEF Sound
    <3>3. PICK t : t = S(u, count)
      OBVIOUS
    <3>4. t.op = "complete" /\ t.name = uploads[u].name /\ t.code = "none"
          /\ t.want = Fold(uploads[u].parts, count)
      BY <3>3 DEF Idle
    <3>5. t \in Request /\ t.name \in Name
      <4>1. uploads[u].name \in Name /\ uploads[u].blob \in BlobId
        BY <3>1 DEF Sound, Inv, Typing, MetaTyping, SessionShape, Active
      <4>2. Fold(uploads[u].parts, count) \in Seq(Data)
        BY <3>1, SessionFacts, FoldType, BodyAssumption DEF Sound, Inv, SessionShape
      <4>3. uploads[u].name[1] \in Bucket
        BY <4>1 DEF Name
      <4> QED BY <3>3, <3>4, <4>1, <4>2, <4>3, IdleTyping DEF Request, AllOps, Idle
    <3>6. Enter(p, t, "commit")
      BY <2>7, <3>3
    <3> HIDE DEF R, S, Refusal
    <3> QED BY <2>4, <3>2, <3>4, <3>5, <3>6, InvokeRefines
  <2>8. CASE \E code \in Refusal(u, count, supplied) \cup StoreErrors :
               Refuse(p, R(u), code)
    <3>1. PICK code : code # "none" /\ Refuse(p, s, code)
      BY <2>3, <2>5, <2>8
    <3> HIDE DEF R, S, Refusal
    <3> QED BY <2>4, <2>6, <3>1, RefuseRefines
  <2> QED BY <2>2, <2>7, <2>8
<1>2. CASE CompleteUploadCommit(p)
  <2> DEFINE u == req[p].upload
             n == req[p].name
             old == objects[n].blob
             row == [blob |-> req[p].blob, sum |-> req[p].want]
  <2>1. /\ req[p].op = "complete" /\ req[p].pc = "commit" /\ n \in Name
        /\ req[p].blob \in BlobId
    BY <1>0, <1>2 DEF CompleteUploadCommit, Shape
  <2>2. CASE CompleteUpload(u, n, row) /\ RemoveThenAnswer(p, old, "ok")
    <3>1. PICK r : r = [req[p] EXCEPT !.pc = IF old = None THEN "reply" ELSE "remove",
                                      !.blob = old, !.code = "ok"]
      OBVIOUS
    <3>2. /\ req' = [req EXCEPT ![p] = r] /\ objects' = [objects EXCEPT ![n] = row]
      BY <2>2, <3>1 DEF CompleteUpload, RemoveThenAnswer
    <3>3. /\ r.op = "complete" /\ r.pc \in {"reply", "remove"} /\ r.code = "ok"
          /\ r.name = n /\ r.want = req[p].want
      BY <1>0, <2>1, <3>1 DEF Request
    <3>4. /\ Settled(r) /\ req[p].code = "none" /\ n # None
          /\ row.blob # None /\ row.sum = req[p].want
      BY <1>0, <2>1, <3>3, NoneAssumption DEF Settled, Name
    <3>5. /\ MapCall(req[p]) = [op |-> "put", name |-> n, body |-> req[p].want,
                                outcome |-> "none"]
          /\ MapCall(r) = [op |-> "put", name |-> n, body |-> req[p].want,
                           outcome |-> "ok"]
      BY <1>0, <2>1, <3>3, <3>4, CallOf, Outcomes
    <3> DEFINE c == MapCall(req[p])
    <3> HIDE DEF n, row
    <3>6. /\ MapCall(r) = [c EXCEPT !.outcome = "ok"]
          /\ c.op = "put" /\ c.name = n /\ c.outcome = "none"
          /\ c.body = req[p].want
      BY <3>5
    <3>7. /\ objects' = [objects EXCEPT ![c.name] = row]
          /\ c.name \in Name /\ row.sum = c.body
      BY <2>1, <3>2, <3>4, <3>6
    <3> QED BY <3>2, <3>4, <3>6, <3>7, PutRefines
  <2>3. CASE Answer(p, "upload_not_found") /\ UNCHANGED metaVars
    BY <2>1, <2>3, AnswerRefines
  <2>4. CASE Answer(p, "internal") /\ UNCHANGED metaVars
    BY <2>1, <2>4, AnswerRefines
  <2> QED BY <1>2, <2>2, <2>3, <2>4 DEF CompleteUploadCommit
<1> QED BY <1>1, <1>2 DEF completeUpload

LEMMA BucketsRefine ==
  ASSUME Sound, NEW p \in Proc, createBucket(p) \/ deleteBucket(p)
  PROVE  Refines
<1> USE DEF metaVars, At
<1>1. CASE createBucket(p)
  <2> DEFINE R(b) == [Idle EXCEPT !.op = "createBucket", !.bucket = b]
  <2>1. PICK b \in Bucket, code \in {"ok", "bucket_exists", "internal"} :
          Refuse(p, R(b), code)
    BY <1>1 DEF createBucket, StoreErrors
  <2>2. req[p] = Idle /\ UNCHANGED objects
    BY <1>1 DEF createBucket, CreateBucket, Accepts
  <2>3. PICK s : s = R(b)
    OBVIOUS
  <2>4. s \in Request /\ s.op = "createBucket"
    BY <2>3, IdleTyping DEF Request, AllOps, Idle
  <2>5. Refuse(p, s, code) /\ code # "none"
    BY <2>1, <2>3
  <2> HIDE DEF R
  <2> QED BY <2>2, <2>4, <2>5, RefuseRefines
<1>2. CASE DeleteBucketBegin(p)
  <2> DEFINE R(b) == [Idle EXCEPT !.op = "deleteBucket", !.bucket = b]
  <2>1. PICK b \in Bucket, refusals \in SUBSET {"bucket_not_empty"} :
          EnterUnless(p, R(b), refusals, "count")
    BY <1>2 DEF DeleteBucketBegin
  <2>2. req[p] = Idle /\ UNCHANGED objects
    BY <1>2 DEF DeleteBucketBegin, Accepts
  <2>3. PICK s : s = R(b)
    OBVIOUS
  <2>4. s \in Request /\ s.op = "deleteBucket" /\ s.code = "none"
    BY <2>3, IdleTyping DEF Request, AllOps, Idle
  <2>5. EnterUnless(p, s, refusals, "count") /\ refusals \subseteq Refusals
    BY <2>1, <2>3 DEF Refusals, Code
  <2> HIDE DEF R
  <2> QED BY <2>2, <2>4, <2>5, HiddenArrives
<1>3. CASE DeleteBucketCount(p)
  <2>1. req[p].op = "deleteBucket" /\ req[p].pc = "count" /\ UNCHANGED objects
    BY <1>3 DEF DeleteBucketCount
  <2>2. \/ Goto(p, "commit")
        \/ \E code \in {"bucket_not_empty", "internal"} : Answer(p, code)
    BY <1>3 DEF DeleteBucketCount, StoreErrors
  <2> QED BY <2>1, <2>2, AnswerRefines, GotoRefines
<1>4. CASE DeleteBucketCommit(p)
  <2>1. req[p].op = "deleteBucket" /\ req[p].pc = "commit" /\ UNCHANGED objects
    BY <1>4 DEF DeleteBucketCommit, DeleteBucket
  <2>2. PICK code \in {"ok", "bucket_not_found", "internal"} : Answer(p, code)
    BY <1>4 DEF DeleteBucketCommit
  <2> QED BY <2>1, <2>2, AnswerRefines
<1> QED BY <1>1, <1>2, <1>3, <1>4 DEF deleteBucket

LEMMA CreateUploadRefines ==
  ASSUME Sound, NEW p \in Proc, createUpload(p)
  PROVE  Refines
<1> USE DEF metaVars, At
<1>1. CASE CreateUploadBegin(p)
  <2> DEFINE R(n) == [Idle EXCEPT !.op = "createUpload", !.bucket = n[1], !.name = n]
  <2>1. PICK n \in Name : EnterUnless(p, R(n), BucketRefusal(n[1]), "create")
    BY <1>1 DEF CreateUploadBegin
  <2>2. req[p] = Idle /\ UNCHANGED objects
    BY <1>1 DEF CreateUploadBegin, Accepts
  <2>3. PICK s : s = R(n)
    OBVIOUS
  <2>4. n[1] \in Bucket
    BY DEF Name
  <2>5. s \in Request /\ s.op = "createUpload" /\ s.code = "none"
    BY <2>3, <2>4, IdleTyping DEF Request, AllOps, Idle
  <2>6. EnterUnless(p, s, BucketRefusal(n[1]), "create")
    BY <2>1, <2>3
  <2> HIDE DEF R
  <2> QED BY <2>2, <2>5, <2>6, BucketRefusals, HiddenArrives
<1>2. CASE CreateUploadCreate(p)
  BY <1>2, CreateBlobRefines DEF CreateUploadCreate
<1>3. CASE CreateUploadCommit(p)
  <2>1. req[p].op = "createUpload" /\ req[p].pc = "commit" /\ UNCHANGED objects
    BY <1>3 DEF CreateUploadCommit, CreateUpload
  <2>2. Answer(p, "ok") \/ RemoveThenAnswer(p, req[p].blob, "internal")
    BY <1>3 DEF CreateUploadCommit
  <2> QED BY <2>1, <2>2, AnswerRefines, GiveUpRefines
<1> QED BY <1>1, <1>2, <1>3 DEF createUpload

LEMMA PutUploadPartRefines ==
  ASSUME Sound, NEW p \in Proc, putUploadPart(p)
  PROVE  Refines
<1> USE DEF metaVars, At
<1>0. req[p] \in Request /\ Settled(req[p])
  BY RequestFacts DEF Sound, Inv, Decided
<1>1. CASE PutUploadPartBegin(p)
  <2> DEFINE R(u, n, body, want) ==
        [Idle EXCEPT !.op = "part", !.upload = u, !.part = n, !.body = body,
                     !.want = want, !.blob = uploads[u].blob]
  <2>1. PICK u \in UploadId, n \in 1..MaxParts :
          \E body \in PartBodies[u][n] : \E want \in Declared(body, PartBodies[u][n]) :
            EnterUnless(p, R(u, n, body, want), LookupRefusal(u), "open")
    BY <1>1 DEF PutUploadPartBegin
  <2>2. PICK body \in PartBodies[u][n] :
          \E want \in Declared(body, PartBodies[u][n]) :
            EnterUnless(p, R(u, n, body, want), LookupRefusal(u), "open")
    BY <2>1
  <2>3. PICK want \in Declared(body, PartBodies[u][n]) :
          EnterUnless(p, R(u, n, body, want), LookupRefusal(u), "open")
    BY <2>2
  <2>4. req[p] = Idle /\ UNCHANGED objects
    BY <1>1 DEF PutUploadPartBegin, Accepts
  <2>5. PICK s : s = R(u, n, body, want)
    OBVIOUS
  <2>6. /\ body \in Seq(Data) /\ want \in Seq(Data) /\ n \in 0..MaxParts
        /\ uploads[u].blob \in BlobId \cup {None}
    BY BodyTypes, SessionFacts DEF Sound, Inv, Declared
  <2>7. s \in Request /\ s.op = "part" /\ s.code = "none"
    BY <2>5, <2>6, IdleTyping DEF Request, AllOps, Idle
  <2>8. EnterUnless(p, s, LookupRefusal(u), "open")
    BY <2>3, <2>5
  <2> HIDE DEF R
  <2> QED BY <2>4, <2>7, <2>8, LookupRefusals, HiddenArrives
<1>2. CASE PutUploadPartWrite(p)
  <2>1. PICK r : r = [req[p] EXCEPT !.done = @ + 1]
    OBVIOUS
  <2>2. /\ req' = [req EXCEPT ![p] = r] /\ UNCHANGED objects
        /\ req[p].op = "part" /\ req[p].pc = "write"
    BY <1>2, <2>1 DEF PutUploadPartWrite
  <2>3. /\ r.op = req[p].op /\ r.name = req[p].name /\ r.body = req[p].body
        /\ r.want = req[p].want /\ r.pc = req[p].pc /\ r.code = req[p].code
    BY <1>0, <2>1 DEF Request
  <2>4. Settled(r)
    BY <1>0, <2>3 DEF Settled
  <2> QED BY <2>2, <2>3, <2>4, WorkRefines
<1>3. CASE \/ PutUploadPartOpen(p) \/ PutUploadPartShort(p)
           \/ PutUploadPartVerify(p) \/ PutUploadPartSync(p)
  <2>1. /\ req[p].op = "part" /\ req[p].pc \in {"open", "write", "sync"}
        /\ UNCHANGED objects
    BY <1>3 DEF PutUploadPartOpen, PutUploadPartShort, PutUploadPartVerify,
                PutUploadPartSync
  <2>2. \/ \E pc \in {"write", "sync", "commit"} : Goto(p, pc)
        \/ \E code \in {"internal", "body_length_mismatch", "checksum_mismatch"} :
             Answer(p, code)
    BY <1>3 DEF PutUploadPartOpen, PutUploadPartShort, PutUploadPartVerify,
                PutUploadPartSync
  <2> QED BY <2>1, <2>2, AnswerRefines, GotoRefines
<1>4. CASE PutUploadPartCommit(p)
  <2>1. req[p].op = "part" /\ req[p].pc = "commit" /\ UNCHANGED objects
    BY <1>4 DEF PutUploadPartCommit, PutPart
  <2>2. Answer(p, "ok") \/ Answer(p, "internal")
    BY <1>4 DEF PutUploadPartCommit
  <2> QED BY <2>1, <2>2, AnswerRefines
<1> QED BY <1>1, <1>2, <1>3, <1>4 DEF putUploadPart

LEMMA DeleteUploadRefines ==
  ASSUME Sound, NEW p \in Proc, deleteUpload(p)
  PROVE  Refines
<1> USE DEF metaVars, At
<1>1. CASE DeleteUploadBegin(p)
  <2> DEFINE R(u) == [Idle EXCEPT !.op = "abort", !.upload = u]
  <2>1. PICK u \in UploadId : EnterUnless(p, R(u), LookupRefusal(u), "commit")
    BY <1>1 DEF DeleteUploadBegin
  <2>2. req[p] = Idle /\ UNCHANGED objects
    BY <1>1 DEF DeleteUploadBegin, Accepts
  <2>3. PICK s : s = R(u)
    OBVIOUS
  <2>4. s \in Request /\ s.op = "abort" /\ s.code = "none"
    BY <2>3, IdleTyping DEF Request, AllOps, Idle
  <2>5. EnterUnless(p, s, LookupRefusal(u), "commit")
    BY <2>1, <2>3
  <2> HIDE DEF R
  <2> QED BY <2>2, <2>4, <2>5, LookupRefusals, HiddenArrives
<1>2. CASE DeleteUploadCommit(p)
  <2>1. req[p].op = "abort" /\ req[p].pc = "commit" /\ UNCHANGED objects
    BY <1>2 DEF DeleteUploadCommit, DeleteUpload
  <2>2. \/ RemoveThenAnswer(p, uploads[req[p].upload].blob, "ok")
        \/ Answer(p, "upload_not_found") \/ Answer(p, "internal")
        \/ req' = [req EXCEPT ![p] = Idle]
    BY <1>2 DEF DeleteUploadCommit, Drop
  <2>3. CASE req' = [req EXCEPT ![p] = Idle]
    <3>1. Settled(Idle) /\ Idle.op = "none"
      BY IdleCall DEF Idle
    <3> QED BY <2>1, <2>3, <3>1, HiddenRefines
  <2> QED BY <2>1, <2>2, <2>3, AnswerRefines, GiveUpRefines
<1> QED BY <1>1, <1>2 DEF deleteUpload

LEMMA EndRefines ==
  ASSUME Sound, NEW p \in Proc, RemoveBlob(p) \/ Reply(p)
  PROVE  Refines
<1> USE DEF metaVars
<1>1. Settled(req[p]) /\ ReadReady(req[p]) /\ UNCHANGED objects
  BY DEF Sound, Decided, FileInv, HandlersReady, Ready, RemoveBlob, Reply
<1>2. CASE RemoveBlob(p)
  <2>1. req[p].pc = "remove" /\ Goto(p, "reply")
    BY <1>2 DEF RemoveBlob
  <2>2. req[p].op # "get"
    BY <1>1, <2>1 DEF ReadReady
  <2> QED BY <1>1, <2>1, <2>2, GotoRefines
<1>3. CASE Reply(p)
  <2>1. req[p].pc = "reply" /\ req' = [req EXCEPT ![p] = Idle]
    BY <1>3 DEF Reply, Drop
  <2>2. MapOutcome(req[p].code) # "none"
    <3>1. req[p].code # "none"
      BY <1>1, <2>1 DEF Settled
    <3> QED BY <3>1, Outcomes
  <2>3. MapCall(req[p]) = Map!NoCall \/ MapCall(req[p]).outcome # "none"
    <3>1. \/ MapCall(req[p]) = Map!NoCall
          \/ \E op, body, outcome :
               /\ outcome # "none"
               /\ MapCall(req[p]) = [op |-> op, name |-> req[p].name,
                                     body |-> body, outcome |-> outcome]
      BY <1>1, <2>1, <2>2, CallOf
    <3>2. CASE MapCall(req[p]) # Map!NoCall
      <4>1. PICK op, body, outcome :
               /\ outcome # "none"
               /\ MapCall(req[p]) = [op |-> op, name |-> req[p].name,
                                     body |-> body, outcome |-> outcome]
        BY <3>1, <3>2
      <4>2. MapCall(req[p]).outcome = outcome
        BY <4>1
      <4> QED BY <4>1, <4>2
    <3> QED BY <3>2
  <2>4. Moves(MapCall(req[p]), MapCall(Idle))
    BY <2>3, IdleCall DEF Moves
  <2> QED BY <1>1, <2>1, <2>4, IdleCall, QuietRefines
<1> QED BY <1>2, <1>3

(* The process restarts: the calls in flight are forgotten.                *)
LEMMA RestartRefines ==
  ASSUME Sound, Kill \/ Crash
  PROVE  Refines
<1>1. req' = [p \in Proc |-> Idle] /\ UNCHANGED objects
  BY DEF Kill, Crash, metaVars
<1>2. Decided'
  BY <1>1, IdleCall DEF Decided
<1>3. UNCHANGED MapStore
  <2>1. Rows' = Rows
    BY <1>1 DEF Rows
  <2> QED BY <2>1, StoreIsRows, NextStoreIsRows DEF Sound, ShowsRows
<1>4. [p \in Proc |-> MapCall(req'[p])] = [p \in Proc |-> Map!NoCall]
  BY <1>1, IdleCall
<1>5. Map!Forget
  BY <1>3, <1>4 DEF Map!Forget
<1> QED BY <1>2, <1>5 DEF Refines, Map!MapNext

LEMMA NextRefines == Sound /\ [Next]_vars => Refines
<1> SUFFICES ASSUME Sound, [Next]_vars PROVE Refines
  OBVIOUS
<1>1. ASSUME NEW p \in Proc, Handle(p) PROVE Refines
  BY <1>1, PutObjectRefines, GetObjectRefines, DeleteObjectRefines, BucketsRefine,
     CreateUploadRefines, PutUploadPartRefines, CompleteUploadRefines,
     DeleteUploadRefines, CreateBlobFailsRefines, EndRefines DEF Handle
<1>2. CASE UNCHANGED vars \/ \E u \in UploadId : Expire(u)
  <2>1. UNCHANGED <<req, objects>>
    BY <1>2 DEF vars, Expire, metaVars
  <2>2. Decided'
    BY <2>1 DEF Sound, Decided
  <2>3. Rows' = Rows
    BY <2>1 DEF Rows
  <2>4. UNCHANGED MapStore
    BY <2>3, StoreIsRows, NextStoreIsRows DEF Sound, ShowsRows
  <2> QED BY <2>1, <2>2, <2>4 DEF Refines, Map!mapVars
<1>3. CASE Kill \/ Crash
  BY <1>3, RestartRefines
<1> QED BY <1>1, <1>2, <1>3 DEF Next

LEMMA InitRefines == Init => Decided /\ Map!MapInit
<1> SUFFICES ASSUME Init PROVE Decided /\ Map!MapInit
  OBVIOUS
<1>1. /\ req = [p \in Proc |-> Idle] /\ objects = [n \in Name |-> NoObject]
  BY DEF Init, RequestInit, MetaInit
<1>2. Decided
  BY <1>1, IdleCall DEF Decided
<1>3. MapStore = [n \in Name |-> None]
  BY <1>1 DEF MapStore, NoObject
<1>4. [p \in Proc |-> MapCall(req[p])] = [p \in Proc |-> Map!NoCall]
  BY <1>1, IdleCall
<1> QED BY <1>2, <1>3, <1>4 DEF Map!MapInit

(* The server implements the atomic map of ObjectMap, for any number of    *)
(* handlers, names, files and sessions, any part size and any part limit,  *)
(* through kills, power loss, failing disks and failing transactions.      *)
(* Every PUT, GET, DELETE and completed upload takes effect at one instant *)
(* between its arrival and its answer, or fails without effect; what is    *)
(* stored is one whole body; a crash forgets the calls in flight and       *)
(* nothing else.  Two conditions are needed.  Clients are steady in each   *)
(* session (SteadyClients): every send of a part carries the same bytes or *)
(* is cut short, and completing names all the parts sent; the body of a    *)
(* one-request PUT may be any, cut short or corrupt.  And an fsync of a    *)
(* new file keeps its directory entry (no "entry" fault).                  *)
THEOREM ServerImplementsMap ==
  ASSUME SteadyClients, "entry" \notin Faults
  PROVE  Spec => ImplementsMap
<1>1. Spec => [](Inv /\ FileInv)
  BY FileInvariant
<1>2. Init => Decided /\ Map!MapInit
  BY InitRefines
<1>3. /\ Inv /\ FileInv /\ Decided /\ [Next]_vars /\ Inv' /\ FileInv'
      => Decided' /\ [Map!MapNext]_(Map!mapVars)
  BY NextRefines DEF Sound, Refines
<1> QED BY <1>1, <1>2, <1>3, PTL DEF Spec, ImplementsMap, Map!MapSpec
=============================================================================
