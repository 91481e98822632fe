------------------------------ MODULE ServerMap ------------------------------
(***************************************************************************)
(* The server implements ObjectMap.  The abstract body of an object is     *)
(* what its file holds, not what its row says of it, so a step that        *)
(* changes or loses a stored file is a step of the abstract map.           *)
(***************************************************************************)
EXTENDS Server

(* A body is not the mark for "no body".                                   *)
ASSUME BodyIsNotNone == None \notin Seq(Data)

MapBody == UNION {[1..len -> Byte] : len \in 0..FileLen}

MapStore ==
  [n \in Name |-> IF objects[n].blob = None \/ ~Present(objects[n].blob)
                  THEN None ELSE Content(bytes[objects[n].blob])]

(* How the answer codes read at this level.                                *)
MapOutcome(code) ==
  CASE code \in {"none", "ok"} -> code
    [] code = "object_not_found" -> "absent"
    [] OTHER -> "failed"

(* The call a request stands for.  A completed upload is a put that        *)
(* arrives when its body is known; until then it is no call.  A get fixes  *)
(* its version when it reads the row, and answers with the bytes it then   *)
(* really sent.                                                            *)
MapCall(r) ==
  LET none == [op |-> "none", name |-> None, body |-> None, outcome |-> "none"]
      call(op, body, outcome) ==
        [op |-> op, name |-> r.name, body |-> body, outcome |-> outcome]
  IN  CASE r.op = "put" -> call("put", r.body, MapOutcome(r.code))
        [] r.op = "complete" /\ r.name # None ->
             call("put", r.want, MapOutcome(r.code))
        [] r.op = "delete" -> call("delete", None, MapOutcome(r.code))
        [] r.op = "get" /\ r.pc \in {"open", "serve"} -> call("get", r.want, "ok")
        [] r.op = "get" /\ r.pc \notin {"open", "serve"} ->
             call("get", IF r.code = "ok" THEN r.body ELSE None,
                  MapOutcome(r.code))
        [] OTHER -> none

Map == INSTANCE ObjectMap WITH
         Body <- MapBody,
         store <- MapStore,
         call <- [p \in Proc |-> MapCall(req[p])]

(* Linearizable, atomic and durable: every step of the server is a step of *)
(* the abstract map or changes nothing the map shows.  Writing a blob,     *)
(* removing one, recording parts and crashing are invisible; only the      *)
(* transactions of putObject, completeUpload and deleteObject change the   *)
(* map, each by one whole body.                                            *)
ImplementsMap == Map!MapSpec
=============================================================================
