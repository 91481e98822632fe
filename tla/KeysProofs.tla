------------------------------ MODULE KeysProofs ------------------------------
(***************************************************************************)
(* Theorems about Keys: types, the shape of stored keys, and that a        *)
(* deletion stands.                                                        *)
(***************************************************************************)
EXTENDS Keys, TLAPS

(* A handler on its way to UpdateKey holds a whole record of valid shape.  *)
HeldShape ==
  \A p \in Proc :
    /\ req[p].pc # "idle" => req[p].target \in KeyId
    /\ req[p].pc = "lookup" => req[p].op \in {"patch", "rotate"}
    /\ req[p].pc = "commit" /\ req[p].op \in {"patch", "rotate"} =>
         req[p].key \in APIKey /\ ValidShape(req[p].key)

KeysInv == KeysTypeOK /\ StoredShape /\ HeldShape

USE DEF At

LEMMA KeysInitInv == KeysInit => KeysInv
<1>1. Bootstrap \in APIKey /\ ValidShape(Bootstrap)
  BY KeyAssumption DEF Bootstrap, APIKey, ValidShape
<1>2. Idle \in KeyRequest
  BY DEF Idle, KeyRequest, Code
<1> QED BY <1>1, <1>2, KeyAssumption
        DEF KeysInit, KeysInv, KeysTypeOK, StoredShape, HeldShape, Exists, Idle

(* One request moves, to a request of the right type and shape.            *)
LEMMA MoveInv ==
  ASSUME KeysInv, NEW p \in Proc, NEW r \in KeyRequest,
         req' = [req EXCEPT ![p] = r],
         r.pc # "idle" => r.target \in KeyId,
         r.pc = "lookup" => r.op \in {"patch", "rotate"},
         r.pc = "commit" /\ r.op \in {"patch", "rotate"} =>
           r.key \in APIKey /\ ValidShape(r.key),
         keys' \in [KeyId -> APIKey \cup {NoKey}], StoredShape',
         drawn' \subseteq KeyId \cup Secret, retired' \subseteq Secret
  PROVE  KeysInv'
<1>1. req' \in [Proc -> KeyRequest]
  BY DEF KeysInv, KeysTypeOK
<1>2. HeldShape'
  BY DEF KeysInv, KeysTypeOK, HeldShape
<1> QED BY <1>1, <1>2 DEF KeysInv, KeysTypeOK

LEMMA AnswerInv ==
  ASSUME KeysInv, NEW p \in Proc, NEW code \in Code, Answer(p, code),
         req[p].pc # "idle",
         keys' \in [KeyId -> APIKey \cup {NoKey}], StoredShape',
         drawn' \subseteq KeyId \cup Secret, retired' \subseteq Secret
  PROVE  KeysInv'
<1> DEFINE r == [req[p] EXCEPT !.pc = "reply", !.code = code]
<1>1. req' = [req EXCEPT ![p] = r] /\ req[p] \in KeyRequest
  BY DEF Answer, KeysInv, KeysTypeOK
<1>2. /\ r \in KeyRequest /\ r.pc = "reply"
      /\ r.target = req[p].target
  BY <1>1 DEF KeyRequest
<1>3. r.target \in KeyId
  BY <1>2 DEF KeysInv, HeldShape
<1> HIDE DEF r
<1> QED BY <1>1, <1>2, <1>3, MoveInv

LEMMA KeepInv ==
  ASSUME KeysInv, NEW p \in Proc, NEW k \in APIKey, ValidShape(k), Keep(p, k),
         req[p].pc # "idle",
         UNCHANGED keys, drawn' \subseteq KeyId \cup Secret, UNCHANGED retired
  PROVE  KeysInv'
<1> DEFINE r == [req[p] EXCEPT !.pc = "commit", !.key = k]
<1>1. req' = [req EXCEPT ![p] = r] /\ req[p] \in KeyRequest
  BY DEF Keep, KeysInv, KeysTypeOK
<1>2. /\ r \in KeyRequest /\ r.pc = "commit" /\ r.key = k
      /\ r.target = req[p].target
  BY <1>1 DEF KeyRequest
<1>3. r.target \in KeyId
  BY <1>2 DEF KeysInv, HeldShape
<1>4. StoredShape'
  BY DEF KeysInv, StoredShape, Exists
<1> HIDE DEF r
<1> QED BY <1>1, <1>2, <1>3, <1>4, MoveInv DEF KeysInv, KeysTypeOK

(* A whole row of valid shape is stored.                                   *)
LEMMA StoreShape ==
  ASSUME KeysInv, NEW id \in KeyId, NEW k \in APIKey \cup {NoKey},
         k # NoKey => ValidShape(k), keys' = [keys EXCEPT ![id] = k]
  PROVE  keys' \in [KeyId -> APIKey \cup {NoKey}] /\ StoredShape'
BY DEF KeysInv, KeysTypeOK, StoredShape, Exists

LEMMA HandleInv ==
  ASSUME KeysInv, NEW p \in Proc, Handle(p)
  PROVE  KeysInv'
<1>0. /\ req[p] \in KeyRequest
      /\ req[p].pc # "idle" => req[p].target \in KeyId
      /\ req[p].pc = "commit" /\ req[p].op \in {"patch", "rotate"} =>
           req[p].key \in APIKey /\ ValidShape(req[p].key)
      /\ keys \in [KeyId -> APIKey \cup {NoKey}]
      /\ drawn \subseteq KeyId \cup Secret /\ retired \subseteq Secret
  BY DEF KeysInv, KeysTypeOK, HeldShape
<1>1. UNCHANGED keys => StoredShape'
  BY DEF KeysInv, StoredShape, Exists
<1>2. CASE Begin(p)
  <2> DEFINE R(op, target) == [Idle EXCEPT !.op = op, !.target = target]
             first(op) == IF op \in {"patch", "rotate"} THEN "lookup" ELSE "commit"
  <2>1. PICK op \in KeyOps, caller \in KeyId, secret \in Secret \cap drawn,
             target \in KeyId :
          \/ \E code \in Refusal(caller, secret) :
               req' = [req EXCEPT ![p] = [R(op, target) EXCEPT !.pc = "reply",
                                                               !.code = code]]
          \/ /\ Refusal(caller, secret) = {}
             /\ req' = [req EXCEPT ![p] = [R(op, target) EXCEPT !.pc = first(op)]]
    BY <1>2, Zenon DEF Begin, R, first
  <2>2. Refusal(caller, secret) \subseteq Code
    BY DEF Refusal, Code
  <2>3. PICK r : /\ req' = [req EXCEPT ![p] = r]
                 /\ \/ \E code \in Code : r = [R(op, target) EXCEPT
                                                 !.pc = "reply", !.code = code]
                    \/ r = [R(op, target) EXCEPT !.pc = first(op)]
    BY <2>1, <2>2
  <2>4. /\ r \in KeyRequest /\ r.target \in KeyId /\ r.key = NoKey
        /\ r.op = op /\ r.pc \in {"reply", first(op)}
    BY <2>3, KeyAssumption DEF KeyRequest, Idle, Code
  <2>5. /\ r.pc = "lookup" => r.op \in {"patch", "rotate"}
        /\ ~(r.pc = "commit" /\ r.op \in {"patch", "rotate"})
    BY <2>4
  <2> QED BY <1>0, <1>1, <1>2, <2>3, <2>4, <2>5, MoveInv DEF Begin
<1>3. CASE createKey(p)
  <2>1. PICK admin \in BOOLEAN, scopes \in SUBSET Scope, secret \in Fresh(Secret),
             id \in Fresh(KeyId) :
          LET k == [secret |-> secret, admin |-> admin, scopes |-> scopes,
                    disabled |-> FALSE]
          IN  IF ValidShape(k)
                THEN /\ CreateKey(id, k)
                     /\ drawn' = drawn \cup {id, secret}
                     /\ Answer(p, "ok")
                ELSE /\ Answer(p, "invalid_parameter")
                     /\ UNCHANGED <<keys, drawn>>
    BY <1>3 DEF createKey
  <2> DEFINE k == [secret |-> secret, admin |-> admin, scopes |-> scopes,
                   disabled |-> FALSE]
  <2>2. k \in APIKey /\ id \in KeyId /\ secret \in Secret
    BY DEF APIKey, Fresh
  <2> HIDE DEF k
  <2>3. CASE ValidShape(k) /\ CreateKey(id, k) /\ drawn' = drawn \cup {id, secret}
             /\ Answer(p, "ok")
    <3>1. keys' \in [KeyId -> APIKey \cup {NoKey}] /\ StoredShape'
      BY <2>2, <2>3, StoreShape DEF CreateKey
    <3> QED BY <1>0, <1>3, <2>2, <2>3, <3>1, AnswerInv DEF createKey, Code
  <2>4. CASE Answer(p, "invalid_parameter") /\ UNCHANGED <<keys, drawn>>
    BY <1>0, <1>1, <1>3, <2>4, AnswerInv DEF createKey, Code
  <2> QED BY <2>1, <2>3, <2>4 DEF k
<1>4. CASE deleteKey(p)
  <2>1. keys' \in [KeyId -> APIKey \cup {NoKey}] /\ StoredShape'
    BY <1>0, <1>1, <1>4, StoreShape DEF deleteKey, DeleteKey
  <2> QED BY <1>0, <1>4, <2>1, AnswerInv DEF deleteKey, Code
<1>5. CASE PatchKeyLookup(p)
  <2> DEFINE id == req[p].target
             K(admin, scopes, disabled) ==
               [keys[id] EXCEPT !.admin = admin, !.scopes = scopes,
                                !.disabled = disabled]
  <2>1. id \in KeyId /\ req[p].pc # "idle" /\ UNCHANGED <<keys, drawn, retired>>
    BY <1>0, <1>5 DEF PatchKeyLookup
  <2>2. CASE \E code \in Code : Answer(p, code)
    BY <1>0, <1>1, <2>1, <2>2, AnswerInv
  <2>3. ASSUME NEW admin \in BOOLEAN, NEW disabled \in BOOLEAN,
               NEW scopes \in SUBSET Scope,
               Exists(id), ValidShape(K(admin, scopes, disabled)),
               Keep(p, K(admin, scopes, disabled))
        PROVE  KeysInv'
    <3>1. K(admin, scopes, disabled) \in APIKey
      BY <1>0, <2>1, <2>3 DEF Exists, APIKey
    <3> HIDE DEF K
    <3> QED BY <1>0, <2>1, <2>3, <3>1, KeepInv
  <2> QED BY <1>5, <2>2, <2>3 DEF PatchKeyLookup, Code
<1>6. CASE PatchKeyCommit(p)
  <2>1. keys' \in [KeyId -> APIKey \cup {NoKey}] /\ StoredShape'
    BY <1>0, <1>1, <1>6, StoreShape DEF PatchKeyCommit, UpdateKey
  <2> QED BY <1>0, <1>6, <2>1, AnswerInv DEF PatchKeyCommit, Code
<1>7. CASE RotateKeyLookup(p)
  <2> DEFINE id == req[p].target
             K(secret) == [keys[id] EXCEPT !.secret = secret]
  <2>1. id \in KeyId /\ req[p].pc # "idle" /\ UNCHANGED <<keys, retired>>
    BY <1>0, <1>7 DEF RotateKeyLookup
  <2>2. CASE Answer(p, "key_not_found") /\ UNCHANGED drawn
    BY <1>0, <1>1, <2>1, <2>2, AnswerInv DEF Code
  <2>3. ASSUME NEW secret \in Fresh(Secret), Exists(id), Keep(p, K(secret)),
               drawn' = drawn \cup {secret}
        PROVE  KeysInv'
    <3>1. secret \in Secret
      BY DEF Fresh
    <3>2. K(secret) \in APIKey
      BY <1>0, <2>1, <2>3, <3>1 DEF Exists, APIKey
    <3>3. ValidShape(keys[id]) /\ keys[id] \in APIKey
      BY <1>0, <2>1, <2>3 DEF KeysInv, StoredShape, Exists
    <3>4. ValidShape(K(secret))
      BY <3>3 DEF ValidShape, APIKey
    <3> HIDE DEF K
    <3> QED BY <1>0, <2>1, <2>3, <3>1, <3>2, <3>4, KeepInv
  <2> QED BY <1>7, <2>2, <2>3 DEF RotateKeyLookup
<1>8. CASE RotateKeyCommit(p)
  <2>1. req[p].target \in KeyId
    BY <1>0, <1>8 DEF RotateKeyCommit
  <2>2. keys' \in [KeyId -> APIKey \cup {NoKey}] /\ StoredShape'
    BY <1>0, <1>1, <1>8, StoreShape DEF RotateKeyCommit, UpdateKey
  <2>3. retired' \subseteq Secret
    BY <1>0, <1>8, <2>1 DEF RotateKeyCommit, UpdateKey, Exists, APIKey
  <2> QED BY <1>0, <1>8, <2>2, <2>3, AnswerInv DEF RotateKeyCommit, Code
<1>9. CASE Reply(p)
  <2>1. Idle \in KeyRequest /\ Idle.pc = "idle"
    BY DEF Idle, KeyRequest, Code
  <2> QED BY <1>0, <1>1, <1>9, <2>1, MoveInv DEF Reply
<1> QED BY <1>2, <1>3, <1>4, <1>5, <1>6, <1>7, <1>8, <1>9 DEF Handle

LEMMA KeysNextInv == KeysInv /\ [KeysNext]_keyVars => KeysInv'
<1> SUFFICES ASSUME KeysInv, [KeysNext]_keyVars PROVE KeysInv'
  OBVIOUS
<1>1. CASE Restart
  <2>1. Bootstrap \in APIKey /\ ValidShape(Bootstrap) /\ Boot \in KeyId
    BY KeyAssumption DEF Bootstrap, APIKey, ValidShape
  <2>2. keys' \in [KeyId -> APIKey \cup {NoKey}] /\ StoredShape'
    <3>1. CASE PutKey(Boot, Bootstrap)
      BY <2>1, <3>1, StoreShape DEF PutKey
    <3>2. CASE UNCHANGED keys
      BY <3>2 DEF KeysInv, KeysTypeOK, StoredShape, Exists
    <3> QED BY <1>1, <3>1, <3>2 DEF Restart
  <2>3. Idle \in KeyRequest /\ Idle.pc = "idle"
    BY DEF Idle, KeyRequest, Code
  <2>4. req' \in [Proc -> KeyRequest] /\ HeldShape'
    BY <1>1, <2>3 DEF Restart, HeldShape
  <2> QED BY <1>1, <2>2, <2>4 DEF Restart, KeysInv, KeysTypeOK
<1>2. CASE UNCHANGED keyVars
  BY <1>2 DEF keyVars, KeysInv, KeysTypeOK, StoredShape, HeldShape, Exists
<1> QED BY <1>1, <1>2, HandleInv DEF KeysNext

LEMMA KeysInvariant == KeysSpec => []KeysInv
BY KeysInitInv, KeysNextInv, PTL DEF KeysSpec

(* The table and the records that handlers carry keep their types.         *)
THEOREM KeysTypeCorrect == KeysSpec => []KeysTypeOK
<1>1. KeysInv => KeysTypeOK
  BY DEF KeysInv
<1> QED BY <1>1, KeysInvariant, PTL

(* However patches, rotations and restarts interleave, no stored key       *)
(* breaks the rule that it is either an admin or has scopes.               *)
THEOREM ShapeKept == KeysSpec => []StoredShape
<1>1. KeysInv => StoredShape
  BY DEF KeysInv
<1> QED BY <1>1, KeysInvariant, PTL

(* No handler that read a key before it was deleted brings it back.        *)
THEOREM DeletionStands == KeysSpec => DeletedForGood
<1> DEFINE A == \A id \in KeyId : id \in drawn /\ ~Exists(id) /\ Exists(id)' =>
                  id = Boot /\ keys'[id] = Bootstrap
<1>1. ASSUME KeysInv, [KeysNext]_keyVars PROVE A
  <2> SUFFICES ASSUME NEW id \in KeyId, id \in drawn,
                      keys[id] = NoKey, keys'[id] # NoKey
               PROVE  id = Boot /\ keys'[id] = Bootstrap
    BY DEF Exists
  <2>0. keys \in [KeyId -> APIKey \cup {NoKey}]
    BY <1>1 DEF KeysInv, KeysTypeOK
  <2>1. CASE Restart
    BY <2>0, <2>1 DEF Restart, PutKey
  <2>2. ASSUME NEW p \in Proc, Handle(p) PROVE FALSE
    <3>1. \/ UNCHANGED keys
          \/ \E i \in Fresh(KeyId) : \E k : keys' = [keys EXCEPT ![i] = k]
          \/ \E k : /\ Exists(req[p].target)
                    /\ keys' = [keys EXCEPT ![req[p].target] = k]
      <4>1. CASE createKey(p)
        BY <4>1 DEF createKey, CreateKey
      <4>2. CASE deleteKey(p) \/ PatchKeyCommit(p) \/ RotateKeyCommit(p)
        BY <4>2 DEF deleteKey, PatchKeyCommit, RotateKeyCommit, UpdateKey, DeleteKey
      <4>3. CASE Begin(p) \/ PatchKeyLookup(p) \/ RotateKeyLookup(p) \/ Reply(p)
        BY <4>3 DEF Begin, PatchKeyLookup, RotateKeyLookup, Reply
      <4> QED BY <2>2, <4>1, <4>2, <4>3 DEF Handle
    <3> QED BY <2>0, <3>1 DEF Fresh, Exists
  <2>3. CASE UNCHANGED keyVars
    BY <2>3 DEF keyVars
  <2> QED BY <1>1, <2>1, <2>2, <2>3 DEF KeysNext
<1>2. KeysInv /\ [KeysNext]_keyVars => [A]_keyVars
  BY <1>1
<1> QED BY <1>2, KeysInvariant, PTL DEF KeysSpec, DeletedForGood
=============================================================================
