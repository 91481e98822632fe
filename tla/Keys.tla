-------------------------------- MODULE Keys --------------------------------
(***************************************************************************)
(* API keys: the api_keys table (internal/sqlite/keys.go), the handlers    *)
(* that administer it (internal/httpapi/apikey.go), the authentication     *)
(* and admin check they sit behind (internal/httpapi/auth.go), and the     *)
(* bootstrap key that a start may restore (cmd/tunna/main.go).             *)
(*                                                                         *)
(* A signature is idealised as the secret it was made with.                *)
(***************************************************************************)
EXTENDS FiniteSets, Naturals

CONSTANTS
  KeyId,       \* ids of keys
  Secret,      \* secrets that may be drawn
  Scope,       \* entries (bucket and level) a scopes map may have
  Proc,        \* concurrently running request handlers
  None,        \* no id and no secret
  Boot,        \* the id in TUNNA_BOOTSTRAP_KEY
  BootSecret,  \* and its secret
  KeyOps       \* requests the clients of this instance send

AllKeyOps == {"create", "patch", "rotate", "delete"}

ASSUME KeyAssumption ==
  /\ Boot \in KeyId
  /\ BootSecret \in Secret
  /\ None \notin KeyId \cup Secret
  /\ KeyOps \subseteq AllKeyOps

VARIABLES
  keys,     \* keys[id]: the row of the key
  drawn,    \* ids and secrets drawn so far
  retired,  \* history: secrets that a rotate has replaced
  req       \* req[p]: the request that process p is serving

keyVars == <<keys, drawn, retired, req>>

----------------------------------------------------------------------------
(* Records.                                                                *)

APIKey == [secret : Secret, admin : BOOLEAN, scopes : SUBSET Scope,
           disabled : BOOLEAN]
NoKey == [secret |-> None, admin |-> FALSE, scopes |-> {}, disabled |-> FALSE]

(* validateKeyShape: an admin key has no scopes, any other at least one.   *)
ValidShape(k) == k.admin <=> k.scopes = {}

Exists(id) == keys[id] # NoKey

(* What a start of the server makes of the bootstrap key.                  *)
Bootstrap == [secret |-> BootSecret, admin |-> TRUE, scopes |-> {},
              disabled |-> FALSE]

----------------------------------------------------------------------------
(* The table.  Every call is one statement.                                *)

PutKey(id, k) == keys' = [keys EXCEPT ![id] = k]

CreateKey(id, k) == ~Exists(id) /\ keys' = [keys EXCEPT ![id] = k]

(* Mutants of UpdateKey: a missing row is inserted; a column is missing    *)
(* from the SET list.                                                      *)
UpdateKeyUpsert(id, k) == keys' = [keys EXCEPT ![id] = k]

UpdateKeyNotScopes(id, k) ==
  /\ Exists(id)
  /\ keys' = [keys EXCEPT ![id] = [k EXCEPT !.scopes = keys[id].scopes]]

(* All columns are replaced by those of k; no row, no update.              *)
UpdateKey(id, k) == Exists(id) /\ keys' = [keys EXCEPT ![id] = k]

DeleteKey(id) == Exists(id) /\ keys' = [keys EXCEPT ![id] = NoKey]

----------------------------------------------------------------------------
(* Requests.                                                               *)

Code == {"none", "ok", "unknown_key", "bad_signature", "forbidden",
         "key_not_found", "invalid_parameter"}

(* target: the id in the path; key: the record the handler is about to     *)
(* store.                                                                  *)
KeyRequest == [op : AllKeyOps \cup {"none"},
               pc : {"idle", "lookup", "commit", "reply"},
               target : KeyId \cup {None}, key : APIKey \cup {NoKey},
               code : Code]

Idle == [op |-> "none", pc |-> "idle", target |-> None, key |-> NoKey,
         code |-> "none"]

At(p, op, pc) == req[p].op = op /\ req[p].pc = pc

Answer(p, code) == req' = [req EXCEPT ![p].pc = "reply", ![p].code = code]

(* The handler goes on to its commit with record k in hand.                *)
Keep(p, k) == req' = [req EXCEPT ![p].pc = "commit", ![p].key = k]

(* Ids and secrets are random: none is drawn twice.  Bound: a request that *)
(* needs a new one waits for a restart when the instance's pool is empty.  *)
Fresh(pool) == pool \ drawn

(* authenticate reads the caller's row once; requireAdmin looks at that    *)
(* copy.  Everything after it runs on the strength of this one read.       *)
Refusal(caller, secret) ==
  IF ~Exists(caller) \/ keys[caller].disabled THEN {"unknown_key"}
  ELSE IF keys[caller].secret # secret THEN {"bad_signature"}
  ELSE IF ~keys[caller].admin THEN {"forbidden"}
  ELSE {}

Begin(p) ==
  /\ req[p] = Idle
  /\ \E op \in KeyOps, caller \in KeyId, secret \in Secret \cap drawn,
        target \in KeyId :
       LET r == [Idle EXCEPT !.op = op, !.target = target]
           first == IF op \in {"patch", "rotate"} THEN "lookup" ELSE "commit"
       IN  \/ \E code \in Refusal(caller, secret) :
                req' = [req EXCEPT ![p] = [r EXCEPT !.pc = "reply",
                                                    !.code = code]]
           \/ /\ Refusal(caller, secret) = {}
              /\ req' = [req EXCEPT ![p] = [r EXCEPT !.pc = first]]
  /\ UNCHANGED <<keys, drawn, retired>>

(* createKey: the client chooses the rights, the server id and secret.     *)
createKey(p) ==
  /\ At(p, "create", "commit")
  /\ \E admin \in BOOLEAN, scopes \in SUBSET Scope, secret \in Fresh(Secret),
        id \in Fresh(KeyId) :
       LET k == [secret |-> secret, admin |-> admin, scopes |-> scopes,
                 disabled |-> FALSE]
       IN  IF ValidShape(k)
             THEN /\ CreateKey(id, k)
                  /\ drawn' = drawn \cup {id, secret}
                  /\ Answer(p, "ok")
             ELSE /\ Answer(p, "invalid_parameter")
                  /\ UNCHANGED <<keys, drawn>>
  /\ UNCHANGED retired

(* patchKey reads the row and lays the body over it.  The body may hold    *)
(* any of the fields, so the merged record is any that has this secret.    *)
PatchKeyLookup(p) ==
  /\ At(p, "patch", "lookup")
  /\ LET id == req[p].target
     IN  IF ~Exists(id)
           THEN Answer(p, "key_not_found")
           ELSE \E admin, disabled \in BOOLEAN, scopes \in SUBSET Scope :
                  LET k == [keys[id] EXCEPT !.admin = admin, !.scopes = scopes,
                                            !.disabled = disabled]
                  IN  IF ValidShape(k) THEN Keep(p, k)
                                       ELSE Answer(p, "invalid_parameter")
  /\ UNCHANGED <<keys, drawn, retired>>

(* UpdateKey stores the whole record that was read and patched.            *)
PatchKeyCommit(p) ==
  /\ At(p, "patch", "commit")
  /\ \/ UpdateKey(req[p].target, req[p].key) /\ Answer(p, "ok")
     \/ ~Exists(req[p].target) /\ Answer(p, "key_not_found") /\ UNCHANGED keys
  /\ UNCHANGED <<drawn, retired>>

(* Mutant of RotateKeyLookup: an error of newSecret is not looked at.      *)
RotateKeyLookupUnchecked(p) ==
  /\ At(p, "rotate", "lookup")
  /\ Exists(req[p].target)
  /\ Keep(p, [keys[req[p].target] EXCEPT !.secret = None])
  /\ UNCHANGED <<keys, drawn, retired>>

RotateKeyLookup(p) ==
  /\ At(p, "rotate", "lookup")
  /\ LET id == req[p].target
     IN  \/ /\ ~Exists(id)
            /\ Answer(p, "key_not_found")
            /\ UNCHANGED drawn
         \/ /\ Exists(id)
            /\ \E secret \in Fresh(Secret) :
                 /\ Keep(p, [keys[id] EXCEPT !.secret = secret])
                 /\ drawn' = drawn \cup {secret}
  /\ UNCHANGED <<keys, retired>>

RotateKeyCommit(p) ==
  /\ At(p, "rotate", "commit")
  /\ LET id == req[p].target
     IN  \/ /\ UpdateKey(id, req[p].key)
            /\ retired' = retired \cup {keys[id].secret}
            /\ Answer(p, "ok")
         \/ /\ ~Exists(id)
            /\ Answer(p, "key_not_found")
            /\ UNCHANGED <<keys, retired>>
  /\ UNCHANGED drawn

deleteKey(p) ==
  /\ At(p, "delete", "commit")
  /\ \/ DeleteKey(req[p].target) /\ Answer(p, "ok")
     \/ ~Exists(req[p].target) /\ Answer(p, "key_not_found") /\ UNCHANGED keys
  /\ UNCHANGED <<drawn, retired>>

Reply(p) ==
  /\ req[p].pc = "reply"
  /\ req' = [req EXCEPT ![p] = Idle]
  /\ UNCHANGED <<keys, drawn, retired>>

(* The process ends with whatever it was serving, and starts again; if its *)
(* configuration has a bootstrap key, that key is inserted, or updated and *)
(* enabled.                                                                *)
Restart ==
  /\ \/ PutKey(Boot, Bootstrap) /\ retired' = retired \ {BootSecret}
     \/ UNCHANGED <<keys, retired>>
  /\ req' = [p \in Proc |-> Idle]
  /\ UNCHANGED drawn

Handle(p) ==
  \/ Begin(p) \/ createKey(p) \/ deleteKey(p)
  \/ PatchKeyLookup(p) \/ PatchKeyCommit(p)
  \/ RotateKeyLookup(p) \/ RotateKeyCommit(p)
  \/ Reply(p)

(* The server has been started once, with a bootstrap key, on an empty     *)
(* table.                                                                  *)
KeysInit ==
  /\ keys = [id \in KeyId |-> IF id = Boot THEN Bootstrap ELSE NoKey]
  /\ drawn = {Boot, BootSecret}
  /\ retired = {}
  /\ req = [p \in Proc |-> Idle]

KeysNext == (\E p \in Proc : Handle(p)) \/ Restart

KeysSpec == KeysInit /\ [][KeysNext]_keyVars

----------------------------------------------------------------------------
(* Properties.                                                             *)

KeysTypeOK ==
  /\ keys \in [KeyId -> APIKey \cup {NoKey}]
  /\ drawn \subseteq KeyId \cup Secret
  /\ retired \subseteq Secret
  /\ req \in [Proc -> KeyRequest]

(* The stored keys obey the rules of spec/wire.md 4.2, whatever patches    *)
(* and rotations of one key overlap: each of them stores a whole record    *)
(* that was valid when it was made.                                        *)
StoredShape == \A id \in KeyId : Exists(id) => ValidShape(keys[id])

(* A deleted key does not come back through a handler that read it before  *)
(* it went; only a start brings one back, the bootstrap key.               *)
DeletedForGood ==
  [][\A id \in KeyId : id \in drawn /\ ~Exists(id) /\ Exists(id)' =>
       id = Boot /\ keys'[id] = Bootstrap]_keyVars

(* spec/wire.md 4.2: "the old one stops verifying at once".                *)
RotatedSecretsStayDead ==
  \A id \in KeyId : Exists(id) => keys[id].secret \notin retired
=============================================================================
