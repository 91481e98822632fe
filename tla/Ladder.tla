------------------------------- MODULE Ladder -------------------------------
(***************************************************************************)
(* The ladder of checks a request climbs: CORS (cors.go), authenticate     *)
(* and the rules wrapped around the routes (auth.go, httpapi.go), and the  *)
(* checks the handlers of buckets, objects, uploads and keys make before   *)
(* they act.  A route is the sequence of its checks in the order of the    *)
(* code.  The world, a key's row, a bucket, an object and a session, may   *)
(* change between any two reads of a store, because other requests run.    *)
(*                                                                         *)
(* A request names one key, one bucket and one object or session.  What    *)
(* can be wrong with it apart from the world is the set of its faults.     *)
(***************************************************************************)
EXTENDS Cors, FiniteSetsExt

CONSTANTS
  KeyRows,     \* bound: rows the key may have
  Starts,      \* bound: the allowlist, key, world and request of a run
  MaxChanges   \* bound: changes other requests make during this one

VARIABLES
  config,  \* the configured allowlist
  key,     \* the key's row
  world,   \* the bucket, the object and the session
  req      \* the request

ladderVars == <<config, key, world, req>>

----------------------------------------------------------------------------
(* Keys (apikey.go).                                                       *)

Access == {"none", "read", "write"}

(* live: there is a row and it is not disabled.  own, any: the scopes for  *)
(* the bucket and for "*".                                                 *)
Row == [live : BOOLEAN, admin : BOOLEAN, own : Access, any : Access]

NoCaller == [live |-> FALSE, admin |-> FALSE, own |-> "none", any |-> "none"]

(* Mutant: any level covers any.                                           *)
CoversAny(has, want) == has # "none"

Covers(has, want) == has = want \/ <<has, want>> = <<"write", "read">>

Allows(k, want) == k.admin \/ Covers(k.own, want) \/ Covers(k.any, want)

----------------------------------------------------------------------------
(* Requests.                                                               *)

(* Checks that depend on nothing but the request, and what they answer.    *)
FaultCode ==
  [both |-> "malformed_request", credentials |-> "malformed_request",
   header |-> "missing_signed_header", path |-> "malformed_request",
   skew |-> "clock_skew", expired |-> "presign_expired",
   toolong |-> "presign_too_long", signature |-> "bad_signature",
   method |-> "method_not_allowed",
   name |-> "invalid_bucket_name", key |-> "invalid_key",
   json |-> "invalid_parameter", param |-> "invalid_parameter",
   partsize |-> "invalid_part_size", partnumber |-> "invalid_part_number",
   length |-> "malformed_request", empty |-> "invalid_parameter",
   toolarge |-> "body_too_large", sums |-> "malformed_request",
   sum |-> "invalid_parameter", body |-> "checksum_mismatch",
   incomplete |-> "upload_incomplete", sizes |-> "part_size_mismatch",
   partsums |-> "checksum_mismatch", target |-> "key_not_found"]

Fault == DOMAIN FaultCode

(* Checks of the caller, and of the world.                                 *)
OtherCode ==
  [presign |-> "presign_not_allowed", route |-> "unknown_route",
   live |-> "unknown_key",
   auth |-> "unauthenticated", admin |-> "forbidden", read |-> "forbidden",
   write |-> "forbidden", publicOrRead |-> "forbidden",
   publicOrAuth |-> "unauthenticated",
   bucket |-> "bucket_not_found", found |-> "bucket_not_found",
   object |-> "object_not_found", session |-> "upload_not_found",
   active |-> "session_not_active", noObjects |-> "bucket_not_empty",
   noUploads |-> "bucket_not_empty", listed |-> "ok_without_it",
   makeBucket |-> "bucket_exists", setPublic |-> "bucket_not_found",
   dropBucket |-> "bucket_not_found", unreferenced |-> "internal",
   putObject |-> "internal", dropObject |-> "object_not_found",
   makeSession |-> "internal", putPart |-> "internal",
   complete |-> "upload_not_found", dropSession |-> "upload_not_found"]

CodeOf(c) == IF c \in Fault THEN FaultCode[c] ELSE OtherCode[c]

(* Checks that begin with a read of a store; those after it up to the next *)
(* one look at what it returned.                                           *)
Reads == {"live", "publicOrRead", "bucket", "object", "session", "noObjects",
          "noUploads", "listed", "makeBucket", "setPublic", "dropBucket",
          "putObject", "dropObject", "makeSession", "putPart", "complete",
          "dropSession"}

(* authenticate, for each form of credentials.                             *)
Authenticate ==
  [anonymous |-> <<>>,
   header |-> <<"both", "credentials", "skew", "live", "header", "path",
                "signature">>,
   presign |-> <<"credentials", "expired", "toolong", "live", "header", "path",
                 "signature">>]

Form == DOMAIN Authenticate

(* Mutant: SQLite with its foreign keys off, as it is by default.          *)
DropBucketUnchecked == <<"dropBucket">>

(* DeleteBucket: the row must exist, and no row may refer to it.           *)
DropBucket == <<"dropBucket", "unreferenced">>

(* Mutant: the bucket is looked for before the caller's access to it.      *)
ReadableFoundFirst == <<"bucket", "publicOrRead", "publicOrAuth">>

(* readableBucket: the lookup and then its three answers.                  *)
Readable == <<"publicOrRead", "publicOrAuth", "found">>

(* The routes (New in httpapi.go) and their handlers: aKey is getKey,      *)
(* deleteKey and rotateKey, unrouted is reserved and notFound.             *)
RootChain ==
  [preflight |-> <<>>, health |-> <<>>, unrouted |-> <<"method", "route">>]

KeyChain ==
  [getSelfKey |-> <<"auth">>,
   listKeys |-> <<"auth", "admin">>,
   createKey |-> <<"presign", "auth", "admin", "json", "param">>,
   patchKey |-> <<"presign", "auth", "admin", "json", "target", "param">>,
   aKey |-> <<"auth", "admin", "target">>]

BucketChain ==
  [listBuckets |-> <<"auth", "listed">>,
   getBucket |-> <<"auth", "read", "name", "bucket">>,
   createBucket |-> <<"presign", "auth", "admin", "name", "json", "makeBucket">>,
   deleteBucket |-> <<"auth", "admin", "name", "noObjects", "noUploads">> \o DropBucket,
   patchBucket |-> <<"presign", "auth", "admin", "name", "json", "param",
                     "bucket", "setPublic">>]

UploadChain ==
  [createUpload |-> <<"presign", "auth", "json", "write", "name", "key",
                      "param", "partsize", "bucket", "makeSession">>,
   putUploadPart |-> <<"auth", "partnumber", "session", "write", "active",
                       "length", "empty", "toolarge", "sums", "sum", "body",
                       "putPart">>,
   getUpload |-> <<"auth", "session", "write", "active">>,
   deleteUpload |-> <<"auth", "session", "write", "active", "dropSession">>,
   completeUpload |-> <<"auth", "json", "param", "session", "write", "active",
                        "incomplete", "sizes", "partsums", "complete">>]

ObjectChain ==
  [putObject |-> <<"auth", "write", "name", "key", "length", "toolarge", "sums",
                   "sum", "bucket", "body", "putObject">>,
   getObject |-> Readable \o <<"name", "key", "object">>,
   listObjects |-> Readable \o <<"name", "param">>,
   deleteObject |-> <<"auth", "write", "name", "key", "bucket", "dropObject">>]

Route == DOMAIN RootChain \cup DOMAIN KeyChain \cup DOMAIN BucketChain
         \cup DOMAIN UploadChain \cup DOMAIN ObjectChain

Chain ==
  [r \in Route |-> CASE r \in DOMAIN RootChain -> RootChain[r]
                    [] r \in DOMAIN KeyChain -> KeyChain[r]
                    [] r \in DOMAIN BucketChain -> BucketChain[r]
                    [] r \in DOMAIN UploadChain -> UploadChain[r]
                    [] r \in DOMAIN ObjectChain -> ObjectChain[r]]

Program(r) == Authenticate[r.form] \o Chain[r.route]

(* The index of the next read of a store after i, or past the end.         *)
NextRead(r, i) ==
  Min({j \in i + 1 .. Len(Program(r)) + 1 :
         j <= Len(Program(r)) => Program(r)[j] \in Reads})

----------------------------------------------------------------------------
(* The world.                                                              *)

World ==
  {w \in [bucket : {"absent", "private", "public"}, object : BOOLEAN,
          session : {"absent", "active", "expired"}] :
     w.bucket = "absent" => ~w.object /\ w.session = "absent"}

CallerChecks == {"presign", "route", "live", "auth", "admin", "read", "write",
                 "publicOrRead", "publicOrAuth", "listed"}

(* The checks of its caller that a request r fails when its handler has    *)
(* the row and finds the world w.                                          *)
CallerRefused(r, row, w) ==
  LET bare == r.form = "anonymous"
      public == w.bucket = "public"
  IN  [presign |-> r.form = "presign", route |-> TRUE, live |-> ~row.live,
       auth |-> bare, admin |-> ~row.admin,
       read |-> ~Allows(row, "read"), write |-> ~Allows(row, "write"),
       publicOrRead |-> ~public /\ ~bare /\ ~Allows(row, "read"),
       publicOrAuth |-> ~public /\ bare,
       listed |-> w.bucket = "absent" \/ ~Allows(row, "read")]

(* The checks that fail in the world w.                                    *)
WorldRefused(w) ==
  LET none == w.bucket = "absent"
      ended == w.session = "absent"
  IN  [bucket |-> none, found |-> none, object |-> ~w.object,
       session |-> ended, active |-> w.session = "expired",
       noObjects |-> w.object, noUploads |-> ~ended,
       makeBucket |-> ~none, setPublic |-> none, dropBucket |-> none,
       unreferenced |-> w.object \/ ~ended, putObject |-> none,
       dropObject |-> ~w.object, makeSession |-> none, putPart |-> ended,
       complete |-> ended, dropSession |-> ended]

Refuses(c, r, row, w) ==
  IF c \in Fault THEN c \in r.faults
  ELSE IF c \in CallerChecks THEN CallerRefused(r, row, w)[c]
  ELSE WorldRefused(w)[c]

(* What a check that is a statement of a store leaves.                     *)
Effect(c, w) ==
  CASE c = "makeBucket" -> {[w EXCEPT !.bucket = b] : b \in {"private", "public"}}
    [] c = "setPublic" -> {[w EXCEPT !.bucket = b] : b \in {"private", "public"}}
    [] c = "dropBucket" -> {[w EXCEPT !.bucket = "absent"]}
    [] c = "putObject" -> {[w EXCEPT !.object = TRUE]}
    [] c = "dropObject" -> {[w EXCEPT !.object = FALSE]}
    [] c = "makeSession" -> {[w EXCEPT !.session = "active"]}
    [] c = "complete" -> {[w EXCEPT !.object = TRUE, !.session = "absent"]}
    [] c = "dropSession" -> {[w EXCEPT !.session = "absent"]}
    [] OTHER -> {w}

----------------------------------------------------------------------------
(* What spec/wire.md 3.6 promises, on rows and worlds.                     *)

(* What anyone may do in the world w, and what the key k may.              *)
Rights(form, k, w) ==
  LET known == form # "anonymous" /\ k.live
      level == IF k.admin THEN {"write"} ELSE {k.own, k.any}
  IN  {x \in {"public", "any", "read", "write", "admin"} :
         CASE x = "public" -> w.bucket = "public"
           [] x = "any" -> known
           [] x = "read" -> known /\ level \cap {"read", "write"} # {}
           [] x = "write" -> known /\ "write" \in level
           [] x = "admin" -> known /\ k.admin}

Needs ==
  [any |-> {"getSelfKey", "listBuckets"},
   read |-> {"getBucket", "getObject", "listObjects"},
   public |-> {"getObject", "listObjects"},
   write |-> {"putObject", "deleteObject", "createUpload", "putUploadPart",
              "getUpload", "deleteUpload", "completeUpload"},
   admin |-> {"createBucket", "patchBucket", "deleteBucket", "listKeys",
              "createKey", "patchKey", "aKey"}]

----------------------------------------------------------------------------
(* A request.                                                              *)

ASSUME LadderAssumption ==
  /\ MaxChanges \in Nat
  /\ KeyRows \subseteq Row
  /\ \A s \in Starts :
       /\ s.route \in Route /\ s.form \in Form /\ s.faults \subseteq Fault
       /\ s.config.entries \subseteq OriginOver(Seq(Char))
       /\ s.origin # NoOrigin => s.origin \in OriginOver(Seq(Char))

(* pc is the read of a store it is at, 0 before it arrives; row is the     *)
(* caller, as authenticate found it; held is every right that held at some *)
(* time since the request began; changes counts the steps of others; allow *)
(* is the reply's Access-Control-Allow-Origin.                             *)
LadderInit ==
  \E s \in Starts :
    /\ ValidList(s.config) /\ s.key \in KeyRows /\ s.world \in World
    /\ "name" \in s.faults => s.key.own = "none" /\ s.world.bucket = "absent"
    /\ config = s.config /\ key = s.key /\ world = s.world
    /\ req = [route |-> s.route, form |-> s.form, faults |-> s.faults,
              origin |-> s.origin, pc |-> 0, row |-> NoCaller,
              held |-> Rights(s.form, key, world), changes |-> 0,
              answer |-> "pending", allow |-> "none"]

(* The checks from one read of a store up to the next, in a world w:       *)
(* the caller, what is answered, and where the request is then.            *)
Outcome(r, k, w) ==
  LET program == Program(r)
      row == IF r.pc > 0 /\ program[r.pc] = "live" THEN k ELSE r.row
      next == NextRead(r, r.pc)
      failed == {j \in r.pc .. next - 1 : j > 0 /\ Refuses(program[j], r, row, w)}
  IN  [row |-> row, pc |-> next,
       answer |-> IF failed # {} THEN CodeOf(program[Min(failed)])
                  ELSE IF next > Len(program) THEN "ok" ELSE "pending"]

(* cors: a preflight is answered from the configuration alone; on any      *)
(* other request the header goes on and the request goes in.               *)
Preflight ==
  /\ req.pc = 0 /\ req.answer = "pending" /\ req.route = "preflight"
  /\ req' = [req EXCEPT !.answer = "ok", !.allow = Match(ParseOrigins(config), req.origin)]
  /\ UNCHANGED <<config, key, world>>

Check ==
  LET out == Outcome(req, key, world)
      allow == IF req.pc > 0 THEN req.allow
               ELSE Match(ParseOrigins(config), req.origin)
  IN  /\ req.answer = "pending" /\ req.route # "preflight"
      /\ req' = [req EXCEPT !.row = out.row, !.pc = out.pc,
                            !.answer = out.answer, !.allow = allow]
      /\ IF req.pc > 0 /\ out.answer \in {"pending", "ok"}
           THEN world' \in Effect(Program(req)[req.pc], world)
           ELSE UNCHANGED world
      /\ UNCHANGED <<config, key>>

(* Other requests commit.  Bounds: only while a request without faults     *)
(* runs, and on a key only while a request carries credentials.            *)
Others ==
  /\ req.answer = "pending" /\ req.faults = {} /\ req.changes < MaxChanges
  /\ \/ /\ req.form # "anonymous"
        /\ key' \in KeyRows \ {key} /\ UNCHANGED world
     \/ /\ world' \in {w \in World :
             /\ Cardinality({f \in DOMAIN w : w[f] # world[f]}) = 1
             /\ <<world.session, w.session>> \notin
                  {<<"absent", "expired">>, <<"expired", "active">>}}
        /\ UNCHANGED key
  /\ req' = [req EXCEPT !.changes = @ + 1, !.held = @ \cup Rights(req.form, key', world')]
  /\ UNCHANGED config

LadderNext == Preflight \/ Check \/ Others

LadderSpec == LadderInit /\ [][LadderNext]_ladderVars

----------------------------------------------------------------------------
(* Properties.                                                             *)

(* The state is well formed.                                               *)
LadderTypeOK ==
  /\ ValidList(config) /\ key \in KeyRows /\ world \in World
  /\ req.route \in Route /\ req.form \in Form /\ req.faults \subseteq Fault
  /\ req.pc \in 0 .. Len(Program(req)) + 1 /\ req.row \in KeyRows \cup {NoCaller}
  /\ req.held \subseteq {"public", "any", "read", "write", "admin"}
  /\ req.changes \in 0 .. MaxChanges
  /\ req.allow \in {"none", "echo", Star}
  /\ req.answer \in {"pending", "ok"} \cup {CodeOf(c) : c \in Fault \cup DOMAIN OtherCode}

(* Nobody who could not read a bucket at any time since the request began  *)
(* learns from the way it goes on whether the bucket exists, or what it    *)
(* holds: the next checks come out the same in every world that differs    *)
(* from this one in a private bucket and its object (readableBucket,       *)
(* requireAccess, sessionWritable).  That a session exists is told to      *)
(* every key (spec/wire.md 3.6).                                           *)
ExistenceHidden ==
  req.answer = "pending" /\ req.held \cap {"read", "public"} = {} =>
    \A w \in World :
      w.bucket # "public" /\ w.session = world.session =>
        Outcome(req, key, w) = Outcome(req, key, world)

(* Codes a request can be answered with before stage 3 (spec/errors.json). *)
EarlyCode ==
  {"malformed_request", "unknown_route", "method_not_allowed", "unauthenticated",
   "unknown_key", "bad_signature", "missing_signed_header", "clock_skew",
   "presign_expired", "presign_too_long", "presign_not_allowed", "forbidden"}

(* What the upload routes answer to any key: a session that does not exist *)
(* (spec/wire.md 3.6), and parameters that are looked at before the bucket *)
(* is known.                                                               *)
ToAnyKey ==
  {"putUploadPart", "getUpload", "deleteUpload", "completeUpload"} \X {"upload_not_found"}
  \cup {<<"putUploadPart", "invalid_part_number">>,
        <<"completeUpload", "invalid_parameter">>, <<"createUpload", "invalid_parameter">>}

(* ADR-0004 and the table of spec/wire.md 3.6: whatever a request is       *)
(* answered past stage 3, success or the reason for a refusal, it had the  *)
(* right its route asks for at some time since it began, although the key  *)
(* is read once and others change keys and buckets under it; and one with  *)
(* credentials had a live key, on an anonymous route too (3.5).            *)
OnlyGranted ==
  req.answer \notin EarlyCode \cup {"pending"} /\ req.route # "preflight" =>
    /\ \/ \E right \in DOMAIN Needs : right \in req.held /\ req.route \in Needs[right]
       \/ req.route = "health"
       \/ <<req.route, req.answer>> \in ToAnyKey /\ "any" \in req.held
    /\ req.form # "anonymous" => "any" \in req.held

(* The allow header of every reply is the one spec/wire.md 10.1 asks for.  *)
CorsExact ==
  req.answer # "pending" => req.allow = Allowed(config, req.origin)
=============================================================================
