---------------------------- MODULE LadderProofs ----------------------------
(***************************************************************************)
(* The ladder of checks, for every key, world, request and interleaving    *)
(* with other requests: the type invariant, OnlyGranted, ExistenceHidden   *)
(* and CorsExact.                                                          *)
(***************************************************************************)
EXTENDS LadderInv, TLAPS, FiniteSetTheorems, SequenceTheorems, WellFoundedInduction

----------------------------------------------------------------------------
(* Least elements.                                                         *)

LessNat == {ss \in Nat \X Nat : ss[1] < ss[2]}

LEMMA LeastElement ==
  ASSUME NEW S, S \subseteq Nat, S # {}
  PROVE  /\ Min(S) \in S
         /\ \A y \in S : Min(S) <= y
<1>1. IsWellFoundedOn(LessNat, Nat)
  BY NatLessThanWellFounded DEF OpToRel, LessNat
<1>2. PICK x \in S : \A y \in S : ~ (<<y, x>> \in LessNat)
  BY <1>1, WFMin
<1>3. ASSUME NEW y \in S PROVE x <= y
  <2>1. x \in Nat /\ y \in Nat
    OBVIOUS
  <2>2. ~ (y < x)
    BY <1>2, <2>1 DEF LessNat
  <2> QED BY <2>1, <2>2
<1> QED BY <1>3 DEF Min

----------------------------------------------------------------------------
(* The routes, one by one: what the order of the checks guarantees.        *)

LEMMA Routes ==
  Route = {"preflight", "health", "unrouted", "getSelfKey", "listKeys",
           "createKey", "patchKey", "aKey", "listBuckets", "getBucket",
           "createBucket", "deleteBucket", "patchBucket", "createUpload",
           "putUploadPart", "getUpload", "deleteUpload", "completeUpload",
           "putObject", "getObject", "listObjects", "deleteObject"}
BY DEF RootChain, KeyChain, BucketChain, UploadChain, ObjectChain, Route

LEMMA Chains ==
  /\ Chain["preflight"] = <<>>
  /\ Chain["health"] = <<>>
  /\ Chain["unrouted"] = <<"method", "route">>
  /\ Chain["getSelfKey"] = <<"auth">>
  /\ Chain["listKeys"] = <<"auth", "admin">>
  /\ Chain["createKey"] =
       <<"presign", "auth", "admin", "json", "param">>
  /\ Chain["patchKey"] =
       <<"presign", "auth", "admin", "json", "target",
             "param">>
  /\ Chain["aKey"] = <<"auth", "admin", "target">>
  /\ Chain["listBuckets"] = <<"auth", "listed">>
  /\ Chain["getBucket"] =
       <<"auth", "read", "name", "bucket">>
  /\ Chain["createBucket"] =
       <<"presign", "auth", "admin", "name", "json",
             "makeBucket">>
  /\ Chain["deleteBucket"] =
       <<"auth", "admin", "name", "noObjects", "noUploads",
             "dropBucket", "unreferenced">>
  /\ Chain["patchBucket"] =
       <<"presign", "auth", "admin", "name", "json",
             "param", "bucket", "setPublic">>
  /\ Chain["createUpload"] =
       <<"presign", "auth", "json", "write", "name", "key",
             "param", "partsize", "bucket", "makeSession">>
  /\ Chain["putUploadPart"] =
       <<"auth", "partnumber", "session", "write",
             "active", "length", "empty", "toolarge", "sums",
             "sum", "body", "putPart">>
  /\ Chain["getUpload"] =
       <<"auth", "session", "write", "active">>
  /\ Chain["deleteUpload"] =
       <<"auth", "session", "write", "active",
             "dropSession">>
  /\ Chain["completeUpload"] =
       <<"auth", "json", "param", "session", "write",
             "active", "incomplete", "sizes", "partsums",
             "complete">>
  /\ Chain["putObject"] =
       <<"auth", "write", "name", "key", "length",
             "toolarge", "sums", "sum", "bucket", "body",
             "putObject">>
  /\ Chain["getObject"] =
       <<"publicOrRead", "publicOrAuth", "found", "name",
             "key", "object">>
  /\ Chain["listObjects"] =
       <<"publicOrRead", "publicOrAuth", "found", "name",
             "param">>
  /\ Chain["deleteObject"] =
       <<"auth", "write", "name", "key", "bucket",
             "dropObject">>
BY Routes DEF Chain, RootChain, KeyChain, BucketChain, UploadChain, ObjectChain,
              Readable, DropBucket

(* The check c comes before the k-th of the route.                         *)
Ahead(route, k, c) == \E i \in 1 .. k - 1 : Chain[route][i] = c

(* Whoever is at the k-th check of the route has passed one that asks for  *)
(* a right the route needs, or is answered what any key may be.            *)
Entitled(route, k) ==
  \/ route \in {"health", "preflight"}
  \/ Ahead(route, k, "route")
  \/ Ahead(route, k, "admin") /\ route \in Needs["admin"]
  \/ Ahead(route, k, "write") /\ route \in Needs["write"]
  \/ Ahead(route, k, "read") /\ route \in Needs["read"]
  \/ /\ Ahead(route, k, "publicOrRead") /\ Ahead(route, k, "publicOrAuth")
     /\ route \in Needs["read"] /\ route \in Needs["public"]
  \/ /\ Ahead(route, k, "auth")
     /\ \/ route \in Needs["any"]
        \/ /\ k <= Len(Chain[route])
           /\ <<route, CodeOf(Chain[route][k])>> \in ToAnyKey

(* Past the codes of the first stages a request is entitled to its answer. *)
LEMMA AnswersAreEntitled ==
  ASSUME NEW route \in Route, NEW k \in 1 .. Len(Chain[route]) + 1,
         k <= Len(Chain[route]) => CodeOf(Chain[route][k]) \notin EarlyCode
  PROVE  Entitled(route, k)
<1> USE DEF Entitled, Ahead, Needs, ToAnyKey, EarlyCode, CodeOf, Fault, FaultCode,
            OtherCode
<1>1. CASE route = "preflight"
  BY <1>1, Chains
<1>2. CASE route = "health"
  BY <1>2, Chains
<1>3. CASE route = "unrouted"
  BY <1>3, Chains
<1>4. CASE route = "getSelfKey"
  BY <1>4, Chains
<1>5. CASE route = "listKeys"
  BY <1>5, Chains
<1>6. CASE route = "createKey"
  BY <1>6, Chains
<1>7. CASE route = "patchKey"
  BY <1>7, Chains
<1>8. CASE route = "aKey"
  BY <1>8, Chains
<1>9. CASE route = "listBuckets"
  BY <1>9, Chains
<1>10. CASE route = "getBucket"
  BY <1>10, Chains
<1>11. CASE route = "createBucket"
  BY <1>11, Chains
<1>12. CASE route = "deleteBucket"
  BY <1>12, Chains
<1>13. CASE route = "patchBucket"
  BY <1>13, Chains
<1>14. CASE route = "createUpload"
  BY <1>14, Chains
<1>15. CASE route = "putUploadPart"
  BY <1>15, Chains
<1>16. CASE route = "getUpload"
  BY <1>16, Chains
<1>17. CASE route = "deleteUpload"
  BY <1>17, Chains
<1>18. CASE route = "completeUpload"
  BY <1>18, Chains
<1>19. CASE route = "putObject"
  BY <1>19, Chains
<1>20. CASE route = "getObject"
  BY <1>20, Chains
<1>21. CASE route = "listObjects"
  BY <1>21, Chains
<1>22. CASE route = "deleteObject"
  BY <1>22, Chains
<1> QED BY Routes, <1>1, <1>2, <1>3, <1>4, <1>5, <1>6, <1>7, <1>8, <1>9,
           <1>10, <1>11, <1>12, <1>13, <1>14, <1>15, <1>16, <1>17, <1>18,
           <1>19, <1>20, <1>21, <1>22

Known == Fault \cup DOMAIN OtherCode

(* Checks whose outcome tells whether the bucket is there or what it holds. *)
Telling == {"bucket", "found", "object", "noObjects", "makeBucket", "setPublic",
            "dropBucket", "unreferenced", "putObject", "dropObject", "makeSession"}

(* Checks of the caller that nobody passes without a right to read.        *)
Shielded(route, k) ==
  \/ Ahead(route, k, "admin") \/ Ahead(route, k, "write") \/ Ahead(route, k, "read")
  \/ Ahead(route, k, "publicOrRead") /\ Ahead(route, k, "publicOrAuth")

Ordered(route, k) ==
  LET c == Chain[route][k]
  IN  /\ c # "live"
      /\ c \in {"makeBucket", "setPublic"} => k = Len(Chain[route])
      /\ c = "dropBucket" =>
           k < Len(Chain[route]) /\ Chain[route][k + 1] = "unreferenced"
      /\ c \in Telling => Shielded(route, k)
      /\ c = "listed" => Ahead(route, k, "auth")

LEMMA ChecksAreOrdered ==
  ASSUME NEW route \in Route
  PROVE  /\ Chain[route] \in Seq(Known)
         /\ \A k \in 1 .. Len(Chain[route]) : Ordered(route, k)
<1> USE DEF Ordered, Shielded, Telling, Ahead, Known, Fault, FaultCode, OtherCode
<1>1. CASE route = "preflight"
  BY <1>1, Chains
<1>2. CASE route = "health"
  BY <1>2, Chains
<1>3. CASE route = "unrouted"
  BY <1>3, Chains
<1>4. CASE route = "getSelfKey"
  BY <1>4, Chains
<1>5. CASE route = "listKeys"
  BY <1>5, Chains
<1>6. CASE route = "createKey"
  BY <1>6, Chains
<1>7. CASE route = "patchKey"
  BY <1>7, Chains
<1>8. CASE route = "aKey"
  BY <1>8, Chains
<1>9. CASE route = "listBuckets"
  BY <1>9, Chains
<1>10. CASE route = "getBucket"
  BY <1>10, Chains
<1>11. CASE route = "createBucket"
  BY <1>11, Chains
<1>12. CASE route = "deleteBucket"
  BY <1>12, Chains
<1>13. CASE route = "patchBucket"
  BY <1>13, Chains
<1>14. CASE route = "createUpload"
  BY <1>14, Chains
<1>15. CASE route = "putUploadPart"
  BY <1>15, Chains
<1>16. CASE route = "getUpload"
  BY <1>16, Chains
<1>17. CASE route = "deleteUpload"
  BY <1>17, Chains
<1>18. CASE route = "completeUpload"
  BY <1>18, Chains
<1>19. CASE route = "putObject"
  BY <1>19, Chains
<1>20. CASE route = "getObject"
  BY <1>20, Chains
<1>21. CASE route = "listObjects"
  BY <1>21, Chains
<1>22. CASE route = "deleteObject"
  BY <1>22, Chains
<1> QED BY Routes, <1>1, <1>2, <1>3, <1>4, <1>5, <1>6, <1>7, <1>8, <1>9,
           <1>10, <1>11, <1>12, <1>13, <1>14, <1>15, <1>16, <1>17, <1>18,
           <1>19, <1>20, <1>21, <1>22

LEMMA Forms ==
  /\ Form = {"anonymous", "header", "presign"}
  /\ Authenticate["anonymous"] = <<>>
  /\ Authenticate["header"] =
       <<"both", "credentials", "skew", "live", "header", "path", "signature">>
  /\ Authenticate["presign"] =
       <<"credentials", "expired", "toolong", "live", "header", "path", "signature">>
BY DEF Form, Authenticate

(* A caller with credentials is looked up before anything is asked of it,  *)
(* and is told nothing but the early codes until it is known.              *)
LEMMA AuthenticateOrder ==
  ASSUME NEW form \in Form
  PROVE  LET steps == Authenticate[form]
         IN  /\ steps \in Seq(Known)
             /\ form = "anonymous" => Len(steps) = 0
             /\ form # "anonymous" => Len(steps) = 7 /\ steps[4] = "live"
             /\ \A j \in 1 .. Len(steps) :
                  /\ steps[j] \in Fault \cup {"live"}
                  /\ steps[j] = "live" => j = 4
                  /\ CodeOf(steps[j]) \in EarlyCode
<1> USE DEF Known, Fault, FaultCode, OtherCode, CodeOf, EarlyCode
<1>1. CASE form = "anonymous"
  BY <1>1, Forms
<1>2. CASE form = "header"
  BY <1>2, Forms
<1>3. CASE form = "presign"
  BY <1>3, Forms
<1> QED BY <1>1, <1>2, <1>3, Forms

----------------------------------------------------------------------------
(* The program of a request.                                               *)

LEMMA FaultFacts ==
  /\ \A c \in Fault : c \notin {"live", "makeBucket", "setPublic", "dropBucket",
                                "unreferenced", "route", "auth", "admin", "read", "write",
                                "publicOrRead", "publicOrAuth"}
  /\ {"live", "unreferenced"} \subseteq Known
  /\ \A c \in Known : CodeOf(c) \notin {"pending", "ok"}
BY DEF Known, Fault, FaultCode, OtherCode, CodeOf

LEMMA ProgramFacts ==
  ASSUME NEW r, r.route \in Route, r.form \in Form
  PROVE  LET n == Len(Authenticate[r.form])
         IN  /\ Program(r) \in Seq(Known) /\ Len(Program(r)) \in Nat
             /\ n \in {0, 7} /\ Len(Chain[r.route]) \in Nat
             /\ Len(Program(r)) = n + Len(Chain[r.route])
             /\ \A j \in 1 .. n : Program(r)[j] = Authenticate[r.form][j]
             /\ \A k \in 1 .. Len(Chain[r.route]) :
                  Program(r)[n + k] = Chain[r.route][k]
<1>1. PICK a, c, p : a = Authenticate[r.form] /\ c = Chain[r.route] /\ p = Program(r)
  OBVIOUS
<1>2. a \in Seq(Known) /\ c \in Seq(Known) /\ Len(a) \in {0, 7}
  BY <1>1, AuthenticateOrder, ChecksAreOrdered
<1>3. p = a \o c
  BY <1>1 DEF Program
<1>4. /\ p \in Seq(Known) /\ Len(p) \in Nat /\ Len(a) \in {0, 7} /\ Len(c) \in Nat
      /\ Len(p) = Len(a) + Len(c)
      /\ \A j \in 1 .. Len(a) : p[j] = a[j]
      /\ \A k \in 1 .. Len(c) : p[Len(a) + k] = c[k]
  BY <1>2, <1>3
<1> QED BY <1>1, <1>4, Zenon

LEMMA ProgramOrder ==
  ASSUME NEW r, r.route \in Route, r.form \in Form, NEW j \in 1 .. Len(Program(r))
  PROVE  LET c == Program(r)[j]
         IN  /\ c \in Known
             /\ c = "live" =>
                  /\ j = 4 /\ r.form # "anonymous"
                  /\ \A i \in 1 .. 3 : Program(r)[i] \in Fault
             /\ c \in {"makeBucket", "setPublic"} => j = Len(Program(r))
             /\ c = "dropBucket" =>
                  j < Len(Program(r)) /\ Program(r)[j + 1] = "unreferenced"
<1>1. PICK n, p, chain :
        /\ n = Len(Authenticate[r.form]) /\ p = Program(r) /\ chain = Chain[r.route]
  OBVIOUS
<1>2. /\ p \in Seq(Known) /\ Len(p) \in Nat /\ n \in {0, 7} /\ Len(chain) \in Nat
      /\ Len(p) = n + Len(chain)
      /\ \A i \in 1 .. n : p[i] = Authenticate[r.form][i]
      /\ \A k \in 1 .. Len(chain) : p[n + k] = chain[k]
  BY <1>1, ProgramFacts, Zenon
<1>3. j \in 1 .. Len(p) /\ p[j] \in Known
  <2>1. j \in 1 .. Len(p)
    BY <1>1, Zenon
  <2> QED BY <1>2, <2>1
<1>4. CASE j <= n
  <2>1. r.form # "anonymous"
    <3>1. n # 0
      BY <1>2, <1>3, <1>4
    <3> QED BY <1>1, <3>1, AuthenticateOrder
  <2>2. \A i \in 1 .. n : p[i] \in Fault \cup {"live"} /\ (p[i] = "live" => i = 4)
    <3>1. \A i \in 1 .. n :
            /\ Authenticate[r.form][i] \in Fault \cup {"live"}
            /\ Authenticate[r.form][i] = "live" => i = 4
      BY <1>1, AuthenticateOrder, Zenon
    <3> QED BY <1>2, <3>1
  <2>3. n = 7 /\ j \in 1 .. n /\ \A i \in 1 .. 3 : i \in 1 .. n /\ i # 4
    BY <1>2, <1>3, <1>4
  <2>4. \A i \in 1 .. 3 : p[i] \in Fault
    BY <2>2, <2>3
  <2> QED BY <1>1, <1>3, <2>1, <2>2, <2>3, <2>4, FaultFacts
<1>5. CASE j > n
  <2>1. PICK k \in 1 .. Len(chain) : j = n + k
    <3>1. j - n \in 1 .. Len(chain) /\ j = n + (j - n)
      BY <1>2, <1>3, <1>5
    <3> QED BY <3>1
  <2>2. p[j] = chain[k] /\ Ordered(r.route, k)
    BY <1>1, <1>2, <2>1, ChecksAreOrdered
  <2>3. k < Len(chain) => j < Len(p) /\ p[j + 1] = chain[k + 1]
    <3>1. k < Len(chain) => k + 1 \in 1 .. Len(chain) /\ j + 1 = n + (k + 1)
      BY <1>2, <2>1
    <3> QED BY <1>2, <2>1, <3>1
  <2>4. k = Len(chain) => j = Len(p)
    BY <1>2, <2>1
  <2> QED BY <1>1, <1>3, <2>2, <2>3, <2>4 DEF Ordered
<1> QED BY <1>2, <1>3, <1>4, <1>5

LEMMA NextReadFacts ==
  ASSUME NEW r, r.route \in Route, r.form \in Form, NEW i \in 0 .. Len(Program(r))
  PROVE  /\ NextRead(r, i) \in i + 1 .. Len(Program(r)) + 1
         /\ NextRead(r, i) <= Len(Program(r)) => Program(r)[NextRead(r, i)] \in Reads
<1> DEFINE S == {j \in i + 1 .. Len(Program(r)) + 1 :
                   j <= Len(Program(r)) => Program(r)[j] \in Reads}
<1>1. Len(Program(r)) \in Nat
  BY ProgramFacts
<1>2. S \subseteq Nat /\ Len(Program(r)) + 1 \in S
  BY <1>1
<1>3. Min(S) \in S
  <2> HIDE DEF S
  <2> QED BY <1>2, LeastElement
<1> QED BY <1>3 DEF NextRead

(* The checks of one step: those before the m-th pass; it fails, or all do *)
(* and m is where the request is next.                                     *)
LEMMA OutcomeFacts ==
  ASSUME NEW r, r.route \in Route, r.form \in Form, r.pc \in 0 .. Len(Program(r)),
         NEW k, NEW w
  PROVE  LET out == Outcome(r, k, w)
             size == Len(Program(r))
         IN  /\ out.pc \in r.pc + 1 .. size + 1
             /\ out.pc <= size => Program(r)[out.pc] \in Reads
             /\ out.row = IF r.pc > 0 /\ Program(r)[r.pc] = "live" THEN k ELSE r.row
             /\ \E m \in r.pc .. out.pc :
                  /\ \A j \in r.pc .. m - 1 :
                       j > 0 => ~Refuses(Program(r)[j], r, out.row, w)
                  /\ m < out.pc => m > 0 /\ Refuses(Program(r)[m], r, out.row, w)
                  /\ out.answer = IF m < out.pc THEN CodeOf(Program(r)[m])
                                  ELSE IF out.pc > size THEN "ok" ELSE "pending"
<1> DEFINE size == Len(Program(r))
           row == IF r.pc > 0 /\ Program(r)[r.pc] = "live" THEN k ELSE r.row
           next == NextRead(r, r.pc)
           failed == {j \in r.pc .. next - 1 :
                        j > 0 /\ Refuses(Program(r)[j], r, row, w)}
           out == Outcome(r, k, w)
<1>1. /\ out.row = row /\ out.pc = next
      /\ out.answer = IF failed # {} THEN CodeOf(Program(r)[Min(failed)])
                      ELSE IF next > size THEN "ok" ELSE "pending"
  BY DEF Outcome
<1>2. next \in r.pc + 1 .. size + 1 /\ (next <= size => Program(r)[next] \in Reads)
  BY NextReadFacts
<1>3. size \in Nat /\ r.pc \in Nat /\ next \in Nat
  BY <1>2, ProgramFacts
<1> HIDE DEF size, row, next, out
<1>4. CASE failed = {}
  <2>1. \A j \in r.pc .. next - 1 : j > 0 => ~Refuses(Program(r)[j], r, row, w)
    BY <1>4
  <2> QED BY <1>1, <1>2, <1>3, <1>4, <2>1 DEF size, row, next, out
<1>5. CASE failed # {}
  <2>1. failed \subseteq Nat
    BY <1>3
  <2>2. PICK m : m = Min(failed)
    OBVIOUS
  <2>3. m \in failed /\ \A y \in failed : m <= y
    <3> HIDE DEF failed
    <3> QED BY <1>5, <2>1, <2>2, LeastElement
  <2>4. \A j \in r.pc .. m - 1 : j > 0 => ~Refuses(Program(r)[j], r, row, w)
    BY <1>3, <2>3
  <2>5. m \in r.pc .. next - 1 /\ m > 0 /\ Refuses(Program(r)[m], r, row, w)
    BY <2>3
  <2> HIDE DEF failed
  <2>6. m \in r.pc .. next /\ m < next
    BY <1>3, <2>5
  <2> QED BY <1>1, <1>2, <1>3, <1>5, <2>2, <2>4, <2>5, <2>6 DEF size, row, next, out
<1> QED BY <1>4, <1>5

----------------------------------------------------------------------------
(* Rights.                                                                 *)

LEMMA RightsFacts ==
  ASSUME NEW form, NEW k \in Row, NEW w
  PROVE  LET rights == Rights(form, k, w)
             known == form # "anonymous" /\ k.live
         IN  /\ rights \subseteq {"public", "any", "read", "write", "admin"}
             /\ "public" \in rights <=> w.bucket = "public"
             /\ "any" \in rights <=> known
             /\ \A x \in {"read", "write"} :
                  x \in rights <=> known /\ Allows(k, x)
             /\ "admin" \in rights <=> known /\ k.admin
<1> DEFINE rights == Rights(form, k, w)
           known == form # "anonymous" /\ k.live
           level == IF k.admin THEN {"write"} ELSE {k.own, k.any}
<1>1. /\ rights \subseteq {"public", "any", "read", "write", "admin"}
      /\ "public" \in rights <=> w.bucket = "public"
      /\ "any" \in rights <=> known
      /\ "read" \in rights <=> known /\ level \cap {"read", "write"} # {}
      /\ "write" \in rights <=> known /\ "write" \in level
      /\ "admin" \in rights <=> known /\ k.admin
  BY DEF Rights
<1>2. /\ level \cap {"read", "write"} # {} <=> Allows(k, "read")
      /\ "write" \in level <=> Allows(k, "write")
  BY DEF Allows, Covers, Row, Access
<1> QED BY <1>1, <1>2

(* The row of nobody allows nothing.                                       *)
LEMMA NobodyAllows ==
  NoCaller \in Row /\ ~NoCaller.live /\ ~NoCaller.admin
  /\ \A x \in {"read", "write"} : ~Allows(NoCaller, x)
BY DEF NoCaller, Row, Access, Allows, Covers

(* A check that does not refuse is passed.                                 *)
LEMMA CheckPasses ==
  ASSUME NEW r, NEW s, NEW k \in Row, NEW w, NEW c \in Known,
         s.form = r.form, s.held = r.held,
         w.bucket = "public" => "public" \in r.held,
         ~Refuses(c, r, s.row, w)
  PROVE  Passed(c, s)
<1>1. CASE c \in {"presign", "route", "live", "auth", "admin", "read", "write",
                  "publicOrRead", "publicOrAuth", "listed"}
  <2>1. ~CallerRefused(r, s.row, w)[c]
    BY <1>1, FaultFacts DEF Refuses, CallerChecks, Fault, FaultCode
  <2>2. PICK refused : refused = CallerRefused(r, s.row, w)
    OBVIOUS
  <2>3. /\ refused["route"] = TRUE
        /\ refused["live"] = ~s.row.live
        /\ refused["auth"] = (r.form = "anonymous")
        /\ refused["admin"] = ~s.row.admin
        /\ refused["read"] = ~Allows(s.row, "read")
        /\ refused["write"] = ~Allows(s.row, "write")
        /\ refused["publicOrRead"] = (/\ ~(w.bucket = "public")
                                      /\ ~(r.form = "anonymous")
                                      /\ ~Allows(s.row, "read"))
        /\ refused["publicOrAuth"] =
             (~(w.bucket = "public") /\ r.form = "anonymous")
    BY <2>2 DEF CallerRefused
  <2>4. ~refused[c]
    BY <2>1, <2>2
  <2> QED BY <1>1, <2>3, <2>4 DEF Passed
<1>2. CASE c \notin {"presign", "route", "live", "auth", "admin", "read", "write",
                     "publicOrRead", "publicOrAuth", "listed"}
  BY <1>2 DEF Passed
<1> QED BY <1>1, <1>2

----------------------------------------------------------------------------
(* The steps.                                                              *)

LEMMA KnownCode ==
  ASSUME NEW r \in LadderRequest, NEW j \in 1 .. Len(Program(r))
  PROVE  CodeOf(Program(r)[j]) \in {CodeOf(c) : c \in Fault \cup DOMAIN OtherCode}
<1>1. Program(r)[j] \in Known
  BY ProgramOrder DEF LadderRequest
<1> QED BY <1>1 DEF Known

(* The step of other requests, and the request as it comes in.             *)
LEMMA InitLadder == LadderInit => LadderInv
<1> SUFFICES ASSUME LadderInit PROVE LadderInv
  OBVIOUS
<1>1. PICK s \in Starts :
        /\ ValidList(s.config) /\ s.key \in KeyRows /\ s.world \in World
        /\ config = s.config /\ key = s.key /\ world = s.world
        /\ req = [route |-> s.route, form |-> s.form, faults |-> s.faults,
                  origin |-> s.origin, pc |-> 0, row |-> NoCaller,
                  held |-> Rights(s.form, key, world), changes |-> 0,
                  answer |-> "pending", allow |-> "none"]
  BY DEF LadderInit
<1>2. /\ s.route \in Route /\ s.form \in Form /\ s.faults \subseteq Fault
      /\ s.config.entries \subseteq OriginOver(Seq(Char)) /\ s.origin \in Origin
      /\ key \in Row /\ MaxChanges \in Nat
  BY <1>1, LadderAssumption DEF Origin
<1>3. Rights(s.form, key, world) \subseteq {"public", "any", "read", "write", "admin"}
  BY <1>2, RightsFacts
<1>4. /\ req.route = s.route /\ req.form = s.form /\ req.faults = s.faults
      /\ req.pc = 0 /\ req.row = NoCaller /\ req.held = Rights(s.form, key, world)
      /\ req.changes = 0 /\ req.answer = "pending" /\ req.allow = "none"
  BY <1>1
<1>5. req \in LadderRequest
  BY <1>1, <1>2, <1>3 DEF LadderRequest
<1>6. Len(Program(req)) \in Nat
  BY <1>2, <1>4, ProgramFacts
<1>7. LadderTypeOK
  BY <1>1, <1>2, <1>3, <1>4, <1>6 DEF LadderTypeOK
<1>8. Running
  BY <1>4, <1>6 DEF Running, PassedBelow
<1>9. RightsHeld(req.row, req) /\ Answered /\ AllowSettled
  BY <1>4, NobodyAllows DEF RightsHeld, Answered, AllowSettled
<1> QED BY <1>1, <1>2, <1>4, <1>5, <1>7, <1>8, <1>9 DEF LadderInv

LEMMA PassedKept ==
  ASSUME NEW r, NEW s, NEW j, s.route = r.route, s.form = r.form, s.row = r.row,
         r.held \subseteq s.held, PassedBelow(r, j)
  PROVE  PassedBelow(s, j)
<1>1. Program(s) = Program(r)
  BY DEF Program
<1>2. \A c : Passed(c, r) => Passed(c, s)
  BY DEF Passed
<1> QED BY <1>1, <1>2 DEF PassedBelow

LEMMA MatchType ==
  ASSUME NEW origins, NEW origin
  PROVE  Match(origins, origin) \in {"none", "echo", Star}
BY DEF Match

LEMMA OthersStep == LadderInv /\ Others => LadderInv'
<1> SUFFICES ASSUME LadderInv, Others PROVE LadderInv'
  OBVIOUS
<1>1. /\ req \in LadderRequest /\ req.answer = "pending" /\ req.changes < MaxChanges
      /\ key' \in KeyRows /\ world' \in World /\ config' = config
      /\ req' = [req EXCEPT !.changes = @ + 1,
                            !.held = @ \cup Rights(req.form, key', world')]
  BY DEF LadderInv, LadderTypeOK, Others
<1>2. key' \in Row /\ MaxChanges \in Nat
  BY <1>1, LadderAssumption
<1>3. Rights(req.form, key', world') \subseteq {"public", "any", "read", "write", "admin"}
  BY <1>2, RightsFacts
<1>4. PICK more : more = Rights(req.form, key', world')
  OBVIOUS
<1>5. req' \in LadderRequest
  <2>1. req.changes + 1 \in 0 .. MaxChanges
    BY <1>1, <1>2 DEF LadderRequest
  <2>2. req' = [req EXCEPT !.changes = req.changes + 1, !.held = req.held \cup more]
    BY <1>1, <1>4 DEF LadderRequest
  <2>3. req.held \cup more \in SUBSET {"public", "any", "read", "write", "admin"}
    BY <1>1, <1>3, <1>4 DEF LadderRequest
  <2> QED BY <1>1, <2>1, <2>2, <2>3 DEF LadderRequest
<1>6. /\ req'.route = req.route /\ req'.form = req.form /\ req'.faults = req.faults
      /\ req'.origin = req.origin /\ req'.pc = req.pc /\ req'.row = req.row
      /\ req'.answer = req.answer /\ req'.allow = req.allow
      /\ req'.held = req.held \cup more
  BY <1>1, <1>4 DEF LadderRequest
<1>7. Program(req') = Program(req)
  BY <1>6 DEF Program
<1>8. LadderTypeOK'
  <2>1. req'.changes \in 0 .. MaxChanges
    BY <1>5 DEF LadderRequest
  <2> QED BY <1>1, <1>3, <1>4, <1>6, <1>7, <2>1 DEF LadderInv, LadderTypeOK
<1>9. RightsHeld(req'.row, req')
  BY <1>6 DEF LadderInv, RightsHeld
<1>10. Running'
  <2>1. PassedBelow(req', req.pc)
    BY <1>1, <1>6, PassedKept DEF LadderInv, Running
  <2> QED BY <1>1, <1>4, <1>6, <1>7, <2>1 DEF LadderInv, Running
<1>11. Answered' /\ AllowSettled'
  BY <1>1, <1>6 DEF LadderInv, Answered, AllowSettled
<1> QED BY <1>1, <1>5, <1>6, <1>8, <1>9, <1>10, <1>11 DEF LadderInv

LEMMA PreflightStep == LadderInv /\ Preflight => LadderInv'
<1> SUFFICES ASSUME LadderInv, Preflight PROVE LadderInv'
  OBVIOUS
<1>1. PICK allow : allow = Match(ParseOrigins(config), req.origin)
  OBVIOUS
<1>2. /\ req \in LadderRequest /\ req.route = "preflight"
      /\ req' = [req EXCEPT !.answer = "ok", !.allow = allow]
      /\ UNCHANGED <<config, key, world>> /\ allow \in {"none", "echo", Star}
  BY <1>1, MatchType DEF LadderInv, Preflight
<1>3. req' \in LadderRequest
  BY <1>2 DEF LadderRequest
<1>4. /\ req'.route = req.route /\ req'.form = req.form /\ req'.faults = req.faults
      /\ req'.origin = req.origin /\ req'.pc = req.pc /\ req'.row = req.row
      /\ req'.held = req.held /\ req'.changes = req.changes
      /\ req'.answer = "ok" /\ req'.allow = allow
  BY <1>2 DEF LadderRequest
<1>5. Program(req') = Program(req)
  BY <1>4 DEF Program
<1>6. LadderTypeOK'
  BY <1>2, <1>4, <1>5 DEF LadderInv, LadderTypeOK
<1>7. RightsHeld(req'.row, req') /\ Running' /\ Answered' /\ AllowSettled'
  BY <1>1, <1>2, <1>4 DEF LadderInv, RightsHeld, Running, Answered, AllowSettled
<1> QED BY <1>2, <1>3, <1>4, <1>6, <1>7 DEF LadderInv

(* A statement that its checks let through leaves a world, and makes no    *)
(* bucket public but where it is the last of its route.                    *)
LEMMA EffectFacts ==
  ASSUME NEW w \in World, NEW c \in Known, NEW v \in Effect(c, w),
         NEW r, NEW row, ~Refuses(c, r, row, w),
         c = "dropBucket" => ~Refuses("unreferenced", r, row, w)
  PROVE  /\ v \in World
         /\ v.bucket = "public" => w.bucket = "public" \/ c \in {"makeBucket", "setPublic"}
<1>1. PICK refused : refused = WorldRefused(w)
  OBVIOUS
<1>2. /\ refused["dropBucket"] = (w.bucket = "absent")
      /\ refused["unreferenced"] = (w.object \/ ~(w.session = "absent"))
      /\ refused["putObject"] = (w.bucket = "absent")
      /\ refused["makeSession"] = (w.bucket = "absent")
      /\ refused["complete"] = (w.session = "absent")
  BY <1>1 DEF WorldRefused
<1>3. \A x \in {"dropBucket", "unreferenced", "putObject", "makeSession", "complete"} :
        Refuses(x, r, row, w) = refused[x]
  BY <1>1 DEF Refuses, Fault, FaultCode, CallerChecks
<1>4. /\ w.bucket \in {"absent", "private", "public"} /\ w.object \in BOOLEAN
      /\ w.session \in {"absent", "active", "expired"}
      /\ w.bucket = "absent" => ~w.object /\ w.session = "absent"
      /\ w = [bucket |-> w.bucket, object |-> w.object, session |-> w.session]
  BY DEF World
<1>5. CASE c \in {"makeBucket", "setPublic"}
  <2>1. PICK b \in {"private", "public"} : v = [w EXCEPT !.bucket = b]
    BY <1>5 DEF Effect
  <2> QED BY <1>4, <1>5, <2>1 DEF World
<1>6. CASE c = "dropBucket"
  <2>1. v = [w EXCEPT !.bucket = "absent"]
    BY <1>6 DEF Effect
  <2>2. ~w.object /\ w.session = "absent"
    BY <1>2, <1>3, <1>6
  <2> QED BY <1>4, <1>6, <2>1, <2>2 DEF World
<1>7. CASE c = "putObject"
  <2>1. v = [w EXCEPT !.object = TRUE] /\ w.bucket # "absent"
    BY <1>2, <1>3, <1>7 DEF Effect
  <2> QED BY <1>4, <1>7, <2>1 DEF World
<1>8. CASE c = "dropObject"
  <2>1. v = [w EXCEPT !.object = FALSE]
    BY <1>8 DEF Effect
  <2> QED BY <1>4, <1>8, <2>1 DEF World
<1>9. CASE c = "makeSession"
  <2>1. v = [w EXCEPT !.session = "active"] /\ w.bucket # "absent"
    BY <1>2, <1>3, <1>9 DEF Effect
  <2> QED BY <1>4, <1>9, <2>1 DEF World
<1>10. CASE c = "complete"
  <2>1. v = [w EXCEPT !.object = TRUE, !.session = "absent"] /\ w.bucket # "absent"
    BY <1>2, <1>3, <1>4, <1>10 DEF Effect
  <2> QED BY <1>4, <1>10, <2>1 DEF World
<1>11. CASE c = "dropSession"
  <2>1. v = [w EXCEPT !.session = "absent"]
    BY <1>11 DEF Effect
  <2> QED BY <1>4, <1>11, <2>1 DEF World
<1>12. CASE c \notin {"makeBucket", "setPublic", "dropBucket", "putObject", "dropObject",
                      "makeSession", "complete", "dropSession"}
  BY <1>12 DEF Effect
<1> QED BY <1>5, <1>6, <1>7, <1>8, <1>9, <1>10, <1>11, <1>12

(* What a step of the request itself does, with its parts named.           *)
LEMMA CheckFacts ==
  ASSUME LadderInv, Check
  PROVE  \E row, next, answer, allow :
           /\ <<row, next, answer>> = <<Outcome(req, key, world).row,
                  Outcome(req, key, world).pc, Outcome(req, key, world).answer>>
           /\ allow = Match(ParseOrigins(config), req.origin)
           /\ req' = [req EXCEPT !.row = row, !.pc = next, !.answer = answer,
                                 !.allow = allow]
           /\ req'.route = req.route /\ req'.form = req.form
           /\ req'.faults = req.faults /\ req'.origin = req.origin
           /\ req'.held = req.held /\ req'.changes = req.changes
           /\ req'.row = row /\ req'.pc = next
           /\ req'.answer = answer /\ req'.allow = allow
<1>1. PICK row, next, answer :
        /\ row = Outcome(req, key, world).row /\ next = Outcome(req, key, world).pc
        /\ answer = Outcome(req, key, world).answer
  OBVIOUS
<1>2. PICK allow : allow = Match(ParseOrigins(config), req.origin)
  OBVIOUS
<1>3. req.pc > 0 => req.allow = allow
  BY <1>2 DEF LadderInv, AllowSettled
<1>4. req' = [req EXCEPT !.row = row, !.pc = next, !.answer = answer, !.allow = allow]
  BY <1>1, <1>2, <1>3 DEF Check
<1>5. /\ req'.route = req.route /\ req'.form = req.form
      /\ req'.faults = req.faults /\ req'.origin = req.origin
      /\ req'.held = req.held /\ req'.changes = req.changes
      /\ req'.row = row /\ req'.pc = next
      /\ req'.answer = answer /\ req'.allow = allow
  BY <1>4 DEF LadderInv, LadderRequest
<1> QED BY <1>1, <1>2, <1>4, <1>5

LEMMA CheckStep == LadderInv /\ Check => LadderInv'
<1> SUFFICES ASSUME LadderInv, Check PROVE LadderInv'
  OBVIOUS
<1>1. PICK row, next, answer, allow :
        /\ <<row, next, answer>> = <<Outcome(req, key, world).row,
               Outcome(req, key, world).pc, Outcome(req, key, world).answer>>
        /\ allow = Match(ParseOrigins(config), req.origin)
        /\ req' = [req EXCEPT !.row = row, !.pc = next, !.answer = answer,
                              !.allow = allow]
        /\ req'.route = req.route /\ req'.form = req.form
        /\ req'.faults = req.faults /\ req'.origin = req.origin
        /\ req'.held = req.held /\ req'.changes = req.changes
        /\ req'.row = row /\ req'.pc = next
        /\ req'.answer = answer /\ req'.allow = allow
  BY CheckFacts
<1>2. /\ req \in LadderRequest /\ req.route \in Route /\ req.form \in Form
      /\ req.answer = "pending" /\ req.route # "preflight"
      /\ key \in KeyRows /\ key \in Row /\ world \in World
      /\ config' = config /\ key' = key
  BY LadderAssumption DEF LadderInv, LadderTypeOK, Check, LadderRequest
<1>3. PICK p, size : p = Program(req) /\ size = Len(p)
  OBVIOUS
<1>4. size \in Nat /\ req.pc \in 0 .. size /\ Len(Program(req)) = size
  <2>1. Len(Program(req)) \in Nat
    BY <1>2, ProgramFacts
  <2>2. req.pc \in Nat /\ req.pc <= Len(Program(req))
    BY <1>2 DEF LadderInv, LadderRequest, Running
  <2> QED BY <1>3, <2>1, <2>2
<1>5. PICK m \in req.pc .. next :
        /\ next \in req.pc + 1 .. size + 1
        /\ next <= size => p[next] \in Reads
        /\ row = IF req.pc > 0 /\ p[req.pc] = "live" THEN key ELSE req.row
        /\ \A j \in req.pc .. m - 1 : j > 0 => ~Refuses(p[j], req, row, world)
        /\ m < next => m > 0 /\ Refuses(p[m], req, row, world)
        /\ answer = IF m < next THEN CodeOf(p[m])
                    ELSE IF next > size THEN "ok" ELSE "pending"
  <2>1. req.pc \in 0 .. Len(Program(req))
    BY <1>4
  <2>2. /\ row = Outcome(req, key, world).row /\ next = Outcome(req, key, world).pc
        /\ answer = Outcome(req, key, world).answer
    BY <1>1
  <2>3. LET out == Outcome(req, key, world)
        IN  /\ out.pc \in req.pc + 1 .. Len(Program(req)) + 1
            /\ out.pc <= Len(Program(req)) => Program(req)[out.pc] \in Reads
            /\ out.row = IF req.pc > 0 /\ Program(req)[req.pc] = "live"
                           THEN key ELSE req.row
            /\ \E m \in req.pc .. out.pc :
                 /\ \A j \in req.pc .. m - 1 :
                      j > 0 => ~Refuses(Program(req)[j], req, out.row, world)
                 /\ m < out.pc =>
                      m > 0 /\ Refuses(Program(req)[m], req, out.row, world)
                 /\ out.answer = IF m < out.pc THEN CodeOf(Program(req)[m])
                                 ELSE IF out.pc > Len(Program(req)) THEN "ok"
                                 ELSE "pending"
    BY <1>2, <2>1, OutcomeFacts
  <2>4. size = Len(Program(req))
    BY <1>4
  <2>5. /\ next \in req.pc + 1 .. size + 1 /\ (next <= size => p[next] \in Reads)
        /\ row = IF req.pc > 0 /\ p[req.pc] = "live" THEN key ELSE req.row
    BY <1>3, <2>2, <2>3, <2>4
  <2>6. \E m \in req.pc .. next :
          /\ \A j \in req.pc .. m - 1 : j > 0 => ~Refuses(p[j], req, row, world)
          /\ m < next => m > 0 /\ Refuses(p[m], req, row, world)
          /\ answer = IF m < next THEN CodeOf(p[m])
                      ELSE IF next > size THEN "ok" ELSE "pending"
    BY <1>3, <2>2, <2>3, <2>4
  <2> QED BY <2>5, <2>6
<1>6. next \in Nat /\ req.pc \in Nat /\ m \in Nat /\ next <= size + 1 /\ m <= next
  BY <1>4, <1>5
<1>7. \A j \in 1 .. size :
        /\ p[j] \in Known
        /\ p[j] = "live" =>
             j = 4 /\ req.form # "anonymous" /\ \A i \in 1 .. 3 : p[i] \in Fault
        /\ p[j] \in {"makeBucket", "setPublic"} => j = size
        /\ p[j] = "dropBucket" => j < size /\ p[j + 1] = "unreferenced"
  BY <1>2, <1>3, ProgramOrder, ZenonT(30)
<1>8. \A x \in Rights(req.form, key, world) : x \in req.held
  BY <1>2 DEF LadderInv, Running
<1>9. world.bucket = "public" => "public" \in req.held
  BY <1>2, <1>8, RightsFacts
<1>10. row \in KeyRows \cup {NoCaller} /\ row \in Row
  BY <1>2, <1>5, NobodyAllows, LadderAssumption DEF LadderRequest
<1>11. RightsHeld(row, req') /\ (req.form = "anonymous" => row = NoCaller)
  <2>1. CASE req.pc > 0 /\ p[req.pc] = "live"
    <3>1. req.form # "anonymous" /\ row = key
      BY <1>4, <1>5, <1>7, <2>1
    <3>2. /\ key.live => "any" \in req.held
          /\ \A x \in {"read", "write"} : key.live /\ Allows(key, x) => x \in req.held
          /\ key.live /\ key.admin => "admin" \in req.held
      BY <1>2, <1>8, <3>1, RightsFacts
    <3> QED BY <1>1, <3>1, <3>2 DEF RightsHeld
  <2>2. CASE ~(req.pc > 0 /\ p[req.pc] = "live")
    BY <1>1, <1>5, <2>2 DEF LadderInv, RightsHeld
  <2> QED BY <2>1, <2>2
<1>12. \A j \in 1 .. m - 1 : Passed(p[j], req')
  <2> SUFFICES ASSUME NEW j \in 1 .. m - 1 PROVE Passed(p[j], req')
    OBVIOUS
  <2>1. j \in 1 .. size /\ p[j] \in Known
    BY <1>4, <1>6, <1>7
  <2>2. CASE j >= req.pc
    <3>1. ~Refuses(p[j], req, req'.row, world)
      <4>1. j \in req.pc .. m - 1 /\ j > 0
        BY <1>6, <2>2
      <4> QED BY <1>1, <1>5, <4>1
    <3> QED BY <1>1, <1>2, <1>9, <2>1, <3>1, CheckPasses
  <2>3. CASE j < req.pc
    <3>1. Passed(p[j], req)
      <4>1. j \in 1 .. req.pc - 1
        BY <1>6, <2>3
      <4> QED BY <1>2, <1>3, <4>1 DEF LadderInv, Running, PassedBelow
    <3>2. CASE p[req.pc] = "live"
      <4>1. p[j] \in Fault
        <5>1. req.pc \in 1 .. size
          BY <1>4, <1>6, <2>3
        <5>2. req.pc = 4 /\ \A i \in 1 .. 3 : p[i] \in Fault
          BY <1>7, <3>2, <5>1
        <5> QED BY <2>3, <5>2
      <4> QED BY <4>1, FaultFacts DEF Passed
    <3>3. CASE p[req.pc] # "live"
      BY <1>1, <1>5, <3>1, <3>3 DEF Passed
    <3> QED BY <3>2, <3>3
  <2> QED BY <1>6, <2>2, <2>3
<1>13. Program(req') = p /\ PassedBelow(req', m)
  <2>1. Program(req') = p
    BY <1>1, <1>3 DEF Program
  <2> QED BY <1>12, <2>1 DEF PassedBelow
<1>14. answer \in {"pending", "ok"} <=> m = next
  <2>1. CASE m < next
    <3>1. m \in 1 .. size
      BY <1>4, <1>5, <1>6, <2>1
    <3>2. answer = CodeOf(p[m]) /\ p[m] \in Known
      BY <1>5, <1>7, <2>1, <3>1
    <3> QED BY <1>6, <2>1, <3>2, FaultFacts
  <2>2. CASE m = next
    BY <1>5, <1>6, <2>2
  <2> QED BY <1>6, <2>1, <2>2
<1>15. answer \in {"pending", "ok"} \cup {CodeOf(c) : c \in Fault \cup DOMAIN OtherCode}
  <2>1. CASE m < next
    <3>1. m \in 1 .. size
      BY <1>4, <1>5, <1>6, <2>1
    <3>2. answer = CodeOf(p[m]) /\ p[m] \in Known
      BY <1>5, <1>7, <2>1, <3>1
    <3> QED BY <3>2 DEF Known
  <2>2. CASE m = next
    BY <1>14, <2>2
  <2> QED BY <1>6, <2>1, <2>2
<1>16. allow \in {"none", "echo", Star}
  BY <1>1, MatchType
<1>17. req' \in LadderRequest
  BY <1>1, <1>2, <1>6, <1>10, <1>15, <1>16 DEF LadderRequest
<1>18. \/ world' = world
       \/ /\ req.pc > 0 /\ answer \in {"pending", "ok"}
          /\ world' \in Effect(p[req.pc], world)
  BY <1>1, <1>3 DEF Check
<1>19. /\ world' \in World
       /\ answer = "pending" => (world'.bucket = "public" => world.bucket = "public")
  <2>1. CASE world' = world
    BY <1>2, <2>1
  <2>2. CASE /\ req.pc > 0 /\ answer \in {"pending", "ok"}
             /\ world' \in Effect(p[req.pc], world)
    <3>1. req.pc \in 1 .. size /\ m = next
      BY <1>4, <1>14, <2>2
    <3>2. \A j \in req.pc .. next - 1 : ~Refuses(p[j], req, row, world)
      BY <1>5, <1>6, <3>1
    <3>3. p[req.pc] \in Known /\ ~Refuses(p[req.pc], req, row, world)
      BY <1>5, <1>6, <1>7, <3>1, <3>2
    <3>4. p[req.pc] = "dropBucket" => ~Refuses("unreferenced", req, row, world)
      <4> SUFFICES ASSUME p[req.pc] = "dropBucket"
                   PROVE  ~Refuses("unreferenced", req, row, world)
        OBVIOUS
      <4>1. req.pc < size /\ p[req.pc + 1] = "unreferenced"
        BY <1>7, <3>1
      <4>2. next # req.pc + 1
        BY <1>4, <1>5, <1>6, <4>1 DEF Reads
      <4>3. req.pc + 1 \in req.pc .. next - 1
        BY <1>5, <1>6, <4>2
      <4> QED BY <3>2, <4>1, <4>3
    <3>5. /\ world' \in World
          /\ world'.bucket = "public" =>
               world.bucket = "public" \/ p[req.pc] \in {"makeBucket", "setPublic"}
      BY <1>2, <2>2, <3>3, <3>4, EffectFacts
    <3>6. answer = "pending" => p[req.pc] \notin {"makeBucket", "setPublic"}
      <4>1. answer = "pending" => req.pc # size
        BY <1>4, <1>5, <1>6, <3>1
      <4> QED BY <1>7, <3>1, <4>1
    <3> QED BY <3>5, <3>6
  <2> QED BY <1>18, <2>1, <2>2
<1>20. LadderTypeOK'
  <2>1. next \in 0 .. Len(Program(req')) + 1
    BY <1>3, <1>4, <1>6, <1>13
  <2> QED BY <1>1, <1>2, <1>10, <1>15, <1>16, <1>19, <2>1 DEF LadderInv, LadderTypeOK
<1>21. Running'
  <2> SUFFICES ASSUME answer = "pending"
               PROVE  /\ next <= Len(Program(req'))
                      /\ Rights(req'.form, key', world') \subseteq req'.held
                      /\ PassedBelow(req', next)
    BY <1>1 DEF Running
  <2>1. m = next
    BY <1>14
  <2>2. next <= Len(Program(req')) /\ PassedBelow(req', next)
    BY <1>3, <1>4, <1>5, <1>6, <1>13, <2>1
  <2>3. \A x \in Rights(req.form, key, world') : x \in req.held
    <3>1. \A x \in Rights(req.form, key, world') :
            x \in Rights(req.form, key, world) \/ (x = "public" /\ world'.bucket = "public")
      BY <1>2, RightsFacts
    <3> QED BY <1>8, <1>9, <1>19, <3>1
  <2> QED BY <1>1, <1>2, <2>2, <2>3
<1>22. Answered'
  <2> SUFFICES ASSUME answer # "pending"
               PROVE  \E j \in 1 .. size + 1 :
                        /\ PassedBelow(req', j)
                        /\ answer = IF j <= size THEN CodeOf(p[j]) ELSE "ok"
    BY <1>1, <1>3, <1>13 DEF Answered
  <2>1. m \in 1 .. size + 1
    BY <1>4, <1>5, <1>6
  <2>2. answer = IF m <= size THEN CodeOf(p[m]) ELSE "ok"
    BY <1>4, <1>5, <1>6
  <2> QED BY <1>13, <2>1, <2>2
<1>23. AllowSettled'
  BY <1>1, <1>2 DEF AllowSettled
<1>24. RightsHeld(req'.row, req') /\ (req'.form = "anonymous" => req'.row = NoCaller)
  BY <1>1, <1>11
<1> QED BY <1>2, <1>17, <1>20, <1>21, <1>22, <1>23, <1>24 DEF LadderInv

(* LadderInv is inductive.                                                 *)
LEMMA LadderInvariant == LadderSpec => []LadderInv
<1>1. LadderInv /\ UNCHANGED ladderVars => LadderInv'
  BY DEF ladderVars, LadderInv, LadderTypeOK, Running, Answered, AllowSettled
<1>2. LadderInv /\ [LadderNext]_ladderVars => LadderInv'
  BY <1>1, OthersStep, PreflightStep, CheckStep DEF LadderNext
<1> QED BY <1>2, InitLadder, PTL DEF LadderSpec

----------------------------------------------------------------------------
(* The theorems.                                                           *)

(* The state of a request is well formed: its place in the chain, what it  *)
(* has of its caller and its answer (every handler behind New in           *)
(* httpapi.go).                                                            *)
THEOREM LadderTyped == LadderSpec => []LadderTypeOK
BY LadderInvariant, PTL DEF LadderInv

LEMMA GrantedFromInv == LadderInv => OnlyGranted
<1> SUFFICES ASSUME LadderInv, req.answer \notin EarlyCode \cup {"pending"},
                    req.route # "preflight"
             PROVE  /\ \/ \E right \in DOMAIN Needs :
                            right \in req.held /\ req.route \in Needs[right]
                       \/ req.route = "health"
                       \/ <<req.route, req.answer>> \in ToAnyKey /\ "any" \in req.held
                    /\ req.form # "anonymous" => "any" \in req.held
  BY DEF OnlyGranted
<1>1. /\ req \in LadderRequest /\ req.route \in Route /\ req.form \in Form
      /\ RightsHeld(req.row, req) /\ (req.form = "anonymous" => req.row = NoCaller)
  BY DEF LadderInv, LadderRequest
<1>2. PICK p, n, chain :
        p = Program(req) /\ n = Len(Authenticate[req.form]) /\ chain = Chain[req.route]
  OBVIOUS
<1>3. /\ Len(p) \in Nat /\ n \in {0, 7} /\ Len(chain) \in Nat
      /\ Len(p) = n + Len(chain)
      /\ \A j \in 1 .. n : p[j] = Authenticate[req.form][j]
      /\ \A k \in 1 .. Len(chain) : p[n + k] = chain[k]
  BY <1>1, <1>2, ProgramFacts, Zenon
<1>4. PICK j \in 1 .. Len(p) + 1 :
        /\ \A i \in 1 .. j - 1 : Passed(p[i], req)
        /\ req.answer = IF j <= Len(p) THEN CodeOf(p[j]) ELSE "ok"
  BY <1>2 DEF LadderInv, Answered, PassedBelow
<1>5. j > n
  <2> SUFFICES ASSUME j <= n PROVE FALSE
    BY <1>3
  <2>1. j \in 1 .. n /\ j <= Len(p)
    BY <1>3
  <2>2. CodeOf(Authenticate[req.form][j]) \in EarlyCode
    BY <1>1, <1>2, <2>1, AuthenticateOrder
  <2> QED BY <1>3, <1>4, <2>1, <2>2
<1>6. PICK k \in 1 .. Len(chain) + 1 : j = n + k
  <2>1. j - n \in 1 .. Len(chain) + 1 /\ j = n + (j - n)
    BY <1>3, <1>4, <1>5
  <2> QED BY <2>1
<1>7. k <= Len(chain) => j <= Len(p) /\ p[j] = chain[k]
  BY <1>3, <1>6
<1>8. k <= Len(chain) => req.answer = CodeOf(chain[k])
  BY <1>4, <1>7
<1>9. Entitled(req.route, k)
  <2>1. k \in 1 .. Len(Chain[req.route]) + 1
    BY <1>2
  <2>2. k <= Len(Chain[req.route]) => CodeOf(Chain[req.route][k]) \notin EarlyCode
    BY <1>2, <1>8
  <2> QED BY <1>1, <2>1, <2>2, AnswersAreEntitled
<1>10. ASSUME NEW c, Ahead(req.route, k, c) PROVE Passed(c, req)
  <2>1. PICK i \in 1 .. k - 1 : chain[i] = c
    BY <1>2, <1>10 DEF Ahead
  <2>2. i \in 1 .. Len(chain) /\ n + i \in 1 .. j - 1
    BY <1>3, <1>6
  <2> QED BY <1>3, <1>4, <2>1, <2>2
<1>11. req.form # "anonymous" => req.row.live
  <2> SUFFICES ASSUME req.form # "anonymous" PROVE req.row.live
    OBVIOUS
  <2>1. n = 7 /\ Authenticate[req.form][4] = "live"
    BY <1>1, <1>2, AuthenticateOrder
  <2>2. 4 \in 1 .. n /\ 4 \in 1 .. j - 1
    BY <1>5, <2>1
  <2>3. Passed("live", req)
    BY <1>3, <1>4, <2>1, <2>2
  <2> QED BY <2>3 DEF Passed
<1>12. /\ req.form # "anonymous" => "any" \in req.held
       /\ \A x \in {"read", "write"} : Allows(req.row, x) => x \in req.held
       /\ req.row.admin => "admin" \in req.held
  BY <1>1, <1>11, NobodyAllows DEF RightsHeld
<1>13. DOMAIN Needs = {"any", "read", "public", "write", "admin"}
  BY DEF Needs
<1>14. CASE Ahead(req.route, k, "route")
  BY <1>10, <1>14 DEF Passed
<1>15. CASE Ahead(req.route, k, "admin") /\ req.route \in Needs["admin"]
  <2>1. Passed("admin", req)
    BY <1>10, <1>15
  <2> QED BY <1>12, <1>13, <1>15, <2>1 DEF Passed
<1>16. CASE Ahead(req.route, k, "write") /\ req.route \in Needs["write"]
  <2>1. Passed("write", req)
    BY <1>10, <1>16
  <2> QED BY <1>12, <1>13, <1>16, <2>1 DEF Passed
<1>17. CASE Ahead(req.route, k, "read") /\ req.route \in Needs["read"]
  <2>1. Passed("read", req)
    BY <1>10, <1>17
  <2> QED BY <1>12, <1>13, <1>17, <2>1 DEF Passed
<1>18. CASE /\ Ahead(req.route, k, "publicOrRead") /\ Ahead(req.route, k, "publicOrAuth")
            /\ req.route \in Needs["read"] /\ req.route \in Needs["public"]
  <2>1. Passed("publicOrRead", req) /\ Passed("publicOrAuth", req)
    BY <1>10, <1>18
  <2>2. "public" \in req.held \/ "read" \in req.held
    BY <1>12, <2>1 DEF Passed
  <2> QED BY <1>12, <1>13, <1>18, <2>2
<1>19. CASE /\ Ahead(req.route, k, "auth")
            /\ \/ req.route \in Needs["any"]
               \/ k <= Len(chain) /\ <<req.route, CodeOf(chain[k])>> \in ToAnyKey
  <2>1. Passed("auth", req)
    BY <1>10, <1>19
  <2> QED BY <1>8, <1>12, <1>13, <1>19, <2>1 DEF Passed
<1>20. CASE req.route \in {"health", "preflight"}
  BY <1>12, <1>20
<1> QED BY <1>2, <1>9, <1>14, <1>15, <1>16, <1>17, <1>18, <1>19, <1>20 DEF Entitled

(* Whatever a request is answered past the first stages, it had the right  *)
(* its route asks for at some time since it began (ADR-0004, requireAuth,  *)
(* requireAccess, readableBucket and sessionWritable), whichever keys,     *)
(* buckets, objects and sessions other requests change between its reads.  *)
THEOREM AnswersAreGranted == LadderSpec => []OnlyGranted
BY LadderInvariant, GrantedFromInv, PTL

----------------------------------------------------------------------------
(* What the next checks tell of a private bucket.                          *)

(* Sets that agree up to a common element below have the same first one.   *)
LEMMA SameFirst ==
  ASSUME NEW S, NEW T, S \subseteq Nat, T \subseteq Nat,
         \A x \in S : x \in T \/ \E y \in S \cap T : y < x,
         \A x \in T : x \in S \/ \E y \in S \cap T : y < x
  PROVE  /\ S = {} <=> T = {}
         /\ S # {} => Min(S) = Min(T)
<1>1. S = {} <=> T = {}
  OBVIOUS
<1>2. ASSUME S # {} PROVE Min(S) = Min(T)
  <2>1. PICK a, b : a = Min(S) /\ b = Min(T)
    OBVIOUS
  <2>2. /\ a \in S /\ (\A y \in S : a <= y)
        /\ b \in T /\ (\A y \in T : b <= y)
    BY <1>1, <1>2, <2>1, LeastElement
  <2>3. a \in T
    BY <2>2
  <2>4. b \in S
    BY <2>2
  <2> QED BY <2>1, <2>2, <2>3, <2>4
<1> QED BY <1>1, <1>2

(* The checks of the caller, where the bucket is not public.               *)
LEMMA CallerRefusals ==
  ASSUME NEW r, NEW row, NEW u, u.bucket # "public"
  PROVE  /\ Refuses("live", r, row, u) <=> ~row.live
         /\ Refuses("auth", r, row, u) <=> r.form = "anonymous"
         /\ Refuses("admin", r, row, u) <=> ~row.admin
         /\ Refuses("read", r, row, u) <=> ~Allows(row, "read")
         /\ Refuses("write", r, row, u) <=> ~Allows(row, "write")
         /\ Refuses("publicOrRead", r, row, u) <=>
              r.form # "anonymous" /\ ~Allows(row, "read")
         /\ Refuses("publicOrAuth", r, row, u) <=> r.form = "anonymous"
         /\ Refuses("presign", r, row, u) <=> r.form = "presign"
         /\ Refuses("route", r, row, u)
<1>1. PICK refused : refused = CallerRefused(r, row, u)
  OBVIOUS
<1>2. \A c \in CallerChecks : Refuses(c, r, row, u) = refused[c]
  BY <1>1 DEF Refuses, CallerChecks, Fault, FaultCode
<1>3. /\ refused["live"] = ~row.live /\ refused["auth"] = (r.form = "anonymous")
      /\ refused["admin"] = ~row.admin
      /\ refused["read"] = ~Allows(row, "read")
      /\ refused["write"] = ~Allows(row, "write")
      /\ refused["publicOrRead"] = (/\ ~(u.bucket = "public")
                                    /\ ~(r.form = "anonymous")
                                    /\ ~Allows(row, "read"))
      /\ refused["publicOrAuth"] = (~(u.bucket = "public") /\ r.form = "anonymous")
      /\ refused["presign"] = (r.form = "presign") /\ refused["route"] = TRUE
  BY <1>1 DEF CallerRefused
<1>4. {"live", "auth", "admin", "read", "write", "publicOrRead", "publicOrAuth",
       "presign", "route"} \subseteq CallerChecks
  BY DEF CallerChecks
<1> QED BY <1>2, <1>3, <1>4

(* Every other check comes out the same in two worlds with one session.    *)
LEMMA SameRefusal ==
  ASSUME NEW r, NEW row, NEW u \in World, NEW v \in World,
         u.bucket # "public", v.bucket # "public", u.session = v.session,
         NEW c \in Known, c \notin Telling, c # "listed"
  PROVE  Refuses(c, r, row, u) <=> Refuses(c, r, row, v)
<1>1. CASE c \in Fault
  BY <1>1 DEF Refuses
<1>2. CASE c \in CallerChecks
  <2>1. c \in {"presign", "route", "live", "auth", "admin", "read", "write",
               "publicOrRead", "publicOrAuth"}
    BY <1>2 DEF CallerChecks
  <2> QED BY <2>1, CallerRefusals
<1>3. CASE c \notin Fault /\ c \notin CallerChecks
  <2>1. c \in {"session", "active", "noUploads", "putPart", "complete", "dropSession"}
    BY <1>3 DEF Known, CallerChecks, OtherCode, Telling
  <2>2. PICK f, g : f = WorldRefused(u) /\ g = WorldRefused(v)
    OBVIOUS
  <2>3. /\ f["session"] = (u.session = "absent") /\ g["session"] = (v.session = "absent")
        /\ f["active"] = (u.session = "expired") /\ g["active"] = (v.session = "expired")
        /\ f["noUploads"] = ~(u.session = "absent") /\ g["noUploads"] = ~(v.session = "absent")
        /\ f["putPart"] = (u.session = "absent") /\ g["putPart"] = (v.session = "absent")
        /\ f["complete"] = (u.session = "absent") /\ g["complete"] = (v.session = "absent")
        /\ f["dropSession"] = (u.session = "absent")
        /\ g["dropSession"] = (v.session = "absent")
    BY <2>2 DEF WorldRefused
  <2>4. Refuses(c, r, row, u) = f[c] /\ Refuses(c, r, row, v) = g[c]
    BY <1>3, <2>2 DEF Refuses
  <2> QED BY <2>1, <2>3, <2>4
<1> QED BY <1>1, <1>2, <1>3

(* A check that tells of the bucket comes after one that refuses whoever   *)
(* may not read it, in every world where the bucket is not public.         *)
LEMMA TellingIsShielded ==
  ASSUME LadderInv, req.answer = "pending", req.held \cap {"read", "public"} = {},
         NEW row, row = IF req.pc > 0 /\ Program(req)[req.pc] = "live"
                          THEN key ELSE req.row,
         NEW j \in 1 .. Len(Program(req)), req.pc <= j,
         Program(req)[j] \in Telling \cup {"listed"}
  PROVE  \/ \E i \in req.pc .. j - 1 :
              /\ i > 0
              /\ \A u \in World :
                   u.bucket # "public" => Refuses(Program(req)[i], req, row, u)
         \/ /\ Program(req)[j] = "listed"
            /\ ~Allows(row, "read")
<1>1. /\ req \in LadderRequest /\ req.route \in Route /\ req.form \in Form
      /\ key \in Row /\ req.row \in Row /\ req.pc \in Nat
      /\ RightsHeld(req.row, req) /\ (req.form = "anonymous" => req.row = NoCaller)
  BY LadderAssumption, NobodyAllows DEF LadderInv, LadderRequest, LadderTypeOK
<1>2. PICK p, n, chain :
        p = Program(req) /\ n = Len(Authenticate[req.form]) /\ chain = Chain[req.route]
  OBVIOUS
<1>3. /\ Len(p) \in Nat /\ n \in {0, 7} /\ Len(chain) \in Nat
      /\ Len(p) = n + Len(chain)
      /\ \A i \in 1 .. n : p[i] = Authenticate[req.form][i]
      /\ \A k \in 1 .. Len(chain) : p[n + k] = chain[k]
  BY <1>1, <1>2, ProgramFacts, Zenon
<1>4. j \in 1 .. Len(p) /\ p[j] \in Telling \cup {"listed"}
  BY <1>2
<1>5. j > n
  <2> SUFFICES ASSUME j <= n PROVE FALSE
    BY <1>3, <1>4
  <2>1. j \in 1 .. n
    BY <1>4
  <2>2. Authenticate[req.form][j] \in Fault \cup {"live"}
    BY <1>1, <1>2, <2>1, AuthenticateOrder
  <2> QED BY <1>3, <1>4, <2>1, <2>2 DEF Telling, Fault, FaultCode
<1>6. PICK k \in 1 .. Len(chain) : j = n + k
  <2>1. j - n \in 1 .. Len(chain) /\ j = n + (j - n)
    BY <1>3, <1>4, <1>5
  <2> QED BY <2>1
<1>7. p[j] = chain[k] /\ Ordered(req.route, k)
  BY <1>1, <1>2, <1>3, <1>6, ChecksAreOrdered
<1>8. \A i \in 1 .. req.pc - 1 : Passed(p[i], req)
  BY <1>2 DEF LadderInv, Running, PassedBelow
<1>9. \/ row = req.row
      \/ row = key /\ req.pc = 4 /\ req.form # "anonymous"
  <2> SUFFICES ASSUME req.pc > 0, p[req.pc] = "live"
               PROVE  req.pc = 4 /\ req.form # "anonymous"
    BY <1>2
  <2>1. req.pc \in 1 .. Len(p)
    BY <1>1, <1>3, <1>4
  <2>2. req.pc \in 1 .. Len(Program(req))
    BY <1>2, <2>1, Zenon
  <2> QED BY <1>1, <1>2, <2>2, ProgramOrder
<1>10. row \in Row /\ (req.form = "anonymous" => row = NoCaller)
  BY <1>1, <1>9
<1>11. row.live => ~Allows(row, "read")
  <2>1. RightsHeld(row, req)
    <3>1. CASE row = req.row
      BY <1>1, <3>1
    <3>2. CASE row = key /\ row # req.row
      <4>1. \A x \in Rights(req.form, key, world) : x \in req.held
        BY DEF LadderInv, Running
      <4>2. req.form # "anonymous"
        BY <1>1, <1>10, <3>2
      <4> QED BY <1>1, <3>2, <4>1, <4>2, RightsFacts DEF RightsHeld
    <3> QED BY <3>1, <3>2
  <2> QED BY <2>1 DEF RightsHeld
<1>12. CASE Allows(row, "read")
  <2>1. ~row.live /\ req.form # "anonymous"
    BY <1>10, <1>11, <1>12, NobodyAllows
  <2>2. n = 7 /\ Authenticate[req.form][4] = "live"
    BY <1>1, <1>2, <2>1, AuthenticateOrder
  <2>3. p[4] = "live" /\ 4 < j
    BY <1>3, <1>5, <2>2
  <2>4. req.pc <= 4
    <3> SUFFICES ASSUME req.pc > 4 PROVE FALSE
      BY <1>1
    <3>1. row = req.row /\ 4 \in 1 .. req.pc - 1
      BY <1>1, <1>9
    <3>2. Passed("live", req)
      BY <1>8, <2>3, <3>1
    <3> QED BY <2>1, <3>1, <3>2 DEF Passed
  <2>5. 4 \in req.pc .. j - 1 /\ 4 > 0
    BY <1>1, <1>3, <2>3, <2>4
  <2>6. \A u \in World : u.bucket # "public" => Refuses(p[4], req, row, u)
    BY <2>1, <2>3, CallerRefusals
  <2> QED BY <1>2, <2>5, <2>6
<1>13. CASE ~Allows(row, "read")
  <2> SUFFICES ASSUME p[j] \in Telling
               PROVE  \E i \in req.pc .. j - 1 :
                        /\ i > 0
                        /\ \A u \in World :
                             u.bucket # "public" => Refuses(p[i], req, row, u)
    BY <1>2, <1>4, <1>13
  <2>1. ~row.admin /\ ~Allows(row, "write")
    BY <1>10, <1>13 DEF Allows, Covers, Row, Access
  <2>2. Shielded(req.route, k)
    BY <1>2, <1>7 DEF Ordered
  <2>3. ASSUME NEW c, Ahead(req.route, k, c),
               \A u \in World : u.bucket # "public" => Refuses(c, req, row, u),
               ~Passed(c, [req EXCEPT !.row = row])
        PROVE  \E i \in req.pc .. j - 1 :
                 /\ i > 0
                 /\ \A u \in World : u.bucket # "public" => Refuses(p[i], req, row, u)
    <3>1. PICK i0 \in 1 .. k - 1 : chain[i0] = c
      BY <1>2, <2>3 DEF Ahead
    <3>2. PICK i : i = n + i0
      OBVIOUS
    <3>3. i \in 1 .. j - 1 /\ p[i] = c /\ i > n
      BY <1>3, <1>6, <3>1, <3>2
    <3>4. i >= req.pc
      <4> SUFFICES ASSUME i < req.pc PROVE FALSE
        BY <1>1, <3>3
      <4>1. Passed(c, req)
        BY <1>1, <1>8, <3>3
      <4>2. row = req.row
        <5>1. req.form # "anonymous" => n = 7
          BY <1>1, <1>2, AuthenticateOrder
        <5> QED BY <1>1, <1>3, <1>9, <3>3, <5>1
      <4>3. [req EXCEPT !.row = row] = req
        BY <1>1, <4>2 DEF LadderRequest
      <4> QED BY <2>3, <4>1, <4>3
    <3>5. i \in req.pc .. j - 1 /\ i > 0
      BY <1>1, <3>3, <3>4
    <3> QED BY <2>3, <3>3, <3>5
  <2> DEFINE now == [req EXCEPT !.row = row]
  <2>4. now.row = row /\ now.form = req.form /\ now.held = req.held
    BY <1>1 DEF LadderRequest
  <2>5. CASE Ahead(req.route, k, "admin")
    <3>1. ~Passed("admin", now)
      BY <2>1, <2>4 DEF Passed
    <3>2. \A u \in World : u.bucket # "public" => Refuses("admin", req, row, u)
      BY <2>1, CallerRefusals
    <3> QED BY <2>3, <2>5, <3>1, <3>2
  <2>6. CASE Ahead(req.route, k, "write")
    <3>1. ~Passed("write", now)
      BY <2>1, <2>4 DEF Passed
    <3>2. \A u \in World : u.bucket # "public" => Refuses("write", req, row, u)
      BY <2>1, CallerRefusals
    <3> QED BY <2>3, <2>6, <3>1, <3>2
  <2>7. CASE Ahead(req.route, k, "read")
    <3>1. ~Passed("read", now)
      BY <1>13, <2>4 DEF Passed
    <3>2. \A u \in World : u.bucket # "public" => Refuses("read", req, row, u)
      BY <1>13, CallerRefusals
    <3> QED BY <2>3, <2>7, <3>1, <3>2
  <2>8. CASE Ahead(req.route, k, "publicOrRead") /\ req.form # "anonymous"
    <3>1. ~Passed("publicOrRead", now)
      BY <1>13, <2>4, <2>8 DEF Passed
    <3>2. \A u \in World : u.bucket # "public" => Refuses("publicOrRead", req, row, u)
      BY <1>13, <2>8, CallerRefusals
    <3> QED BY <2>3, <2>8, <3>1, <3>2
  <2>9. CASE Ahead(req.route, k, "publicOrAuth") /\ req.form = "anonymous"
    <3>1. ~Passed("publicOrAuth", now)
      BY <2>4, <2>9 DEF Passed
    <3>2. \A u \in World : u.bucket # "public" => Refuses("publicOrAuth", req, row, u)
      BY <2>9, CallerRefusals
    <3> QED BY <2>3, <2>9, <3>1, <3>2
  <2> QED BY <2>2, <2>5, <2>6, <2>7, <2>8, <2>9 DEF Shielded
<1> QED BY <1>12, <1>13

LEMMA HiddenFromInv == LadderInv => ExistenceHidden
<1> SUFFICES ASSUME LadderInv, req.answer = "pending",
                    req.held \cap {"read", "public"} = {}, NEW w \in World,
                    w.bucket # "public", w.session = world.session
             PROVE  Outcome(req, key, w) = Outcome(req, key, world)
  BY DEF ExistenceHidden
<1>1. /\ req.route \in Route /\ req.form \in Form /\ req.pc \in Nat
      /\ req.pc <= Len(Program(req)) /\ world \in World /\ key \in Row
  BY LadderAssumption DEF LadderInv, LadderRequest, Running, LadderTypeOK
<1>2. world.bucket # "public"
  BY <1>1, RightsFacts DEF LadderInv, Running
<1>3. Len(Program(req)) \in Nat
  BY <1>1, ProgramFacts
<1>4. PICK row, next :
        /\ row = IF req.pc > 0 /\ Program(req)[req.pc] = "live" THEN key ELSE req.row
        /\ next = NextRead(req, req.pc)
  OBVIOUS
<1>5. next \in req.pc + 1 .. Len(Program(req)) + 1
  BY <1>1, <1>3, <1>4, NextReadFacts
<1> DEFINE Failed(u) == {j \in req.pc .. next - 1 :
                           j > 0 /\ Refuses(Program(req)[j], req, row, u)}
<1>6. \A u : Outcome(req, key, u) =
        [row |-> row, pc |-> next,
         answer |-> IF Failed(u) # {} THEN CodeOf(Program(req)[Min(Failed(u))])
                    ELSE IF next > Len(Program(req)) THEN "ok" ELSE "pending"]
  BY <1>4 DEF Outcome
<1>7. ASSUME NEW j \in req.pc .. next - 1, j > 0
      PROVE  \/ j \in Failed(w) <=> j \in Failed(world)
             \/ \E i \in Failed(w) \cap Failed(world) : i < j
  <2>1. j \in 1 .. Len(Program(req)) /\ req.pc <= j
    BY <1>1, <1>3, <1>5, <1>7
  <2>2. PICK c : c = Program(req)[j]
    OBVIOUS
  <2>3. c \in Known
    BY <1>1, <2>1, <2>2, ProgramOrder
  <2>4. (Refuses(c, req, row, w) <=> Refuses(c, req, row, world))
          => (j \in Failed(w) <=> j \in Failed(world))
    BY <1>7, <2>2
  <2>5. CASE c \notin Telling /\ c # "listed"
    BY <1>1, <1>2, <2>3, <2>4, <2>5, SameRefusal
  <2>6. CASE c = "listed" /\ ~Allows(row, "read")
    <3>1. \A u : Refuses("listed", req, row, u)
      <4>1. \A u : CallerRefused(req, row, u)["listed"]
        BY <2>6 DEF CallerRefused
      <4> QED BY <4>1 DEF Refuses, CallerChecks, Fault, FaultCode
    <3> QED BY <2>4, <2>6, <3>1
  <2>7. CASE \E i \in req.pc .. j - 1 :
               /\ i > 0
               /\ \A u \in World :
                    u.bucket # "public" => Refuses(Program(req)[i], req, row, u)
    <3>1. PICK i \in req.pc .. j - 1 :
            /\ i > 0 /\ Refuses(Program(req)[i], req, row, w)
            /\ Refuses(Program(req)[i], req, row, world)
      BY <1>1, <1>2, <2>7
    <3>2. i \in req.pc .. next - 1 /\ i < j
      BY <1>1, <1>3, <1>5, <2>1
    <3> QED BY <3>1, <3>2
  <2> QED BY <1>4, <2>1, <2>2, <2>5, <2>6, <2>7, TellingIsShielded
<1>8. Failed(w) \subseteq Nat /\ Failed(world) \subseteq Nat
  BY <1>1, <1>3, <1>5
<1>9. /\ \A j \in Failed(w) : j \in Failed(world)
                              \/ \E i \in Failed(w) \cap Failed(world) : i < j
      /\ \A j \in Failed(world) : j \in Failed(w)
                                  \/ \E i \in Failed(w) \cap Failed(world) : i < j
  <2>1. \A u, j : j \in Failed(u) => j \in req.pc .. next - 1 /\ j > 0
    OBVIOUS
  <2> HIDE DEF Failed
  <2> QED BY <1>7, <2>1
<1> HIDE DEF Failed
<1>10. /\ Failed(w) = {} <=> Failed(world) = {}
       /\ Failed(w) # {} => Min(Failed(w)) = Min(Failed(world))
  BY <1>8, <1>9, SameFirst
<1> QED BY <1>6, <1>10

(* Nobody who could not read a bucket since its request began learns from  *)
(* the way the request goes on whether the bucket exists or what it holds  *)
(* (readableBucket, requireAccess, sessionWritable): every check that      *)
(* would tell stands behind one that refuses it in either world.           *)
THEOREM ExistenceStaysHidden == LadderSpec => []ExistenceHidden
BY LadderInvariant, HiddenFromInv, PTL

----------------------------------------------------------------------------
(* The allow header.                                                       *)

Letter == {Lower[c] : c \in Char} \cup {"*", "."}

LEMMA LowerHost ==
  ASSUME NEW s \in Seq(Char)
  PROVE  /\ ToLower(s) \in Seq(Letter) /\ Len(ToLower(s)) = Len(s)
         /\ ToLower(s) = <<>> <=> s = <<>>
<1>1. Len(s) \in Nat /\ \A i \in 1 .. Len(s) : s[i] \in Char
  OBVIOUS
<1>2. ToLower(s) \in [1 .. Len(s) -> Letter]
  BY <1>1 DEF ToLower, Letter
<1>3. ToLower(s) \in Seq(Letter) /\ Len(ToLower(s)) = Len(s)
  BY <1>1, <1>2
<1>4. \A S, t : t \in Seq(S) => (t = <<>> <=> Len(t) = 0)
  BY EmptySeq
<1> QED BY <1>3, <1>4

(* A pattern whose "*" stands for the first n letters of a host.           *)
LEMMA PatternFacts ==
  ASSUME NEW g \in Seq(Letter), NEW h \in Seq(Letter), NEW n \in 1 .. Len(h)
  PROVE  g = <<"*">> \o SubSeq(h, n + 1, Len(h)) <=>
           /\ Len(g) = 1 + Len(h) - n /\ g[1] = "*"
           /\ \A i \in 1 .. Len(h) - n : g[i + 1] = h[n + i]
<1>1. PICK rest, t : rest = SubSeq(h, n + 1, Len(h)) /\ t = <<"*">> \o rest
  OBVIOUS
<1>2. Len(h) \in Nat /\ Len(g) \in Nat /\ n \in Nat /\ n <= Len(h)
  OBVIOUS
<1>3. /\ rest \in Seq(Letter) /\ Len(rest) = Len(h) - n
      /\ \A i \in 1 .. Len(h) - n : rest[i] = h[n + i]
  <2>1. \A i \in n + 1 .. Len(h) : h[i] \in Letter
    BY <1>2
  <2>2. /\ SubSeq(h, n + 1, Len(h)) \in Seq(Letter)
        /\ Len(SubSeq(h, n + 1, Len(h))) =
             IF n + 1 <= Len(h) THEN Len(h) - (n + 1) + 1 ELSE 0
        /\ \A i \in 1 .. Len(h) - (n + 1) + 1 :
             SubSeq(h, n + 1, Len(h))[i] = h[n + 1 + i - 1]
    BY <1>2, <2>1, SubSeqProperties
  <2>3. Len(rest) = IF n + 1 <= Len(h) THEN Len(h) - (n + 1) + 1 ELSE 0
    BY <1>1, <2>2
  <2>4. \A i \in 1 .. Len(h) - n : n + 1 + i - 1 = n + i /\ i \in 1 .. Len(h) - (n + 1) + 1
    BY <1>2
  <2>5. \A i \in 1 .. Len(h) - n : rest[i] = h[n + 1 + i - 1]
    BY <1>1, <2>2, <2>4
  <2> QED BY <1>1, <1>2, <2>2, <2>3, <2>4, <2>5
<1>4. /\ t \in Seq(Letter) /\ Len(t) = 1 + Len(h) - n /\ t[1] = "*"
      /\ \A i \in 1 .. Len(h) - n : t[i + 1] = h[n + i]
  <2>1. <<"*">> \in Seq(Letter) /\ Len(<<"*">>) = 1
    BY DEF Letter
  <2>2. /\ t \in Seq(Letter) /\ Len(t) = 1 + Len(rest)
        /\ \A i \in 1 .. 1 + Len(rest) :
             t[i] = IF i <= 1 THEN <<"*">>[i] ELSE rest[i - 1]
    BY <1>1, <1>3, <2>1, ConcatProperties
  <2>3. t[1] = "*" /\ \A i \in 1 .. Len(rest) : t[i + 1] = rest[i]
    <3>1. Len(rest) \in Nat /\ 1 \in 1 .. 1 + Len(rest)
      BY <1>2, <1>3
    <3>2. t[1] = "*"
      BY <2>2, <3>1
    <3>3. ASSUME NEW i \in 1 .. Len(rest) PROVE t[i + 1] = rest[i]
      <4>1. i + 1 \in 1 .. 1 + Len(rest) /\ ~(i + 1 <= 1) /\ (i + 1) - 1 = i
        BY <3>1
      <4> QED BY <2>2, <4>1
    <3> QED BY <3>2, <3>3
  <2> QED BY <1>2, <1>3, <2>2, <2>3
<1>5. ASSUME Len(g) = 1 + Len(h) - n, g[1] = "*",
             \A i \in 1 .. Len(h) - n : g[i + 1] = h[n + i]
      PROVE  g = t
  <2>1. Len(g) = Len(t)
    BY <1>2, <1>4, <1>5
  <2>2. ASSUME NEW i \in 1 .. Len(g) PROVE g[i] = t[i]
    <3>1. CASE i = 1
      BY <1>4, <1>5, <3>1
    <3>2. CASE i # 1
      <4>1. i - 1 \in 1 .. Len(h) - n /\ (i - 1) + 1 = i
        BY <1>2, <1>5, <3>2
      <4> QED BY <1>4, <1>5, <4>1
    <3> QED BY <3>1, <3>2
  <2> QED BY <1>4, <2>1, <2>2, SeqEqual
<1> QED BY <1>1, <1>4, <1>5

(* What the code compares for an entry "*.domain".                         *)
LEMMA SuffixFacts ==
  ASSUME NEW g \in Seq(Letter), NEW h \in Seq(Letter), Len(g) >= 2, g[2] = "."
  PROVE  LET suffix == <<".">> \o SubSeq(g, 3, Len(g))
         IN  /\ Len(suffix) = Len(g) - 1
             /\ HasSuffix(h, suffix) <=>
                  /\ Len(g) - 1 <= Len(h)
                  /\ \A i \in 1 .. Len(g) - 1 : g[i + 1] = h[Len(h) - Len(g) + 1 + i]
<1>1. PICK rest, suffix : rest = SubSeq(g, 3, Len(g)) /\ suffix = <<".">> \o rest
  OBVIOUS
<1>2. Len(g) \in Nat /\ Len(h) \in Nat
  OBVIOUS
<1>3. /\ rest \in Seq(Letter) /\ Len(rest) = Len(g) - 2
      /\ \A i \in 1 .. Len(g) - 2 : rest[i] = g[i + 2]
  <2>1. \A i \in 3 .. Len(g) : g[i] \in Letter
    BY <1>2
  <2>2. /\ rest \in Seq(Letter)
        /\ Len(rest) = IF 3 <= Len(g) THEN Len(g) - 3 + 1 ELSE 0
        /\ \A i \in 1 .. Len(g) - 3 + 1 : rest[i] = g[3 + i - 1]
    BY <1>1, <1>2, <2>1, SubSeqProperties
  <2>3. \A i \in 1 .. Len(g) - 2 : 3 + i - 1 = i + 2 /\ i \in 1 .. Len(g) - 3 + 1
    BY <1>2
  <2>4. \A i \in 1 .. Len(g) - 2 : rest[i] = g[i + 2]
    BY <2>2, <2>3
  <2>5. Len(rest) = Len(g) - 2
    <3>1. PICK k : k = Len(g)
      OBVIOUS
    <3>2. k \in Nat /\ k >= 2
      BY <1>2, <3>1
    <3>3. (IF 3 <= k THEN k - 3 + 1 ELSE 0) = k - 2
      BY <3>2
    <3> QED BY <2>2, <3>1, <3>3
  <2> QED BY <2>2, <2>4, <2>5
<1>4. /\ suffix \in Seq(Letter) /\ Len(suffix) = Len(g) - 1
      /\ \A i \in 1 .. Len(g) - 1 : suffix[i] = g[i + 1]
  <2>1. <<".">> \in Seq(Letter) /\ Len(<<".">>) = 1
    BY DEF Letter
  <2>2. /\ suffix \in Seq(Letter) /\ Len(suffix) = 1 + Len(rest)
        /\ \A i \in 1 .. 1 + Len(rest) :
             suffix[i] = IF i <= 1 THEN <<".">>[i] ELSE rest[i - 1]
    BY <1>1, <1>3, <2>1, ConcatProperties
  <2>3. ASSUME NEW i \in 1 .. Len(g) - 1 PROVE suffix[i] = g[i + 1]
    <3>1. i \in 1 .. 1 + Len(rest)
      BY <1>2, <1>3
    <3>2. CASE i = 1
      BY <2>2, <3>1, <3>2
    <3>3. CASE i # 1
      <4>1. i - 1 \in 1 .. Len(g) - 2 /\ (i - 1) + 2 = i + 1 /\ ~(i <= 1)
        BY <1>2, <3>3
      <4> QED BY <1>3, <2>2, <3>1, <4>1
    <3> QED BY <3>2, <3>3
  <2> QED BY <1>2, <1>3, <2>2, <2>3
<1>5. ASSUME Len(g) - 1 <= Len(h)
      PROVE  SubSeq(h, Len(h) - Len(suffix) + 1, Len(h)) = suffix <=>
               \A i \in 1 .. Len(g) - 1 : g[i + 1] = h[Len(h) - Len(g) + 1 + i]
  <2>1. PICK from, tail : /\ from = Len(h) - Len(g) + 2
                          /\ tail = SubSeq(h, from, Len(h))
    OBVIOUS
  <2>2. from = Len(h) - Len(suffix) + 1 /\ from \in 1 .. Len(h) + 1
    BY <1>2, <1>4, <1>5, <2>1
  <2>3. \A i \in from .. Len(h) : h[i] \in Letter
    BY <1>2, <2>2
  <2>4. /\ tail \in Seq(Letter)
        /\ Len(tail) = IF from <= Len(h) THEN Len(h) - from + 1 ELSE 0
        /\ \A i \in 1 .. Len(h) - from + 1 : tail[i] = h[from + i - 1]
    BY <1>2, <2>1, <2>2, <2>3, SubSeqProperties
  <2>5. Len(tail) = Len(g) - 1
    BY <1>2, <2>1, <2>2, <2>4
  <2>6. ASSUME NEW i \in 1 .. Len(g) - 1
        PROVE  tail[i] = h[Len(h) - Len(g) + 1 + i]
    <3>1. i \in 1 .. Len(h) - from + 1 /\ from + i - 1 = Len(h) - Len(g) + 1 + i
      BY <1>2, <2>1, <2>2
    <3> QED BY <2>4, <3>1
  <2>7. (\A i \in 1 .. Len(g) - 1 : tail[i] = suffix[i]) => tail = suffix
    BY <1>4, <2>4, <2>5, SeqEqual
  <2>8. tail = suffix <=>
          \A i \in 1 .. Len(g) - 1 : g[i + 1] = h[Len(h) - Len(g) + 1 + i]
    BY <1>4, <2>6, <2>7
  <2> QED BY <2>1, <2>2, <2>8
<1>6. HasSuffix(h, suffix) <=>
        /\ Len(g) - 1 <= Len(h)
        /\ \A i \in 1 .. Len(g) - 1 : g[i + 1] = h[Len(h) - Len(g) + 1 + i]
  BY <1>2, <1>4, <1>5 DEF HasSuffix
<1> QED BY <1>1, <1>4, <1>6

(* An entry of a valid list matches as its pattern does.                   *)
LEMMA HostsAgree ==
  ASSUME NEW u \in OriginOver(Seq(Char)), ValidEntry(u),
         NEW origin \in OriginOver(Seq(Char))
  PROVE  LET e == Entry(u)
             host == ToLower(origin.host)
             suffix == <<".">> \o e.host
             label == SubSeq(host, 1, Len(host) - Len(suffix))
         IN  (IF e.wildcard
                THEN /\ HasSuffix(host, suffix)
                     /\ label # <<>> /\ \A i \in 1 .. Len(label) : label[i] # "."
                ELSE host = e.host)
             <=> HostMatches(ToLower(u.host), host)
<1>1. PICK g, h : g = ToLower(u.host) /\ h = ToLower(origin.host)
  OBVIOUS
<1>2. g \in Seq(Letter) /\ h \in Seq(Letter) /\ Len(g) \in Nat /\ Len(h) \in Nat
  <2>1. u.host \in Seq(Char) /\ origin.host \in Seq(Char)
    BY DEF OriginOver
  <2>2. g \in Seq(Letter) /\ h \in Seq(Letter)
    BY <1>1, <2>1, LowerHost
  <2> QED BY <2>2
<1>3. CASE ~IsWildcard(g)
  <2>1. Entry(u).wildcard = FALSE /\ Entry(u).host = g
    BY <1>1, <1>3 DEF Entry
  <2>2. g # <<>> /\ \A i \in 1 .. Len(g) : g[i] # "*"
    BY <2>1 DEF ValidEntry
  <2>3. 1 \in 1 .. Len(g)
    BY <1>2, <2>2, EmptySeq
  <2>4. g[1] # "*"
    BY <2>2, <2>3
  <2>5. HostMatches(g, h) <=> g = h
    BY <1>2, <2>4, PatternFacts DEF HostMatches
  <2> QED BY <1>1, <2>1, <2>5
<1>4. CASE IsWildcard(g)
  <2>1. Len(g) >= 2 /\ g[1] = "*" /\ g[2] = "."
    BY <1>4 DEF IsWildcard
  <2>2. PICK suffix, label :
          /\ suffix = <<".">> \o SubSeq(g, 3, Len(g))
          /\ label = SubSeq(h, 1, Len(h) - Len(suffix))
    OBVIOUS
  <2>3. PICK n : n = Len(h) - Len(g) + 1
    OBVIOUS
  <2>4. /\ Len(suffix) = Len(g) - 1
        /\ HasSuffix(h, suffix) <=>
             /\ Len(g) - 1 <= Len(h)
             /\ \A i \in 1 .. Len(g) - 1 : g[i + 1] = h[n + i]
    <3>1. /\ Len(suffix) = Len(g) - 1
          /\ HasSuffix(h, suffix) <=>
               /\ Len(g) - 1 <= Len(h)
               /\ \A i \in 1 .. Len(g) - 1 : g[i + 1] = h[Len(h) - Len(g) + 1 + i]
      BY <1>2, <2>1, <2>2, SuffixFacts
    <3> QED BY <2>3, <3>1
  <2>5. n \in Int /\ n = Len(h) - Len(suffix)
    BY <1>2, <2>3, <2>4
  <2>6. n <= Len(h) => /\ label # <<>> <=> n >= 1
                       /\ n >= 1 => Len(label) = n /\ \A i \in 1 .. n : label[i] = h[i]
    <3> SUFFICES ASSUME n <= Len(h)
                 PROVE  /\ label # <<>> <=> n >= 1
                        /\ n >= 1 => Len(label) = n /\ \A i \in 1 .. n : label[i] = h[i]
      OBVIOUS
    <3>1. \A i \in 1 .. n : h[i] \in Letter
      BY <1>2, <2>5
    <3>2. /\ label \in Seq(Letter) /\ Len(label) = IF 1 <= n THEN n - 1 + 1 ELSE 0
          /\ \A i \in 1 .. n - 1 + 1 : label[i] = h[1 + i - 1]
      BY <2>2, <2>5, <3>1, SubSeqProperties
    <3>3. label # <<>> <=> Len(label) # 0
      BY <3>2, EmptySeq
    <3>4. Len(label) = IF 1 <= n THEN n ELSE 0
      BY <2>5, <3>2
    <3>5. \A i \in 1 .. n : i \in 1 .. n - 1 + 1 /\ 1 + i - 1 = i
      BY <2>5
    <3>6. \A i \in 1 .. n : label[i] = h[i]
      BY <3>2, <3>5
    <3> QED BY <2>5, <3>3, <3>4, <3>6
  <2>7. ASSUME HasSuffix(h, suffix), label # <<>>,
               \A i \in 1 .. Len(label) : label[i] # "."
        PROVE  HostMatches(g, h)
    <3>1. n \in 1 .. Len(h) /\ Len(g) - 1 = Len(h) - n
      BY <1>2, <2>1, <2>3, <2>5, <2>6, <2>7
    <3>2. \A i \in 1 .. n : h[i] # "."
      BY <2>6, <2>7, <3>1
    <3>3. /\ Len(g) = 1 + Len(h) - n
          /\ \A i \in 1 .. Len(h) - n : g[i + 1] = h[n + i]
      BY <1>2, <2>3, <2>4, <2>7, <3>1
    <3>4. g = <<"*">> \o SubSeq(h, n + 1, Len(h))
      BY <1>2, <2>1, <3>1, <3>3, PatternFacts
    <3> QED BY <3>1, <3>2, <3>4 DEF HostMatches
  <2>8. ASSUME NEW m \in 1 .. Len(h), \A i \in 1 .. m : h[i] # ".",
               Len(g) = 1 + Len(h) - m, \A i \in 1 .. Len(h) - m : g[i + 1] = h[m + i]
        PROVE  /\ HasSuffix(h, suffix)
               /\ label # <<>> /\ \A i \in 1 .. Len(label) : label[i] # "."
    <3>1. m = n /\ n >= 1 /\ n <= Len(h) /\ Len(g) - 1 = Len(h) - m /\ Len(g) - 1 <= Len(h)
      BY <1>2, <2>3, <2>8
    <3>2. \A i \in 1 .. Len(g) - 1 : g[i + 1] = h[n + i]
      BY <2>8, <3>1
    <3> QED BY <2>4, <2>6, <2>8, <3>1, <3>2
  <2>9. ASSUME HostMatches(g, h)
        PROVE  /\ HasSuffix(h, suffix)
               /\ label # <<>> /\ \A i \in 1 .. Len(label) : label[i] # "."
    <3>1. CASE g = h
      <4>1. 1 \in 1 .. Len(h) /\ Len(g) = 1 + Len(h) - 1
        BY <1>2, <2>1, <3>1
      <4>2. \A i \in 1 .. 1 : h[i] # "."
        BY <2>1, <3>1
      <4>3. \A i \in 1 .. Len(h) - 1 : g[i + 1] = h[1 + i]
        BY <1>2, <3>1
      <4> QED BY <2>8, <4>1, <4>2, <4>3
    <3>2. CASE \E m \in 1 .. Len(h) :
                 /\ \A i \in 1 .. m : h[i] # "."
                 /\ g = <<"*">> \o SubSeq(h, m + 1, Len(h))
      <4>1. PICK m \in 1 .. Len(h) :
              /\ \A i \in 1 .. m : h[i] # "."
              /\ g = <<"*">> \o SubSeq(h, m + 1, Len(h))
        BY <3>2
      <4>2. /\ Len(g) = 1 + Len(h) - m
            /\ \A i \in 1 .. Len(h) - m : g[i + 1] = h[m + i]
        BY <1>2, <4>1, PatternFacts
      <4> QED BY <2>8, <4>1, <4>2
    <3> QED BY <2>9, <3>1, <3>2 DEF HostMatches
  <2>10. Entry(u).wildcard = TRUE /\ Entry(u).host = SubSeq(g, 3, Len(g))
    BY <1>1, <1>4 DEF Entry
  <2> QED BY <1>1, <2>2, <2>7, <2>9, <2>10
<1> QED BY <1>3, <1>4

LEMMA PortsAgree ==
  ASSUME NEW u \in OriginOver(Seq(Char)), NEW v \in OriginOver(Seq(Char)),
         u.scheme = v.scheme, u.scheme # "other"
  PROVE  NormalPort(u) = NormalPort(v) <=> Port(u) = Port(v)
BY DEF NormalPort, Port, OriginOver

LEMMA EntriesAgree ==
  ASSUME NEW u \in OriginOver(Seq(Char)), ValidEntry(u),
         NEW origin \in OriginOver(Seq(Char))
  PROVE  WellFormed(origin) /\ MatchesEntry(Entry(u), origin) <=> OriginMatches(u, origin)
<1>1. Entry(u).scheme = u.scheme /\ Entry(u).port = NormalPort(u)
  BY DEF Entry
<1>2. u.scheme # "other"
  BY DEF ValidEntry, WellFormed
<1>3. MatchesEntry(Entry(u), origin) <=>
        /\ u.scheme = origin.scheme /\ NormalPort(u) = NormalPort(origin)
        /\ HostMatches(ToLower(u.host), ToLower(origin.host))
  BY <1>1, HostsAgree DEF MatchesEntry
<1> QED BY <1>2, <1>3, PortsAgree DEF WellFormed, OriginMatches

LEMMA CorsFromInv == LadderInv => CorsExact
<1> SUFFICES ASSUME LadderInv PROVE Match(ParseOrigins(config), req.origin)
                                      = Allowed(config, req.origin)
  BY DEF LadderInv, AllowSettled, CorsExact
<1>1. CASE req.origin = NoOrigin
  BY <1>1 DEF Match, Allowed
<1>2. CASE req.origin # NoOrigin
  <2>1. req.origin \in OriginOver(Seq(Char))
    BY <1>2 DEF LadderInv, LadderRequest, Origin
  <2>2. \A u \in config.entries : u \in OriginOver(Seq(Char)) /\ ValidEntry(u)
    BY DEF LadderInv, LadderTypeOK, ValidList
  <2>3. \A u \in config.entries :
          WellFormed(req.origin) /\ MatchesEntry(Entry(u), req.origin)
            <=> OriginMatches(u, req.origin)
    BY <2>1, <2>2, EntriesAgree
  <2>4. /\ ParseOrigins(config).all = config.all
        /\ ParseOrigins(config).entries = {Entry(u) : u \in config.entries}
    BY DEF ParseOrigins
  <2>5. (/\ WellFormed(req.origin)
         /\ \E e \in ParseOrigins(config).entries : MatchesEntry(e, req.origin))
          <=> \E u \in config.entries : OriginMatches(u, req.origin)
    BY <2>3, <2>4
  <2> QED BY <1>2, <2>4, <2>5 DEF Match, Allowed
<1> QED BY <1>1, <1>2

(* Every reply carries the allow header spec/wire.md 10.1 asks for, for    *)
(* hosts of any length over any alphabet: ParseOrigins and Match in        *)
(* cors.go, which drop default ports and cut the host at a suffix, answer  *)
(* as the list read pattern by pattern.                                    *)
THEOREM CorsIsExact == LadderSpec => []CorsExact
BY LadderInvariant, CorsFromInv, PTL
=============================================================================
