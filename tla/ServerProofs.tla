---------------------------- MODULE ServerProofs ----------------------------
(***************************************************************************)
(* Typing is an inductive invariant of the server: type correctness with   *)
(* the facts about the shape of a request that it rests on.  RefInv is     *)
(* inductive together with Typing, and from it follow the safety           *)
(* invariants about references: no dangling object row, one owner per      *)
(* blob, removals are final.                                               *)
(***************************************************************************)
EXTENDS ServerInv, WellFoundedInduction, TLAPS

----------------------------------------------------------------------------
(* The operators of the two stores: what each returns and which types it   *)
(* keeps.                                                                  *)

LessNat == {ss \in Nat \X Nat : ss[1] < ss[2]}

(* A non-empty set of numbers up to a bound has a greatest element.        *)
LEMMA GreatestElement ==
  ASSUME NEW B \in Nat, NEW T, T \subseteq 0..B, T # {}
  PROVE  \E x \in T : \A y \in T : y <= x
<1> DEFINE S == {B - t : t \in T}
<1>1. S \subseteq Nat
  OBVIOUS
<1>2. S # {}
  <2>1. PICK t \in T : TRUE
    OBVIOUS
  <2>2. B - t \in S
    OBVIOUS
  <2> QED BY <2>2
<1>3. PICK x \in S : \A y \in S : ~ (<<y, x>> \in LessNat)
  <2>1. IsWellFoundedOn(LessNat, Nat)
    BY NatLessThanWellFounded DEF OpToRel, LessNat
  <2> HIDE DEF S
  <2> QED BY <1>1, <1>2, <2>1, WFMin
<1>4. PICK t \in T : x = B - t
  OBVIOUS
<1>5. ASSUME NEW y \in T PROVE y <= t
  <2>1. B - y \in S /\ B - y \in Nat /\ x \in Nat /\ y \in Int /\ t \in Int
    BY <1>1, <1>4
  <2>2. ~ (B - y < x)
    BY <1>3, <2>1 DEF LessNat
  <2> QED BY <2>1, <2>2, <1>4
<1> QED BY <1>5

LEMMA FileLenType == FileLen \in Nat
BY SizeAssumption DEF FileLen

LEMMA DataType == Byte \subseteq Data /\ Hole \in Data /\ Data \subseteq Nat
BY SizeAssumption DEF Data, Hole

(* Every file has a length, and cells beyond it are holes.                 *)
LEMMA ExtentFacts ==
  ASSUME NEW f \in File
  PROVE  /\ Extent(f) \in 0..FileLen
         /\ \A i \in 1..FileLen : i > Extent(f) => f[i] = Hole
<1> DEFINE T == {k \in 0..FileLen : k > 0 => f[k] # Hole}
<1>1. T \subseteq 0..FileLen /\ 0 \in T
  BY FileLenType
<1>2. PICK x \in T : \A y \in T : y <= x
  <2> HIDE DEF T
  <2> QED BY <1>1, FileLenType, GreatestElement
<1>3. \A i \in 1..FileLen : i > x => f[i] = Hole
  BY <1>2, FileLenType
<1> QED BY <1>2, <1>3, FileLenType DEF Extent

(* Reading a file whole gives a sequence of cells.                         *)
LEMMA ContentType ==
  ASSUME NEW f \in File
  PROVE  Content(f) \in Seq(Data)
<1>1. Extent(f) \in Nat /\ Extent(f) <= FileLen
  BY ExtentFacts, FileLenType
<1>2. \A i \in 1..Extent(f) : f[i] \in Data
  BY <1>1, FileLenType DEF File
<1> QED BY <1>1, <1>2 DEF Content

(* A write leaves a file a file.                                           *)
LEMMA OverlayType ==
  ASSUME NEW f \in File, NEW offset \in Int, NEW data \in Seq(Data)
  PROVE  Overlay(f, offset, data) \in File
BY FileLenType DEF Overlay, File

LEMMA WriteType ==
  ASSUME BlobTypeOK, NEW id \in BlobId, NEW offset \in Int,
         NEW data \in Seq(Data), Write(id, offset, data)
  PROVE  BlobTypeOK'
BY OverlayType DEF BlobTypeOK, Write

LEMMA WriteStartType ==
  ASSUME BlobTypeOK, NEW id \in BlobId, NEW data \in Seq(Data),
         Write(id, 0, data)
  PROVE  BlobTypeOK'
<1>1. \A f \in File : Overlay(f, 0, data) \in File
  BY FileLenType DEF Overlay, File
<1> QED BY <1>1 DEF BlobTypeOK, Write

LEMMA CreateType ==
  ASSUME BlobTypeOK, NEW id \in BlobId, Create(id)
  PROVE  BlobTypeOK'
BY DEF BlobTypeOK, Create, LinkState

LEMMA SyncType ==
  ASSUME BlobTypeOK, NEW id \in BlobId, Sync(id)
  PROVE  BlobTypeOK'
BY DEF BlobTypeOK, Sync, LinkState

LEMMA RemoveType ==
  ASSUME BlobTypeOK, NEW id \in BlobId, Remove(id)
  PROVE  BlobTypeOK'
BY DEF BlobTypeOK, Remove, LinkState

LEMMA CrashType ==
  ASSUME BlobTypeOK, LoseUnsynced
  PROVE  BlobTypeOK'
<1>1. link' \in [BlobId -> LinkState]
  BY DEF BlobTypeOK, LoseUnsynced, LinkState
<1>2. bytes' \in [BlobId -> File]
  <2>1. PICK lost : bytes' = [id \in BlobId |-> [i \in 1..FileLen |->
                   IF <<id, i>> \in lost THEN disk[id][i] ELSE bytes[id][i]]]
    BY DEF LoseUnsynced
  <2>2. \A id \in BlobId, i \in 1..FileLen :
          disk[id][i] \in Data /\ bytes[id][i] \in Data
    BY DEF BlobTypeOK, File
  <2> QED BY <2>1, <2>2 DEF File
<1>3. disk' = bytes'
  BY DEF LoseUnsynced
<1> QED BY <1>1, <1>2, <1>3 DEF BlobTypeOK

USE DEF At

----------------------------------------------------------------------------
(* Data.                                                                   *)

LEMMA BytesAreData == ASSUME NEW b \in Seq(Byte) PROVE b \in Seq(Data)
<1>1. Len(b) \in Nat /\ b = [i \in 1..Len(b) |-> b[i]]
  OBVIOUS
<1>2. \A i \in 1..Len(b) : b[i] \in Data
  BY <1>1, DataType
<1>3. [i \in 1..Len(b) |-> b[i]] \in Seq(Data)
  BY <1>1, <1>2
<1> QED BY <1>1, <1>3

LEMMA BodyTypes ==
  /\ \A b \in PutBodies : b \in Seq(Data)
  /\ \A u \in UploadId, n \in 1..MaxParts : \A b \in PartBodies[u][n] :
       b \in Seq(Data) /\ Len(b) \in 1..PartSize
<1>1. \A b \in PutBodies : b \in Seq(Byte)
  BY BodyAssumption
<1>2. \A u \in UploadId, n \in 1..MaxParts : PartBodies[u][n] \subseteq Seq(Byte)
  BY BodyAssumption
<1> QED BY <1>1, <1>2, BytesAreData, BodyAssumption

LEMMA DivMod ==
  ASSUME NEW a \in Nat, NEW b \in Nat, b > 0
  PROVE  /\ a \div b \in Nat
         /\ a % b \in Nat /\ a % b < b
         /\ a = b * (a \div b) + (a % b)
<1>1. a % b \in Nat /\ a % b < b
  OBVIOUS
<1>2. a = b * (a \div b) + (a % b)
  OBVIOUS
<1>3. a \div b \in Nat
  OBVIOUS
<1> QED BY <1>1, <1>2, <1>3

LEMMA Multiples ==
  ASSUME NEW b \in Nat, NEW x \in Nat, NEW y \in Nat, x <= y
  PROVE  b * x <= b * y
<1>1. b * y = b * x + b * (y - x)
  OBVIOUS
<1>2. b * (y - x) >= 0
  OBVIOUS
<1> QED BY <1>1, <1>2

(* The fold of parts that passed the checks of completeUpload is a body:   *)
(* no index reaches outside the parts, the last one being the only one     *)
(* that may be short.                                                      *)
LEMMA FoldType ==
  ASSUME NEW D, NEW parts \in [1..MaxParts -> Seq(D)],
         NEW count \in 1..MaxParts, NEW supplied,
         PartsRefusal(parts, count, supplied) = {},
         \A n \in 1..MaxParts : Len(parts[n]) <= PartSize
  PROVE  Fold(parts, count) \in Seq(D)
<1> DEFINE last == Len(parts[count])
           size == (count - 1) * PartSize + last
<1>1. /\ PartSize \in Nat /\ PartSize > 0
      /\ MaxParts \in Nat
      /\ count \in Nat /\ count >= 1 /\ count <= MaxParts
      /\ last \in Nat
  BY SizeAssumption
<1>2. size \in Nat
  BY <1>1
<1>3. \A n \in 1..(count - 1) : Len(parts[n]) = PartSize
  BY DEF PartsRefusal
<1>4. ASSUME NEW i \in 1..size
      PROVE  parts[((i - 1) \div PartSize) + 1][((i - 1) % PartSize) + 1]
               \in D
  <2> DEFINE q == (i - 1) \div PartSize
             m == (i - 1) % PartSize
  <2>1. q \in Nat /\ m \in Nat /\ m < PartSize /\ i - 1 = PartSize * q + m
    <3>1. i - 1 \in Nat
      BY <1>2
    <3> QED BY <1>1, <3>1, DivMod
  <2>2. i - 1 < PartSize * (count - 1) + last
    <3>1. (count - 1) * PartSize = PartSize * (count - 1)
      BY <1>1
    <3> HIDE DEF last
    <3> QED BY <1>1, <1>2, <3>1
  <2> HIDE DEF q, m, size
  <2>3. CASE q < count - 1
    <3>1. q + 1 \in 1..(count - 1) /\ q + 1 \in 1..MaxParts
      BY <1>1, <2>1, <2>3
    <3>2. m + 1 \in 1..Len(parts[q + 1])
      BY <1>1, <1>3, <2>1, <3>1
    <3>3. parts[q + 1] \in Seq(D)
      BY <3>1
    <3>4. parts[q + 1][m + 1] \in D
      BY <3>2, <3>3
    <3> QED BY <3>4 DEF q, m
  <2>4. CASE q = count - 1
    <3>1. m + 1 \in 1..last
      BY <1>1, <2>1, <2>4, <2>2
    <3>2. parts[count] \in Seq(D)
      BY <1>1
    <3>3. parts[count][m + 1] \in D
      BY <3>1, <3>2
    <3>4. q + 1 = count
      BY <1>1, <2>4
    <3> QED BY <3>3, <3>4 DEF q, m
  <2>5. ~ (q >= count)
    <3>1. SUFFICES ASSUME q >= count PROVE FALSE
      OBVIOUS
    <3>2. last <= PartSize /\ last \in Nat
      BY <1>1
    <3> HIDE DEF last
    <3>3. PartSize * count <= PartSize * q
      BY <1>1, <2>1, <3>1, Multiples
    <3>4. PartSize * count = PartSize * (count - 1) + PartSize
      BY <1>1
    <3> DEFINE all == PartSize * count
               before == PartSize * (count - 1)
               here == PartSize * q
    <3>5. all \in Int /\ before \in Int /\ here \in Int /\ m \in Nat
      BY <1>1, <2>1
    <3>6. all <= here /\ all = before + PartSize /\ here + m < before + last
      BY <2>1, <2>2, <3>3, <3>4
    <3> HIDE DEF all, before, here
    <3> QED BY <1>1, <3>2, <3>5, <3>6
  <2> QED BY <1>1, <2>1, <2>3, <2>4, <2>5
<1> QED BY <1>2, <1>4 DEF Fold

----------------------------------------------------------------------------
(* Moves of a request.                                                     *)

LEMMA IdleTyping == Idle \in Request /\ Shape(Idle)
<1>1. /\ << >> \in Seq(Data) /\ 0 \in 0..MaxParts /\ 0 \in 0..PartSize
      /\ 0 \in 0..FileLen
  BY SizeAssumption, FileLenType
<1> QED BY <1>1 DEF Idle, Request, Shape, AllOps, PC, Code

LEMMA MoveTyping ==
  ASSUME RequestTyping, UNCHANGED expired,
         NEW p \in Proc, NEW r \in Request, Shape(r),
         req' = [req EXCEPT ![p] = r]
  PROVE  RequestTyping'
BY DEF RequestTyping, RequestTypeOK

LEMMA GotoTyping ==
  ASSUME RequestTyping, UNCHANGED expired,
         NEW p \in Proc, NEW pc \in PC, Goto(p, pc),
         Shape([req[p] EXCEPT !.pc = pc])
  PROVE  RequestTyping'
<1> DEFINE r == [req[p] EXCEPT !.pc = pc]
<1>1. r \in Request
  BY DEF RequestTyping, RequestTypeOK, Request
<1>2. req' = [req EXCEPT ![p] = r]
  BY DEF Goto
<1> HIDE DEF r
<1> QED BY <1>1, <1>2, MoveTyping DEF r

LEMMA AnswerTyping ==
  ASSUME RequestTyping, UNCHANGED expired,
         NEW p \in Proc, NEW code \in Code, Answer(p, code)
  PROVE  RequestTyping'
<1> DEFINE r == [req[p] EXCEPT !.pc = "reply", !.code = code]
<1>1. req[p] \in Request /\ Shape(req[p])
  BY DEF RequestTyping, RequestTypeOK
<1>2. r \in Request
  BY <1>1 DEF Request, PC
<1>3. Shape(r)
  BY <1>1 DEF Request, Shape
<1>4. req' = [req EXCEPT ![p] = r]
  BY DEF Answer
<1> HIDE DEF r
<1> QED BY <1>2, <1>3, <1>4, MoveTyping

LEMMA RemoveThenAnswerTyping ==
  ASSUME RequestTyping, UNCHANGED expired,
         NEW p \in Proc, NEW id \in BlobId \cup {None}, NEW code \in Code,
         RemoveThenAnswer(p, id, code)
  PROVE  RequestTyping'
<1> DEFINE r == [req[p] EXCEPT !.pc = IF id = None THEN "reply" ELSE "remove",
                              !.blob = id, !.code = code]
<1>1. req[p] \in Request /\ Shape(req[p])
  BY DEF RequestTyping, RequestTypeOK
<1>2. r \in Request
  BY <1>1, ZenonT(40) DEF Request, PC
<1>3. Shape(r)
  BY <1>1 DEF Request, Shape
<1>4. req' = [req EXCEPT ![p] = r]
  BY DEF RemoveThenAnswer
<1> HIDE DEF r
<1> QED BY <1>2, <1>3, <1>4, MoveTyping

LEMMA EnterTyping ==
  ASSUME RequestTyping, UNCHANGED expired,
         NEW p \in Proc, NEW r \in Request, NEW pc \in PC, Enter(p, r, pc),
         Shape([r EXCEPT !.pc = pc])
  PROVE  RequestTyping'
<1> DEFINE s == [r EXCEPT !.pc = pc]
<1>1. s \in Request
  BY DEF Request
<1>2. req' = [req EXCEPT ![p] = s]
  BY DEF Enter
<1> HIDE DEF s
<1> QED BY <1>1, <1>2, MoveTyping DEF s

LEMMA RefuseTyping ==
  ASSUME RequestTyping, UNCHANGED expired,
         NEW p \in Proc, NEW r \in Request, NEW code \in Code,
         Refuse(p, r, code),
         Shape([r EXCEPT !.pc = "reply", !.code = code])
  PROVE  RequestTyping'
<1> DEFINE s == [r EXCEPT !.pc = "reply", !.code = code]
<1>1. s \in Request
  BY DEF Request, PC
<1>2. req' = [req EXCEPT ![p] = s]
  BY DEF Refuse
<1> HIDE DEF s
<1> QED BY <1>1, <1>2, MoveTyping DEF s

(* What a new request may be refused with.                                 *)
Refusals == Code \ {"none", "ok"}

LEMMA BucketRefusals == ASSUME NEW b PROVE BucketRefusal(b) \subseteq Refusals
BY DEF BucketRefusal, Refusals, Code

LEMMA LookupRefusals == ASSUME NEW u PROVE LookupRefusal(u) \subseteq Refusals
BY DEF LookupRefusal, Refusals, Code

(* It goes on to its first step, or it is answered.                        *)
LEMMA EnterOrRefuse ==
  ASSUME NEW p, NEW r, NEW refusals, NEW pc, EnterUnless(p, r, refusals, pc),
         refusals \subseteq Refusals
  PROVE  \/ refusals = {} /\ Enter(p, r, pc)
         \/ \E code \in Refusals : Refuse(p, r, code)
BY DEF EnterUnless, StoreErrors, Refusals, Code

LEMMA EnterUnlessTyping ==
  ASSUME RequestTyping, UNCHANGED expired,
         NEW p \in Proc, NEW r \in Request, NEW refusals, NEW pc \in PC,
         EnterUnless(p, r, refusals, pc), refusals \subseteq Refusals,
         refusals = {} => Shape([r EXCEPT !.pc = pc]),
         \A code \in Code : Shape([r EXCEPT !.pc = "reply", !.code = code])
  PROVE  RequestTyping'
BY EnterOrRefuse, EnterTyping, RefuseTyping DEF Refusals

LEMMA DropTyping ==
  ASSUME RequestTyping, UNCHANGED expired, NEW p \in Proc, Drop(p)
  PROVE  RequestTyping'
BY IdleTyping, MoveTyping DEF Drop

LEMMA BlobSame == BlobTypeOK /\ UNCHANGED blobVars => BlobTypeOK'
BY DEF BlobTypeOK, blobVars

LEMMA MetaSame == MetaTyping /\ UNCHANGED metaVars => MetaTyping'
BY DEF MetaTyping, MetaTypeOK, metaVars

(* The shapes hold of any request whose op and blob are right for its pc;  *)
(* the members of a process's own record.                                  *)
LEMMA RequestFacts ==
  ASSUME Typing, NEW p \in Proc
  PROVE  /\ Shape(req[p])
         /\ req[p] \in Request
         /\ req[p].blob \in BlobId \cup {None}
         /\ req[p].body \in Seq(Data) /\ req[p].want \in Seq(Data)
         /\ req[p].done \in Nat /\ req[p].done <= PartSize
BY SizeAssumption DEF Typing, RequestTyping, RequestTypeOK, Request

----------------------------------------------------------------------------
(* putObject, getObject, deleteObject.                                     *)

LEMMA PutObjectBeginTyping ==
  ASSUME Typing, NEW p \in Proc, PutObjectBegin(p)
  PROVE  Typing'
<1> DEFINE R(n, body, want) ==
      [Idle EXCEPT !.op = "put", !.bucket = n[1], !.name = n,
                   !.body = body, !.want = want]
<1>1. PICK n \in Name, body \in PutBodies :
        \E want \in Declared(body, PutBodies) :
          EnterUnless(p, R(n, body, want), BucketRefusal(n[1]), "create")
  BY DEF PutObjectBegin
<1>2. PICK want \in Declared(body, PutBodies) :
        EnterUnless(p, R(n, body, want), BucketRefusal(n[1]), "create")
  BY <1>1
<1>3. body \in Seq(Data) /\ want \in Seq(Data) /\ n[1] \in Bucket
  BY BodyTypes DEF Declared, Name
<1>4. /\ R(n, body, want) \in Request
      /\ Shape([R(n, body, want) EXCEPT !.pc = "create"])
      /\ \A code \in Code :
           Shape([R(n, body, want) EXCEPT !.pc = "reply", !.code = code])
  BY <1>3, IdleTyping, ZenonT(40) DEF Request, Shape, AllOps, Idle
<1>5. UNCHANGED <<blobVars, metaVars, expired>>
  BY DEF PutObjectBegin
<1>6. RequestTyping'
  <2> HIDE DEF R
  <2> QED BY <1>2, <1>4, <1>5, BucketRefusals, EnterUnlessTyping DEF Typing, PC
<1> QED BY <1>5, <1>6, BlobSame, MetaSame DEF Typing

LEMMA CreateBlobTyping ==
  ASSUME Typing, NEW p \in Proc, NEW next \in {"write", "commit"},
         CreateBlob(p, next)
  PROVE  Typing'
<1>1. PICK id \in BlobId :
        Create(id) /\ req' = [req EXCEPT ![p].pc = next, ![p].blob = id]
  BY DEF CreateBlob
<1>2. req[p].pc = "create" /\ UNCHANGED <<metaVars, expired>>
  BY DEF CreateBlob
<1> DEFINE r == [req[p] EXCEPT !.pc = next, !.blob = id]
<1>3. r \in Request /\ Shape(r)
  BY <1>2, RequestFacts, ZenonT(40) DEF Request, Shape, PC
<1>4. req' = [req EXCEPT ![p] = r]
  BY <1>1
<1> HIDE DEF r
<1>5. RequestTyping'
  BY <1>2, <1>3, <1>4, MoveTyping DEF Typing
<1>6. BlobTypeOK'
  BY <1>1, CreateType DEF Typing
<1> QED BY <1>2, <1>5, <1>6, MetaSame DEF Typing

LEMMA CreateBlobFailsTyping ==
  ASSUME Typing, NEW p \in Proc, CreateBlobFails(p)
  PROVE  Typing'
<1>1. RequestTyping'
  BY AnswerTyping DEF CreateBlobFails, Typing, Code
<1>2. BlobTypeOK'
  BY CreateType, BlobSame DEF CreateBlobFails, Typing
<1> QED BY <1>1, <1>2, MetaSame DEF CreateBlobFails, Typing

LEMMA PutObjectTyping ==
  ASSUME Typing, NEW p \in Proc, putObject(p)
  PROVE  Typing'
<1> USE DEF Typing
<1>1. CASE PutObjectBegin(p)
  BY <1>1, PutObjectBeginTyping
<1>2. CASE PutObjectCreate(p)
  BY <1>2, CreateBlobTyping DEF PutObjectCreate
<1>3. CASE PutObjectWrite(p)
  <2>1. req[p].blob \in BlobId /\ Shape([req[p] EXCEPT !.pc = "sync"])
    BY <1>3, RequestFacts DEF PutObjectWrite, Shape, Request
  <2>2. RequestTyping'
    BY <1>3, <2>1, GotoTyping DEF PutObjectWrite, PC
  <2>3. BlobTypeOK'
    BY <1>3, <2>1, RequestFacts, WriteStartType DEF PutObjectWrite
  <2> QED BY <1>3, <2>2, <2>3, MetaSame DEF PutObjectWrite
<1>4. CASE PutObjectShort(p)
  <2>1. req[p].blob \in BlobId
    BY <1>4, RequestFacts DEF PutObjectShort, Shape
  <2>2. PICK k \in 0..Len(req[p].body) :
          Write(req[p].blob, 0, SubSeq(req[p].body, 1, k))
    BY <1>4 DEF PutObjectShort
  <2>3. SubSeq(req[p].body, 1, k) \in Seq(Data)
    BY RequestFacts
  <2>4. PICK code \in Code : RemoveThenAnswer(p, req[p].blob, code)
    BY <1>4 DEF PutObjectShort, Code
  <2>5. RequestTyping'
    BY <1>4, <2>1, <2>4, RemoveThenAnswerTyping DEF PutObjectShort
  <2>6. BlobTypeOK'
    BY <2>1, <2>2, <2>3, WriteStartType
  <2> QED BY <1>4, <2>5, <2>6, MetaSame DEF PutObjectShort
<1>5. CASE PutObjectSync(p)
  <2>1. req[p].blob \in BlobId /\ Shape([req[p] EXCEPT !.pc = "commit"])
    BY <1>5, RequestFacts DEF PutObjectSync, Shape, Request
  <2>2. RequestTyping'
    BY <1>5, <2>1, RemoveThenAnswerTyping, GotoTyping
       DEF PutObjectSync, PC, Code
  <2> QED BY <1>5, <2>1, <2>2, SyncType, MetaSame DEF PutObjectSync
<1>6. CASE PutObjectSyncFails(p)
  <2>1. RequestTyping'
    BY <1>6, RequestFacts, RemoveThenAnswerTyping DEF PutObjectSyncFails, Code
  <2> QED BY <1>6, <2>1, BlobSame, MetaSame DEF PutObjectSyncFails
<1>7. CASE PutObjectCommit(p)
  <2>1. req[p].name \in Name /\ req[p].blob \in BlobId
    BY <1>7, RequestFacts DEF PutObjectCommit, Shape
  <2>2. objects[req[p].name].blob \in BlobId \cup {None}
    BY <2>1 DEF MetaTyping, MetaTypeOK, ObjectRow
  <2>3. RequestTyping'
    BY <1>7, <2>2, RemoveThenAnswerTyping DEF PutObjectCommit, Code
  <2>4. [blob |-> req[p].blob, sum |-> req[p].body] \in ObjectRow
    BY <2>1, RequestFacts DEF ObjectRow
  <2>5. MetaTyping'
    BY <1>7, <2>4 DEF PutObjectCommit, PutObject, MetaTyping, MetaTypeOK
  <2> QED BY <1>7, <2>3, <2>5, BlobSame DEF PutObjectCommit
<1>8. CASE PutObjectCommitFails(p)
  <2>1. RequestTyping'
    BY <1>8, AnswerTyping DEF PutObjectCommitFails, Code
  <2> QED BY <1>8, <2>1, BlobSame, MetaSame DEF PutObjectCommitFails
<1> QED BY <1>1, <1>2, <1>3, <1>4, <1>5, <1>6, <1>7, <1>8 DEF putObject

LEMMA GetObjectTyping ==
  ASSUME Typing, NEW p \in Proc, getObject(p)
  PROVE  Typing'
<1> USE DEF Typing
<1>1. CASE GetObjectBegin(p)
  <2> DEFINE R(n) == [Idle EXCEPT !.op = "get", !.bucket = n[1], !.name = n]
  <2>1. PICK n \in Name : EnterUnless(p, R(n), BucketRefusal(n[1]), "row")
    BY <1>1 DEF GetObjectBegin
  <2>2. n[1] \in Bucket
    BY DEF Name
  <2>3. /\ R(n) \in Request
        /\ Shape([R(n) EXCEPT !.pc = "row"])
        /\ \A code \in Code : Shape([R(n) EXCEPT !.pc = "reply", !.code = code])
    BY <2>2, IdleTyping, ZenonT(40) DEF Request, Shape, AllOps, Idle
  <2>4. RequestTyping'
    <3> HIDE DEF R
    <3> QED BY <1>1, <2>1, <2>3, BucketRefusals, EnterUnlessTyping
            DEF GetObjectBegin, PC
  <2> QED BY <1>1, <2>4, BlobSame, MetaSame DEF GetObjectBegin
<1>2. CASE GetObjectRow(p)
  <2> DEFINE row == objects[req[p].name]
  <2>1. row.blob \in BlobId \cup {None} /\ row.sum \in Seq(Data)
    <3>1. req[p].name \in Name
      BY <1>2, RequestFacts DEF GetObjectRow, Shape
    <3> QED BY <3>1 DEF MetaTyping, MetaTypeOK, ObjectRow
  <2>2. CASE \E code \in Code : Answer(p, code)
    BY <1>2, <2>2, AnswerTyping, BlobSame, MetaSame DEF GetObjectRow
  <2>3. CASE /\ row.blob # None
             /\ req' = [req EXCEPT ![p].pc = "open", ![p].blob = row.blob,
                                   ![p].want = row.sum]
    <3> DEFINE r == [req[p] EXCEPT !.pc = "open", !.blob = row.blob,
                                   !.want = row.sum]
    <3>1. r \in Request
      BY <2>1, RequestFacts, ZenonT(40) DEF Request, PC
    <3>2. Shape(r)
      BY <1>2, <2>1, <2>3, RequestFacts DEF Shape, Request, GetObjectRow
    <3>3. req' = [req EXCEPT ![p] = r]
      BY <2>3
    <3> HIDE DEF r
    <3>4. RequestTyping'
      BY <1>2, <3>1, <3>2, <3>3, MoveTyping DEF GetObjectRow
    <3> QED BY <1>2, <3>4, BlobSame, MetaSame DEF GetObjectRow
  <2> QED BY <1>2, <2>2, <2>3 DEF GetObjectRow, StoreErrors, Code
<1>3. CASE GetObjectOpen(p)
  <2>1. req[p].blob \in BlobId
    BY <1>3, RequestFacts DEF GetObjectOpen, Shape
  <2> DEFINE size == Extent(bytes[req[p].blob])
             r == [req[p] EXCEPT !.pc = "serve", !.size = size]
  <2>2. size \in 0..FileLen
    BY <2>1, ExtentFacts DEF BlobTypeOK
  <2> HIDE DEF size
  <2>3. r \in Request
    BY <2>2, RequestFacts, ZenonT(40) DEF Request, PC
  <2>4. Shape(r)
    BY <1>3, RequestFacts DEF Shape, Request, GetObjectOpen
  <2>5. \/ req' = [req EXCEPT ![p] = r]
        \/ Answer(p, "internal")
    BY <1>3 DEF GetObjectOpen, size
  <2> HIDE DEF r
  <2>6. RequestTyping'
    BY <1>3, <2>3, <2>4, <2>5, AnswerTyping, MoveTyping DEF GetObjectOpen, Code
  <2> QED BY <1>3, <2>6, BlobSame, MetaSame DEF GetObjectOpen
<1>4. CASE GetObjectServe(p)
  <2> DEFINE f == bytes[req[p].blob]
             i == Len(req[p].body) + 1
             r == [req[p] EXCEPT !.body = Append(@, f[i])]
  <2>1. f \in File
    BY <1>4, RequestFacts DEF GetObjectServe, Shape, BlobTypeOK
  <2>2. i \in 1..FileLen
    <3>1. req[p].size \in 0..FileLen
      BY RequestFacts DEF Request
    <3> QED BY <1>4, <3>1, RequestFacts, FileLenType DEF GetObjectServe
  <2>3. f[i] \in Data
    BY <2>1, <2>2 DEF File
  <2>4. Append(req[p].body, f[i]) \in Seq(Data)
    BY <2>3, RequestFacts
  <2> HIDE DEF f, i
  <2>5. r \in Request
    BY <2>4, RequestFacts DEF Request
  <2>6. Shape(r)
    BY <1>4, RequestFacts DEF Shape, Request, GetObjectServe
  <2>7. req' = [req EXCEPT ![p] = r]
    BY <1>4 DEF GetObjectServe, f, i
  <2> HIDE DEF r
  <2>8. RequestTyping'
    BY <1>4, <2>5, <2>6, <2>7, MoveTyping DEF GetObjectServe
  <2> QED BY <1>4, <2>8, BlobSame, MetaSame DEF GetObjectServe
<1>5. CASE GetObjectServed(p)
  BY <1>5, AnswerTyping, BlobSame, MetaSame DEF GetObjectServed, Code
<1> QED BY <1>1, <1>2, <1>3, <1>4, <1>5 DEF getObject

LEMMA DeleteObjectTyping ==
  ASSUME Typing, NEW p \in Proc, deleteObject(p)
  PROVE  Typing'
<1> USE DEF Typing
<1>1. CASE DeleteObjectBegin(p)
  <2> DEFINE R(n) == [Idle EXCEPT !.op = "delete", !.bucket = n[1], !.name = n]
  <2>1. PICK n \in Name : EnterUnless(p, R(n), BucketRefusal(n[1]), "commit")
    BY <1>1 DEF DeleteObjectBegin
  <2>2. n[1] \in Bucket
    BY DEF Name
  <2>3. /\ R(n) \in Request
        /\ Shape([R(n) EXCEPT !.pc = "commit"])
        /\ \A code \in Code : Shape([R(n) EXCEPT !.pc = "reply", !.code = code])
    BY <2>2, IdleTyping, ZenonT(40) DEF Request, Shape, AllOps, Idle
  <2>4. RequestTyping'
    <3> HIDE DEF R
    <3> QED BY <1>1, <2>1, <2>3, BucketRefusals, EnterUnlessTyping
            DEF DeleteObjectBegin, PC
  <2> QED BY <1>1, <2>4, BlobSame, MetaSame DEF DeleteObjectBegin
<1>2. CASE DeleteObjectCommit(p)
  <2>1. req[p].name \in Name
    BY <1>2, RequestFacts DEF DeleteObjectCommit, Shape
  <2>2. objects[req[p].name].blob \in BlobId \cup {None}
    BY <2>1 DEF MetaTyping, MetaTypeOK, ObjectRow
  <2>3. RequestTyping'
    BY <1>2, <2>2, AnswerTyping, RemoveThenAnswerTyping
       DEF DeleteObjectCommit, Code
  <2>4. NoObject \in ObjectRow
    BY DEF NoObject, ObjectRow
  <2>5. MetaTyping'
    BY <1>2, <2>4, MetaSame
       DEF DeleteObjectCommit, DeleteObject, MetaTyping, MetaTypeOK
  <2> QED BY <1>2, <2>3, <2>5, BlobSame DEF DeleteObjectCommit
<1> QED BY <1>1, <1>2 DEF deleteObject

----------------------------------------------------------------------------
(* createBucket, deleteBucket.                                             *)

LEMMA CreateBucketTyping ==
  ASSUME Typing, NEW p \in Proc, createBucket(p)
  PROVE  Typing'
<1> USE DEF Typing
<1> DEFINE R(b) == [Idle EXCEPT !.op = "createBucket", !.bucket = b]
<1>1. PICK b \in Bucket :
        \/ CreateBucket(b) /\ Refuse(p, R(b), "ok")
        \/ UNCHANGED metaVars /\ \E code \in Code : Refuse(p, R(b), code)
  BY DEF createBucket, StoreErrors, Code
<1>2. /\ R(b) \in Request
      /\ \A code \in Code : Shape([R(b) EXCEPT !.pc = "reply", !.code = code])
  BY IdleTyping, ZenonT(40) DEF Request, Shape, AllOps, Idle
<1>3. RequestTyping'
  <2> HIDE DEF R
  <2> QED BY <1>1, <1>2, RefuseTyping DEF createBucket, Code
<1>4. MetaTyping'
  BY <1>1, MetaSame DEF CreateBucket, MetaTyping, MetaTypeOK
<1> QED BY <1>3, <1>4, BlobSame DEF createBucket

LEMMA DeleteBucketTyping ==
  ASSUME Typing, NEW p \in Proc, deleteBucket(p)
  PROVE  Typing'
<1> USE DEF Typing
<1>1. CASE DeleteBucketBegin(p)
  <2> DEFINE R(b) == [Idle EXCEPT !.op = "deleteBucket", !.bucket = b]
  <2>1. PICK b \in Bucket : \E refusals \in SUBSET {"bucket_not_empty"} :
          EnterUnless(p, R(b), refusals, "count")
    BY <1>1 DEF DeleteBucketBegin
  <2>2. /\ R(b) \in Request
        /\ Shape([R(b) EXCEPT !.pc = "count"])
        /\ \A code \in Code : Shape([R(b) EXCEPT !.pc = "reply", !.code = code])
    BY IdleTyping DEF Request, Shape, AllOps, Idle
  <2>3. RequestTyping'
    <3> HIDE DEF R
    <3>1. PICK refusals \in SUBSET {"bucket_not_empty"} :
            EnterUnless(p, R(b), refusals, "count")
      BY <2>1
    <3>2. refusals \subseteq Refusals
      BY DEF Refusals, Code
    <3> QED BY <1>1, <2>2, <3>1, <3>2, EnterUnlessTyping
            DEF DeleteBucketBegin, PC
  <2> QED BY <1>1, <2>3, BlobSame, MetaSame DEF DeleteBucketBegin
<1>2. CASE DeleteBucketCount(p)
  <2>1. Shape([req[p] EXCEPT !.pc = "commit"])
    BY <1>2, RequestFacts DEF Shape, Request, DeleteBucketCount
  <2>2. RequestTyping'
    BY <1>2, <2>1, AnswerTyping, GotoTyping
       DEF DeleteBucketCount, StoreErrors, PC, Code
  <2> QED BY <1>2, <2>2, BlobSame, MetaSame DEF DeleteBucketCount
<1>3. CASE DeleteBucketCommit(p)
  <2>1. RequestTyping'
    BY <1>3, AnswerTyping DEF DeleteBucketCommit, Code
  <2>2. MetaTyping'
    BY <1>3, MetaSame
       DEF DeleteBucketCommit, DeleteBucket, MetaTyping, MetaTypeOK
  <2> QED BY <1>3, <2>1, <2>2, BlobSame DEF DeleteBucketCommit
<1> QED BY <1>1, <1>2, <1>3 DEF deleteBucket

----------------------------------------------------------------------------
(* createUpload, putUploadPart, completeUpload, deleteUpload.              *)

LEMMA CreateUploadTyping ==
  ASSUME Typing, NEW p \in Proc, createUpload(p)
  PROVE  Typing'
<1> USE DEF Typing
<1>1. CASE CreateUploadBegin(p)
  <2> DEFINE R(n) == [Idle EXCEPT !.op = "createUpload", !.bucket = n[1],
                                  !.name = n]
  <2>1. PICK n \in Name : EnterUnless(p, R(n), BucketRefusal(n[1]), "create")
    BY <1>1 DEF CreateUploadBegin
  <2>2. n[1] \in Bucket
    BY DEF Name
  <2>3. /\ R(n) \in Request
        /\ Shape([R(n) EXCEPT !.pc = "create"])
        /\ \A code \in Code : Shape([R(n) EXCEPT !.pc = "reply", !.code = code])
    BY <2>2, IdleTyping, ZenonT(40) DEF Request, Shape, AllOps, Idle
  <2>4. RequestTyping'
    <3> HIDE DEF R
    <3> QED BY <1>1, <2>1, <2>3, BucketRefusals, EnterUnlessTyping
            DEF CreateUploadBegin, PC
  <2> QED BY <1>1, <2>4, BlobSame, MetaSame DEF CreateUploadBegin
<1>2. CASE CreateUploadCreate(p)
  BY <1>2, CreateBlobTyping DEF CreateUploadCreate
<1>3. CASE CreateUploadCommit(p)
  <2>1. req[p].blob \in BlobId /\ req[p].name \in Name
    BY <1>3, RequestFacts DEF CreateUploadCommit, Shape
  <2>2. RequestTyping'
    BY <1>3, <2>1, AnswerTyping, RemoveThenAnswerTyping
       DEF CreateUploadCommit, Code
  <2>3. MetaTyping'
    <3>1. CASE UNCHANGED metaVars
      BY <3>1, MetaSame
    <3>2. CASE \E u \in UploadId : CreateUpload(u, req[p].blob, req[p].name)
      <4> DEFINE row == [state |-> "active", blob |-> req[p].blob,
                         name |-> req[p].name, parts |-> NoParts]
      <4>1. PICK u \in UploadId : CreateUpload(u, req[p].blob, req[p].name)
        BY <3>2
      <4>2. NoParts \in [1..MaxParts -> Seq(Data)]
        BY DEF NoParts
      <4>3. \A n \in 1..MaxParts : Len(NoParts[n]) <= PartSize
        BY SizeAssumption DEF NoParts
      <4>4. row \in UploadRow /\ SessionShape(row)
        BY <2>1, <4>2, <4>3 DEF UploadRow, SessionShape
      <4>5. uploads' = [uploads EXCEPT ![u] = row] /\ UNCHANGED <<buckets, objects>>
        BY <4>1 DEF CreateUpload
      <4> HIDE DEF row
      <4> QED BY <4>4, <4>5 DEF MetaTyping, MetaTypeOK
    <3> QED BY <1>3, <3>1, <3>2 DEF CreateUploadCommit
  <2> QED BY <1>3, <2>2, <2>3, BlobSame DEF CreateUploadCommit
<1> QED BY <1>1, <1>2, <1>3 DEF createUpload

LEMMA SessionFacts ==
  ASSUME Typing, NEW u \in UploadId
  PROVE  /\ SessionShape(uploads[u])
         /\ uploads[u].blob \in BlobId \cup {None}
         /\ uploads[u].name \in Name \cup {None}
         /\ uploads[u].parts \in [1..MaxParts -> Seq(Data)]
BY DEF Typing, MetaTyping, MetaTypeOK, UploadRow

LEMMA EndedTyping == Ended \in UploadRow /\ SessionShape(Ended)
<1>1. NoParts \in [1..MaxParts -> Seq(Data)]
  BY DEF NoParts
<1>2. \A n \in 1..MaxParts : Len(NoParts[n]) <= PartSize
  BY SizeAssumption DEF NoParts
<1> QED BY <1>1, <1>2 DEF Ended, Unused, UploadRow, SessionShape

LEMMA PutUploadPartBeginTyping ==
  ASSUME Typing, NEW p \in Proc, PutUploadPartBegin(p)
  PROVE  Typing'
<1> USE DEF Typing
<1> DEFINE R(u, n, body, want) ==
      [Idle EXCEPT !.op = "part", !.upload = u, !.part = n, !.body = body,
                   !.want = want, !.blob = uploads[u].blob]
<1>1. PICK u \in UploadId, n \in 1..MaxParts :
        \E body \in PartBodies[u][n] : \E want \in Declared(body, PartBodies[u][n]) :
          EnterUnless(p, R(u, n, body, want), LookupRefusal(u), "open")
  BY DEF PutUploadPartBegin
<1>2. PICK body \in PartBodies[u][n] :
         \E want \in Declared(body, PartBodies[u][n]) :
           EnterUnless(p, R(u, n, body, want), LookupRefusal(u), "open")
  BY <1>1
<1>3. PICK want \in Declared(body, PartBodies[u][n]) :
        EnterUnless(p, R(u, n, body, want), LookupRefusal(u), "open")
  BY <1>2
<1>4. /\ body \in Seq(Data) /\ want \in Seq(Data)
      /\ Len(body) \in 1..PartSize
  BY BodyTypes DEF Declared
<1>5. n \in 0..MaxParts
  BY SizeAssumption
<1>6. R(u, n, body, want) \in Request
  BY <1>4, <1>5, SessionFacts, IdleTyping DEF Request, AllOps, Idle
<1>7. Len(body) <= PartSize
  BY <1>4, SizeAssumption
<1>8. \A code \in Code :
        Shape([R(u, n, body, want) EXCEPT !.pc = "reply", !.code = code])
  BY <1>7, IdleTyping DEF Shape, Idle
<1>9. LookupRefusal(u) = {} => Shape([R(u, n, body, want) EXCEPT !.pc = "open"])
  <2>1. LookupRefusal(u) = {} => uploads[u].blob \in BlobId
    BY SessionFacts DEF LookupRefusal, Active, SessionShape
  <2> QED BY <1>7, <2>1, IdleTyping DEF Shape, Idle
<1>10. RequestTyping'
  <2> HIDE DEF R
  <2> QED BY <1>3, <1>6, <1>8, <1>9, LookupRefusals, EnterUnlessTyping
          DEF PutUploadPartBegin, PC
<1> QED BY <1>10, BlobSame, MetaSame DEF PutUploadPartBegin

LEMMA PutUploadPartTyping ==
  ASSUME Typing, NEW p \in Proc, putUploadPart(p)
  PROVE  Typing'
<1> USE DEF Typing
<1>1. CASE PutUploadPartBegin(p)
  BY <1>1, PutUploadPartBeginTyping
<1>2. CASE PutUploadPartOpen(p)
  <2>1. Shape([req[p] EXCEPT !.pc = "write"])
    BY <1>2, RequestFacts DEF Shape, Request, PutUploadPartOpen
  <2>2. RequestTyping'
    BY <1>2, <2>1, AnswerTyping, GotoTyping DEF PutUploadPartOpen, PC, Code
  <2> QED BY <1>2, <2>2, BlobSame, MetaSame DEF PutUploadPartOpen
<1>3. CASE PutUploadPartWrite(p)
  <2> DEFINE done == req[p].done
             body == req[p].body
             cell == <<body[done + 1]>>
             offset == PartOffset(req[p].part) + done
  <2>1. /\ req[p].blob \in BlobId /\ req[p].part \in 1..MaxParts
        /\ Len(body) <= PartSize /\ done < Len(body)
        /\ done \in Nat /\ body \in Seq(Data) /\ PartSize \in Nat
    BY <1>3, RequestFacts, SizeAssumption DEF PutUploadPartWrite, Shape
  <2>2. cell \in Seq(Data)
    <3>1. body[done + 1] \in Data
      BY <2>1
    <3> QED BY <3>1
  <2>3. offset \in Int
    BY <2>1, SizeAssumption DEF PartOffset
  <2>4. done + 1 \in 0..PartSize
    BY <2>1
  <2>5. Write(req[p].blob, offset, cell)
    BY <1>3 DEF PutUploadPartWrite
  <2> HIDE DEF cell, offset
  <2>6. BlobTypeOK'
    BY <2>1, <2>2, <2>3, <2>5, WriteType
  <2> DEFINE r == [req[p] EXCEPT !.done = done + 1]
  <2>7. req' = [req EXCEPT ![p] = r]
    BY <1>3 DEF PutUploadPartWrite
  <2>8. r \in Request
    BY <2>4, RequestFacts DEF Request
  <2>9. Shape(r)
    BY RequestFacts DEF Shape, Request
  <2> HIDE DEF r
  <2>10. RequestTyping'
    BY <1>3, <2>7, <2>8, <2>9, MoveTyping DEF PutUploadPartWrite
  <2> QED BY <1>3, <2>6, <2>10, MetaSame DEF PutUploadPartWrite
<1>4. CASE PutUploadPartShort(p)
  <2>1. RequestTyping'
    BY <1>4, AnswerTyping DEF PutUploadPartShort, Code
  <2> QED BY <1>4, <2>1, BlobSame, MetaSame DEF PutUploadPartShort
<1>5. CASE PutUploadPartVerify(p)
  <2>1. Shape([req[p] EXCEPT !.pc = "sync"])
    BY <1>5, RequestFacts DEF Shape, Request, PutUploadPartVerify
  <2>2. RequestTyping'
    BY <1>5, <2>1, AnswerTyping, GotoTyping DEF PutUploadPartVerify, PC, Code
  <2> QED BY <1>5, <2>2, BlobSame, MetaSame DEF PutUploadPartVerify
<1>6. CASE PutUploadPartSync(p)
  <2>1. req[p].blob \in BlobId /\ Shape([req[p] EXCEPT !.pc = "commit"])
    BY <1>6, RequestFacts DEF Shape, Request, PutUploadPartSync
  <2>2. RequestTyping'
    BY <1>6, <2>1, AnswerTyping, GotoTyping DEF PutUploadPartSync, PC, Code
  <2>3. BlobTypeOK'
    BY <1>6, <2>1, SyncType, BlobSame DEF PutUploadPartSync
  <2> QED BY <1>6, <2>2, <2>3, MetaSame DEF PutUploadPartSync
<1>7. CASE PutUploadPartCommit(p)
  <2> DEFINE u == req[p].upload
             n == req[p].part
             body == req[p].body
  <2>1. /\ u \in UploadId /\ n \in 1..MaxParts
        /\ body \in Seq(Data) /\ Len(body) <= PartSize
    BY <1>7, RequestFacts DEF PutUploadPartCommit, Shape
  <2>2. RequestTyping'
    BY <1>7, AnswerTyping DEF PutUploadPartCommit, Code
  <2>3. CASE UNCHANGED metaVars
    BY <1>7, <2>2, <2>3, BlobSame, MetaSame DEF PutUploadPartCommit
  <2>4. CASE PutPart(u, n, body)
    <3> HIDE DEF u, n, body
    <3> DEFINE row == [uploads[u] EXCEPT !.parts[n] = body]
    <3>1. row \in UploadRow
      BY <2>1 DEF MetaTyping, MetaTypeOK, UploadRow
    <3>2. SessionShape(row)
      BY <2>1, SessionFacts DEF SessionShape, MetaTyping, MetaTypeOK, UploadRow
    <3>3. uploads' = [uploads EXCEPT ![u] = row] /\ UNCHANGED <<buckets, objects>>
      BY <2>4 DEF PutPart
    <3> HIDE DEF row
    <3>4. MetaTyping'
      BY <2>1, <3>1, <3>2, <3>3 DEF MetaTyping, MetaTypeOK
    <3> QED BY <1>7, <2>2, <3>4, BlobSame DEF PutUploadPartCommit
  <2> QED BY <1>7, <2>3, <2>4 DEF PutUploadPartCommit
<1> QED BY <1>1, <1>2, <1>3, <1>4, <1>5, <1>6, <1>7 DEF putUploadPart

LEMMA CompleteUploadBeginTyping ==
  ASSUME Typing, NEW p \in Proc, CompleteUploadBegin(p)
  PROVE  Typing'
<1> USE DEF Typing
<1> DEFINE R(u) == [Idle EXCEPT !.op = "complete", !.upload = u]
           S(u, count) ==
             [R(u) EXCEPT !.bucket = uploads[u].name[1],
                          !.name = uploads[u].name,
                          !.blob = uploads[u].blob,
                          !.want = Fold(uploads[u].parts, count)]
           Refusal(u, count, supplied) ==
             IF LookupRefusal(u) # {} THEN LookupRefusal(u)
             ELSE PartsRefusal(uploads[u].parts, count, supplied)
<1>1. PICK u \in UploadId : \E count \in CompleteCounts[u] :
        \E supplied \in Supplied(u, count) :
          \/ /\ Refusal(u, count, supplied) = {}
             /\ Enter(p, S(u, count), "commit")
          \/ \E code \in Refusal(u, count, supplied) \cup StoreErrors :
               Refuse(p, R(u), code)
  BY DEF CompleteUploadBegin
<1>2. PICK count \in CompleteCounts[u] :
        \E supplied \in Supplied(u, count) :
          \/ /\ Refusal(u, count, supplied) = {}
             /\ Enter(p, S(u, count), "commit")
          \/ \E code \in Refusal(u, count, supplied) \cup StoreErrors :
               Refuse(p, R(u), code)
  BY <1>1
<1>3. PICK supplied \in Supplied(u, count) :
          \/ /\ Refusal(u, count, supplied) = {}
             /\ Enter(p, S(u, count), "commit")
          \/ \E code \in Refusal(u, count, supplied) \cup StoreErrors :
               Refuse(p, R(u), code)
  BY <1>2
<1>4. Refusal(u, count, supplied) \cup StoreErrors \subseteq Code
  BY DEF LookupRefusal, PartsRefusal, StoreErrors, Code
<1>5. /\ R(u) \in Request
      /\ \A code \in Code : Shape([R(u) EXCEPT !.pc = "reply", !.code = code])
  <2>1. R(u) \in Request
    BY IdleTyping DEF Request, AllOps
  <2>2. ASSUME NEW code \in Code
        PROVE  Shape([R(u) EXCEPT !.pc = "reply", !.code = code])
    <3>1. PICK r : r = [R(u) EXCEPT !.pc = "reply", !.code = code]
      OBVIOUS
    <3>2. r.op = "complete" /\ r.pc = "reply" /\ r.upload = u
      BY <3>1, IdleTyping DEF Request
    <3>3. Shape(r)
      BY <3>2 DEF Shape
    <3> QED BY <3>1, <3>3
  <2> QED BY <2>1, <2>2
<1>6. ASSUME Refusal(u, count, supplied) = {}
      PROVE  S(u, count) \in Request
             /\ Shape([S(u, count) EXCEPT !.pc = "commit"])
  <2>1. Active(u) /\ PartsRefusal(uploads[u].parts, count, supplied) = {}
    BY <1>6 DEF LookupRefusal
  <2>2. uploads[u].blob \in BlobId /\ uploads[u].name \in Name
    BY <2>1, SessionFacts DEF Active, SessionShape
  <2>3. uploads[u].name[1] \in Bucket
    BY <2>2 DEF Name
  <2>4. count \in 1..MaxParts
    BY BodyAssumption
  <2>5. Fold(uploads[u].parts, count) \in Seq(Data)
    BY <2>1, <2>4, SessionFacts, FoldType DEF SessionShape
  <2> DEFINE fold == Fold(uploads[u].parts, count)
  <2> HIDE DEF fold
  <2> QED BY <1>5, <2>2, <2>3, <2>5, ZenonT(40) DEF fold, Request, Shape, PC, Idle
<1>7. RequestTyping'
  <2> HIDE DEF R, S, Refusal
  <2> QED BY <1>3, <1>4, <1>5, <1>6, EnterTyping, RefuseTyping
          DEF CompleteUploadBegin, PC
<1> QED BY <1>7, BlobSame, MetaSame DEF CompleteUploadBegin

LEMMA CompleteUploadTyping ==
  ASSUME Typing, NEW p \in Proc, completeUpload(p)
  PROVE  Typing'
<1> USE DEF Typing
<1>1. CASE CompleteUploadBegin(p)
  BY <1>1, CompleteUploadBeginTyping
<1>2. CASE CompleteUploadCommit(p)
  <2> DEFINE u == req[p].upload
             n == req[p].name
             row == [blob |-> req[p].blob, sum |-> req[p].want]
  <2>1. u \in UploadId /\ n \in Name /\ req[p].blob \in BlobId
    BY <1>2, RequestFacts DEF CompleteUploadCommit, Shape
  <2>2. row \in ObjectRow
    BY <2>1, RequestFacts DEF ObjectRow
  <2>3. objects[n].blob \in BlobId \cup {None}
    BY <2>1 DEF MetaTyping, MetaTypeOK, ObjectRow
  <2> HIDE DEF u, n, row
  <2>4. CASE CompleteUpload(u, n, row) /\ RemoveThenAnswer(p, objects[n].blob, "ok")
    <3>1. RequestTyping'
      BY <1>2, <2>3, <2>4, RemoveThenAnswerTyping DEF CompleteUploadCommit, Code
    <3>2. /\ objects' = [objects EXCEPT ![n] = row]
          /\ uploads' = [uploads EXCEPT ![u] = Ended]
          /\ UNCHANGED buckets
      BY <2>4 DEF CompleteUpload
    <3>3. MetaTyping'
      BY <2>1, <2>2, <3>2, EndedTyping DEF MetaTyping, MetaTypeOK
    <3> QED BY <1>2, <3>1, <3>3, BlobSame DEF CompleteUploadCommit
  <2>5. CASE UNCHANGED metaVars /\ \E code \in Code : Answer(p, code)
    BY <1>2, <2>5, AnswerTyping, BlobSame, MetaSame DEF CompleteUploadCommit
  <2> QED BY <1>2, <2>4, <2>5 DEF CompleteUploadCommit, Code, u, n, row
<1> QED BY <1>1, <1>2 DEF completeUpload

LEMMA DeleteUploadTyping ==
  ASSUME Typing, NEW p \in Proc, deleteUpload(p)
  PROVE  Typing'
<1> USE DEF Typing
<1>1. CASE DeleteUploadBegin(p)
  <2> DEFINE R(u) == [Idle EXCEPT !.op = "abort", !.upload = u]
  <2>1. PICK u \in UploadId :
          EnterUnless(p, R(u), LookupRefusal(u), "commit")
    BY <1>1 DEF DeleteUploadBegin
  <2>2. R(u) \in Request
    BY IdleTyping DEF Request, AllOps, Idle
  <2>3. Shape([R(u) EXCEPT !.pc = "commit"])
    BY DEF Shape, Idle
  <2>4. \A code \in Code : Shape([R(u) EXCEPT !.pc = "reply", !.code = code])
    BY DEF Shape, Idle
  <2>5. RequestTyping'
    <3> HIDE DEF R
    <3> QED BY <1>1, <2>1, <2>2, <2>3, <2>4, LookupRefusals, EnterUnlessTyping
            DEF DeleteUploadBegin, PC
  <2> QED BY <1>1, <2>5, BlobSame, MetaSame DEF DeleteUploadBegin
<1>2. CASE DeleteUploadCommit(p)
  <2> DEFINE u == req[p].upload
  <2>1. u \in UploadId
    BY <1>2, RequestFacts DEF DeleteUploadCommit, Shape
  <2>2. uploads[u].blob \in BlobId \cup {None}
    BY <2>1, SessionFacts
  <2> HIDE DEF u
  <2>3. CASE DeleteUpload(u) /\ RemoveThenAnswer(p, uploads[u].blob, "ok")
    <3>1. RequestTyping'
      BY <1>2, <2>2, <2>3, RemoveThenAnswerTyping DEF DeleteUploadCommit, Code
    <3>2. uploads' = [uploads EXCEPT ![u] = Ended] /\ UNCHANGED <<buckets, objects>>
      BY <2>3 DEF DeleteUpload
    <3>3. MetaTyping'
      BY <2>1, <3>2, EndedTyping DEF MetaTyping, MetaTypeOK
    <3> QED BY <1>2, <3>1, <3>3, BlobSame DEF DeleteUploadCommit
  <2>4. CASE /\ UNCHANGED metaVars
             /\ Drop(p) \/ \E code \in Code : Answer(p, code)
    BY <1>2, <2>4, AnswerTyping, DropTyping, BlobSame, MetaSame
       DEF DeleteUploadCommit
  <2> QED BY <1>2, <2>3, <2>4 DEF DeleteUploadCommit, Code, u
<1> QED BY <1>1, <1>2 DEF deleteUpload

----------------------------------------------------------------------------
(* The end of a request, the clock and the crash.                          *)

LEMMA RemoveBlobTyping ==
  ASSUME Typing, NEW p \in Proc, RemoveBlob(p)
  PROVE  Typing'
<1> USE DEF Typing
<1>1. req[p].blob \in BlobId /\ Shape([req[p] EXCEPT !.pc = "reply"])
  BY RequestFacts DEF Shape, Request, RemoveBlob
<1>2. RequestTyping'
  BY <1>1, GotoTyping DEF RemoveBlob, PC
<1>3. BlobTypeOK'
  BY <1>1, RemoveType, BlobSame DEF RemoveBlob
<1> QED BY <1>2, <1>3, MetaSame DEF RemoveBlob

LEMMA EnvironmentTyping ==
  ASSUME Typing, Kill \/ Crash \/ \E u \in UploadId : Expire(u)
  PROVE  Typing'
<1> USE DEF Typing
<1>1. CASE Crash
  <2>1. BlobTypeOK' /\ MetaTyping'
    BY <1>1, CrashType, MetaSame DEF Crash
  <2>2. RequestTyping'
    BY <1>1, IdleTyping DEF Crash, RequestTyping, RequestTypeOK
  <2> QED BY <2>1, <2>2
<1>2. ASSUME NEW u \in UploadId, Expire(u) PROVE Typing'
  BY <1>2, BlobSame, MetaSame DEF Expire, RequestTyping, RequestTypeOK
<1>3. CASE Kill
  BY <1>3, BlobSame, MetaSame, IdleTyping DEF Kill, RequestTyping, RequestTypeOK
<1> QED BY <1>1, <1>2, <1>3

----------------------------------------------------------------------------
(* Type correctness.                                                       *)

LEMMA InitTyping == Init => Typing
<1> SUFFICES ASSUME Init PROVE Typing
  OBVIOUS
<1>1. BlobTypeOK
  BY DEF Init, BlobInit, BlobTypeOK, LinkState, File, Empty, Data
<1>2. Unused \in UploadRow /\ SessionShape(Unused)
  <2>1. NoParts \in [1..MaxParts -> Seq(Data)]
    BY DEF NoParts
  <2>2. \A n \in 1..MaxParts : Len(NoParts[n]) <= PartSize
    BY SizeAssumption DEF NoParts
  <2> QED BY <2>1, <2>2 DEF Unused, UploadRow, SessionShape
<1>3. NoObject \in ObjectRow
  BY DEF NoObject, ObjectRow
<1>4. MetaTyping
  BY <1>2, <1>3 DEF Init, MetaInit, MetaTyping, MetaTypeOK
<1>5. RequestTyping
  BY IdleTyping DEF Init, RequestInit, RequestTyping, RequestTypeOK
<1> QED BY <1>1, <1>4, <1>5 DEF Typing

LEMMA NextTyping == Typing /\ [Next]_vars => Typing'
<1> SUFFICES ASSUME Typing, [Next]_vars PROVE Typing'
  OBVIOUS
<1>1. CASE UNCHANGED vars
  BY <1>1, BlobSame, MetaSame
     DEF vars, blobVars, metaVars, Typing, RequestTyping, RequestTypeOK
<1>2. ASSUME NEW p \in Proc, Handle(p) PROVE Typing'
  <2>1. CASE Reply(p)
    BY <2>1, BlobSame, MetaSame, DropTyping DEF Reply, Typing
  <2> QED BY <1>2, <2>1, PutObjectTyping, GetObjectTyping, DeleteObjectTyping,
             CreateBucketTyping, DeleteBucketTyping, CreateUploadTyping,
             PutUploadPartTyping, CompleteUploadTyping, DeleteUploadTyping,
             RemoveBlobTyping, CreateBlobFailsTyping DEF Handle
<1> QED BY <1>1, <1>2, EnvironmentTyping DEF Next

LEMMA TypingInvariant == Spec => []Typing
BY InitTyping, NextTyping, PTL DEF Spec

(* Whatever the requests, the faults and the crashes: the tables, the      *)
(* files and the handlers' variables keep their types.                     *)
THEOREM TypeCorrect == Spec => []TypeOK
<1>1. Typing => TypeOK
  BY DEF Typing, MetaTyping, RequestTyping, TypeOK
<1> QED BY <1>1, TypingInvariant, PTL

----------------------------------------------------------------------------
(* Steps that give nobody a new blob.                                      *)

(* A handler moves on without taking hold of anything new, and no store    *)
(* changes.                                                                *)
LEMMA QuietStep ==
  ASSUME RefInv, UNCHANGED <<link, objects, uploads>>,
         req \in [Proc -> Request], NEW p \in Proc, NEW r,
         req' = [req EXCEPT ![p] = r],
         Holds(r) => Holds(req[p]) /\ r.blob = req[p].blob,
         Borrows(r) => /\ Borrows(req[p])
                       /\ r.blob = req[p].blob /\ r.upload = req[p].upload
                       /\ r.pc = "commit" => req[p].pc = "commit",
         r.op = "put" => r.pc # "commit"
  PROVE  RefInv'
<1>1. HeldAlone'
  BY DEF RefInv, HeldAlone
<1>2. ObjectsKept' /\ SessionsKept'
  BY DEF RefInv, ObjectsKept, SessionsKept, Kept
<1>3. BorrowedFromSession'
  BY DEF RefInv, BorrowedFromSession, Kept, Active
<1>4. PutIsSynced'
  BY DEF RefInv, PutIsSynced, Kept
<1> QED BY <1>1, <1>2, <1>3, <1>4 DEF RefInv

(* A request is only answered, or refused at once.                         *)
LEMMA AnswerRef ==
  ASSUME Inv, UNCHANGED <<link, objects, uploads>>, NEW p \in Proc,
         NEW code \in Code, Answer(p, code)
  PROVE  RefInv'
<1> DEFINE r == [req[p] EXCEPT !.pc = "reply", !.code = code]
<1>1. req' = [req EXCEPT ![p] = r]
  BY DEF Answer
<1>2. req[p] \in Request /\ req \in [Proc -> Request]
  BY DEF Inv, Typing, RequestTyping, RequestTypeOK
<1>3. r.pc = "reply"
  BY <1>2 DEF Request
<1> HIDE DEF r
<1> QED BY <1>1, <1>2, <1>3, QuietStep DEF Inv, Holds, Borrows

LEMMA RefuseRef ==
  ASSUME Inv, UNCHANGED <<link, objects, uploads>>, NEW p \in Proc,
         NEW s \in Request, NEW code \in Code, Refuse(p, s, code)
  PROVE  RefInv'
<1> DEFINE r == [s EXCEPT !.pc = "reply", !.code = code]
<1>1. req' = [req EXCEPT ![p] = r]
  BY DEF Refuse
<1>2. req \in [Proc -> Request]
  BY DEF Inv, Typing, RequestTyping, RequestTypeOK
<1>3. r.pc = "reply"
  BY <1>2 DEF Request
<1> HIDE DEF r
<1> QED BY <1>1, <1>2, <1>3, QuietStep DEF Inv, Holds, Borrows

(* A request of an operation that is neither put nor about a session.      *)
LEMMA EnterRef ==
  ASSUME Inv, UNCHANGED <<link, objects, uploads>>, NEW p \in Proc,
         NEW s \in Request, NEW pc \in PC \ {"remove"}, Enter(p, s, pc),
         \/ s.op \in {"get", "delete", "deleteBucket", "abort"}
         \/ s.op \in {"put", "createUpload"} /\ pc = "create"
  PROVE  RefInv'
<1> DEFINE r == [s EXCEPT !.pc = pc]
<1>1. req' = [req EXCEPT ![p] = r]
  BY DEF Enter
<1>2. req \in [Proc -> Request]
  BY DEF Inv, Typing, RequestTyping, RequestTypeOK
<1>3. r.pc = pc /\ r.op = s.op
  BY <1>2 DEF Request
<1> HIDE DEF r
<1> QED BY <1>1, <1>2, <1>3, QuietStep DEF Inv, Holds, Borrows

LEMMA EnterUnlessRef ==
  ASSUME Inv, UNCHANGED <<link, objects, uploads>>, NEW p \in Proc,
         NEW s \in Request, NEW pc \in PC \ {"remove"}, NEW refusals,
         EnterUnless(p, s, refusals, pc), refusals \subseteq Refusals,
         \/ s.op \in {"get", "delete", "deleteBucket", "abort"}
         \/ s.op \in {"put", "createUpload"} /\ pc = "create"
  PROVE  RefInv'
BY EnterOrRefuse, EnterRef, RefuseRef DEF Refusals

(* A handler moves on with what it has.                                    *)
LEMMA GotoRef ==
  ASSUME Inv, UNCHANGED <<link, objects, uploads>>, NEW p \in Proc,
         NEW pc \in PC, Goto(p, pc),
         LET r == [req[p] EXCEPT !.pc = pc]
         IN  /\ Holds(r) => Holds(req[p])
             /\ Borrows(r) => Borrows(req[p])
             /\ Borrows(r) /\ pc = "commit" => req[p].pc = "commit"
             /\ r.op = "put" => pc # "commit"
  PROVE  RefInv'
<1> DEFINE r == [req[p] EXCEPT !.pc = pc]
<1>1. req' = [req EXCEPT ![p] = r]
  BY DEF Goto
<1>2. req \in [Proc -> Request] /\ req[p] \in Request
  BY DEF Inv, Typing, RequestTyping, RequestTypeOK
<1>3. /\ r.pc = pc /\ r.op = req[p].op
      /\ r.blob = req[p].blob /\ r.upload = req[p].upload
  BY <1>2 DEF Request
<1> HIDE DEF r
<1> QED BY <1>1, <1>2, <1>3, QuietStep DEF Inv, r

(* A handler that fails gives up the blob it made.                         *)
LEMMA GiveUpRef ==
  ASSUME Inv, UNCHANGED <<link, objects, uploads>>, NEW p \in Proc,
         NEW code \in Code, Holds(req[p]),
         RemoveThenAnswer(p, req[p].blob, code)
  PROVE  RefInv'
<1> DEFINE r == [req[p] EXCEPT
                   !.pc = IF req[p].blob = None THEN "reply" ELSE "remove",
                   !.blob = req[p].blob, !.code = code]
<1>1. req' = [req EXCEPT ![p] = r]
  BY DEF RemoveThenAnswer
<1>2. req \in [Proc -> Request] /\ req[p] \in Request
  BY DEF Inv, Typing, RequestTyping, RequestTypeOK
<1>3. r.pc \in {"reply", "remove"} /\ r.blob = req[p].blob
  BY <1>2 DEF Request
<1> HIDE DEF r
<1> QED BY <1>1, <1>2, <1>3, QuietStep DEF Inv, Borrows

LEMMA DropRef ==
  ASSUME Inv, UNCHANGED <<link, objects, uploads>>, NEW p \in Proc, Drop(p)
  PROVE  RefInv'
<1>1. req \in [Proc -> Request]
  BY DEF Inv, Typing, RequestTyping, RequestTypeOK
<1> QED BY <1>1, QuietStep DEF Inv, Drop, Holds, Borrows, Idle

----------------------------------------------------------------------------
(* Steps of the blob store.                                                *)

(* A drawn id is kept; nobody has it yet.                                  *)
LEMMA CreateBlobRef ==
  ASSUME Inv, NEW p \in Proc, NEW next \in {"write", "commit"},
         CreateBlob(p, next), req[p].op = "put" => next = "write"
  PROVE  RefInv'
<1>1. PICK id \in BlobId :
        Create(id) /\ req' = [req EXCEPT ![p].pc = next, ![p].blob = id]
  BY DEF CreateBlob
<1>2. /\ UNCHANGED <<objects, uploads>> /\ link[id] = "unused"
      /\ link' = [link EXCEPT ![id] = "fresh"]
      /\ req[p].op \in {"put", "createUpload"}
  BY <1>1, RequestFacts DEF CreateBlob, Create, metaVars, Shape, Inv
<1> DEFINE r == [req[p] EXCEPT !.pc = next, !.blob = id]
<1>3. req' = [req EXCEPT ![p] = r] /\ req \in [Proc -> Request]
  BY <1>1 DEF Inv, Typing, RequestTyping, RequestTypeOK
<1>4. /\ r.op = req[p].op /\ r.pc = next /\ r.blob = id
  BY <1>3 DEF Request
<1> HIDE DEF r
<1>5. link \in [BlobId -> LinkState] /\ None # id
  BY NoneAssumption DEF Inv, Typing, BlobTypeOK
<1>6. \A n \in Name : objects[n].blob # id
  BY <1>2, <1>5 DEF Inv, RefInv, ObjectsKept, Kept
<1>7. \A u \in UploadId : uploads[u].blob # id
  BY <1>2, <1>5, SessionFacts DEF Inv, RefInv, SessionsKept, SessionShape
<1>8. \A q \in Proc : Holds(req[q]) => req[q].blob # id
  BY <1>2 DEF Inv, RefInv, HeldAlone
<1>9. \A b \in BlobId : Kept(b) => Kept(b)'
  BY <1>2, <1>5 DEF Kept
<1>10. \A b \in BlobId : link[b] # "unused" => link'[b] # "unused"
  BY <1>2, <1>5
<1>11. HeldAlone'
  BY <1>2, <1>3, <1>4, <1>5, <1>6, <1>7, <1>8, <1>10,
     RequestFacts DEF Inv, RefInv, HeldAlone, Holds, Shape
<1>12. ObjectsKept'
  BY <1>2, <1>9 DEF Inv, RefInv, ObjectsKept, Typing, MetaTyping, MetaTypeOK, ObjectRow
<1>13. SessionsKept'
  BY <1>2, <1>9, <1>10, SessionFacts DEF Inv, RefInv, SessionsKept, SessionShape
<1>14. BorrowedFromSession'
  BY <1>2, <1>3, <1>4, <1>9, <1>10, RequestFacts
     DEF Inv, RefInv, BorrowedFromSession, Active, Borrows, Shape
<1>15. PutIsSynced'
  BY <1>2, <1>3, <1>4, <1>9, RequestFacts DEF Inv, RefInv, PutIsSynced, Shape
<1> QED BY <1>11, <1>12, <1>13, <1>14, <1>15 DEF RefInv

(* An id drawn by a Create that fails is nobody's.                         *)
LEMMA CreateBlobFailsRef ==
  ASSUME Inv, NEW p \in Proc, CreateBlobFails(p)
  PROVE  RefInv'
<1>1. Answer(p, "internal") /\ UNCHANGED <<objects, uploads>>
  BY DEF CreateBlobFails, metaVars
<1>2. CASE UNCHANGED link
  BY <1>1, <1>2, AnswerRef DEF Code
<1>3. ASSUME NEW id \in BlobId, Create(id) PROVE RefInv'
  <2> DEFINE r == [req[p] EXCEPT !.pc = "reply", !.code = "internal"]
  <2>1. req' = [req EXCEPT ![p] = r] /\ req \in [Proc -> Request]
    BY <1>1 DEF Answer, Inv, Typing, RequestTyping, RequestTypeOK
  <2>2. r.pc = "reply"
    BY <2>1 DEF Request
  <2> HIDE DEF r
  <2>3. /\ link[id] = "unused" /\ link' = [link EXCEPT ![id] = "fresh"]
        /\ link \in [BlobId -> LinkState]
    BY <1>3 DEF Create, Inv, Typing, BlobTypeOK
  <2>4. /\ \A b \in BlobId : Kept(b) => Kept(b)'
        /\ \A b \in BlobId : link[b] # "unused" => link'[b] # "unused"
    BY <2>3 DEF Kept
  <2>5. HeldAlone'
    BY <1>1, <2>1, <2>2, <2>4, RequestFacts DEF Inv, RefInv, HeldAlone, Holds, Shape
  <2>6. ObjectsKept'
    BY <1>1, <2>4
       DEF Inv, RefInv, ObjectsKept, Typing, MetaTyping, MetaTypeOK, ObjectRow
  <2>7. SessionsKept'
    BY <1>1, <2>4, SessionFacts DEF Inv, RefInv, SessionsKept, SessionShape
  <2>8. BorrowedFromSession'
    BY <1>1, <2>1, <2>2, <2>4, RequestFacts
       DEF Inv, RefInv, BorrowedFromSession, Active, Borrows, Shape
  <2>9. PutIsSynced'
    BY <2>1, <2>2, <2>4, RequestFacts DEF Inv, RefInv, PutIsSynced, Shape
  <2> QED BY <2>5, <2>6, <2>7, <2>8, <2>9 DEF RefInv
<1> QED BY <1>2, <1>3 DEF CreateBlobFails, blobVars

(* fsync of a blob that a handler works on makes it kept, and that handler *)
(* moves on to its commit or gives the blob up.                            *)
LEMMA SyncRef ==
  ASSUME Inv, UNCHANGED <<objects, uploads>>,
         NEW p \in Proc, req[p].pc = "sync", req[p].op \in {"put", "part"},
         Sync(req[p].blob),
         \/ Goto(p, "commit")
         \/ /\ req[p].op = "put"
            /\ \E code \in Code : RemoveThenAnswer(p, req[p].blob, code)
  PROVE  RefInv'
<1>0. PICK id \in BlobId : id = req[p].blob
  BY RequestFacts DEF Inv, Shape
<1>1. req[p] \in Request /\ req \in [Proc -> Request]
  BY RequestFacts DEF Inv, Shape, Typing, RequestTyping, RequestTypeOK
<1>2. PICK r : /\ req' = [req EXCEPT ![p] = r]
               /\ r.op = req[p].op /\ r.upload = req[p].upload
               /\ r.blob = id
               /\ r.pc \in {"commit", "remove"}
               /\ r.op = "part" => r.pc = "commit"
  <2>1. CASE Goto(p, "commit")
    <3> DEFINE s == [req[p] EXCEPT !.pc = "commit"]
    <3>1. req' = [req EXCEPT ![p] = s]
      BY <2>1 DEF Goto
    <3>2. /\ s.op = req[p].op /\ s.upload = req[p].upload
          /\ s.blob = id /\ s.pc = "commit"
      BY <1>0, <1>1 DEF Request
    <3> QED BY <3>1, <3>2
  <2>2. ASSUME NEW code \in Code, RemoveThenAnswer(p, id, code),
               req[p].op = "put"
        PROVE  \E r : /\ req' = [req EXCEPT ![p] = r]
                      /\ r.op = req[p].op /\ r.upload = req[p].upload
                      /\ r.blob = id
                      /\ r.pc \in {"commit", "remove"}
                      /\ r.op = "part" => r.pc = "commit"
    <3> DEFINE s == [req[p] EXCEPT !.pc = "remove", !.blob = id, !.code = code]
    <3>1. req' = [req EXCEPT ![p] = s]
      BY <1>0, <1>1, <2>2, NoneAssumption DEF RemoveThenAnswer
    <3>2. /\ s.op = req[p].op /\ s.upload = req[p].upload
          /\ s.blob = id /\ s.pc = "remove"
      BY <1>1 DEF Request
    <3> QED BY <2>2, <3>1, <3>2
  <2> QED BY <1>0, <2>1, <2>2
<1>3. link \in [BlobId -> LinkState]
  BY DEF Inv, Typing, BlobTypeOK
<1>4. /\ \A b \in BlobId : link[b] # "unused" => link'[b] # "unused"
      /\ \A b \in BlobId : Kept(b) => Kept(b)'
      /\ Kept(id)'
  BY <1>0, <1>3 DEF Sync, Kept, Present
<1>5. HeldAlone'
  BY <1>0, <1>1, <1>2, <1>4, RequestFacts
     DEF Inv, RefInv, HeldAlone, Holds, Shape
<1>6. ObjectsKept'
  BY <1>4 DEF Inv, RefInv, ObjectsKept, Typing, MetaTyping, MetaTypeOK, ObjectRow
<1>7. SessionsKept'
  BY <1>4, SessionFacts DEF Inv, RefInv, SessionsKept, SessionShape
<1>8. BorrowedFromSession'
  BY <1>0, <1>1, <1>2, <1>4, RequestFacts
     DEF Inv, RefInv, BorrowedFromSession, Active, Borrows, Shape
<1>9. PutIsSynced'
  BY <1>0, <1>1, <1>2, <1>4, RequestFacts DEF Inv, RefInv, PutIsSynced, Shape
<1> QED BY <1>5, <1>6, <1>7, <1>8, <1>9 DEF RefInv

(* Unlinking disturbs nobody: the blob is held alone.                      *)
LEMMA RemoveBlobRef ==
  ASSUME Inv, NEW p \in Proc, RemoveBlob(p)
  PROVE  RefInv'
<1>0. PICK id \in BlobId : id = req[p].blob
  BY RequestFacts DEF Inv, Shape, RemoveBlob
<1> DEFINE r == [req[p] EXCEPT !.pc = "reply"]
<1>1. /\ req[p].pc = "remove" /\ Holds(req[p])
      /\ UNCHANGED <<objects, uploads>>
      /\ req' = [req EXCEPT ![p] = r]
  BY DEF RemoveBlob, Goto, metaVars, Holds
<1>2. req \in [Proc -> Request] /\ r.pc = "reply"
  BY <1>1, RequestFacts
     DEF Inv, Typing, RequestTyping, RequestTypeOK, Request, Shape
<1>3. link \in [BlobId -> LinkState]
  BY DEF Inv, Typing, BlobTypeOK
<1>4. /\ \A b \in BlobId : link[b] # "unused" => link'[b] # "unused"
      /\ \A b \in BlobId : b # id /\ Kept(b) => Kept(b)'
  BY <1>0, <1>3 DEF RemoveBlob, Remove, Kept, Present, blobVars
<1> HIDE DEF r
<1>5. /\ \A n \in Name : objects[n].blob # id
      /\ \A u \in UploadId : uploads[u].blob # id
      /\ \A q \in Proc : Holds(req[q]) /\ req[q].blob = id => q = p
  BY <1>0, <1>1 DEF Inv, RefInv, HeldAlone
<1>6. HeldAlone'
  BY <1>1, <1>2, <1>4, RequestFacts
     DEF Inv, RefInv, HeldAlone, Holds, Shape
<1>7. ObjectsKept'
  BY <1>1, <1>4, <1>5
     DEF Inv, RefInv, ObjectsKept, Typing, MetaTyping, MetaTypeOK, ObjectRow
<1>8. SessionsKept'
  BY <1>1, <1>4, <1>5, SessionFacts DEF Inv, RefInv, SessionsKept, SessionShape
<1>9. BorrowedFromSession'
  BY <1>1, <1>2, <1>4, <1>5, RequestFacts
     DEF Inv, RefInv, BorrowedFromSession, Active, Borrows, Shape
<1>10. PutIsSynced'
  BY <1>1, <1>2, <1>4, <1>5, RequestFacts
     DEF Inv, RefInv, PutIsSynced, Shape, Holds
<1> QED BY <1>6, <1>7, <1>8, <1>9, <1>10 DEF RefInv

(* A kill or a power loss: kept blobs stay kept and no request survives.   *)
LEMMA CrashRef ==
  ASSUME Inv, Kill \/ Crash
  PROVE  RefInv'
<1>1. /\ UNCHANGED <<objects, uploads>>
      /\ \A p \in Proc : req'[p] = Idle
  BY DEF Kill, Crash, metaVars
<1>2. link \in [BlobId -> LinkState]
  BY DEF Inv, Typing, BlobTypeOK
<1>3. /\ \A b \in BlobId : link[b] # "unused" => link'[b] # "unused"
      /\ \A b \in BlobId : Kept(b) => Kept(b)'
  BY <1>2 DEF Kill, Crash, LoseUnsynced, Kept, blobVars
<1>4. \A p \in Proc : ~Holds(req[p])' /\ ~Borrows(req[p])'
  BY <1>1 DEF Holds, Borrows, Idle
<1>5. HeldAlone' /\ BorrowedFromSession' /\ PutIsSynced'
  BY <1>1, <1>4 DEF HeldAlone, BorrowedFromSession, PutIsSynced, Idle
<1>6. ObjectsKept'
  BY <1>1, <1>3
     DEF Inv, RefInv, ObjectsKept, Typing, MetaTyping, MetaTypeOK, ObjectRow
<1>7. SessionsKept'
  BY <1>1, <1>3, SessionFacts DEF Inv, RefInv, SessionsKept, SessionShape
<1> QED BY <1>5, <1>6, <1>7 DEF RefInv

----------------------------------------------------------------------------
(* Steps of the metadata store.                                            *)

(* An object's row changes hands: the new blob, if any, is kept and no     *)
(* row's, sessions at most end, and the old blob is held by the handler    *)
(* that replaced it.                                                       *)
LEMMA HandOver ==
  ASSUME Inv, UNCHANGED link, NEW p \in Proc, NEW n \in Name, NEW row,
         NEW code \in Code,
         objects' = [objects EXCEPT ![n] = row],
         row.blob # None => /\ row.blob \in BlobId /\ Kept(row.blob)
                            /\ \A m \in Name : objects[m].blob # row.blob
                            /\ \A u \in UploadId : uploads'[u].blob # row.blob
                            /\ \A q \in Proc \ {p} : Holds(req[q]) =>
                                 req[q].blob # row.blob,
         \A u \in UploadId : \/ uploads'[u] = uploads[u]
                             \/ uploads[u].state = "active" /\ uploads'[u] = Ended,
         RemoveThenAnswer(p, objects[n].blob, code)
  PROVE  RefInv'
<1>0. PICK old \in BlobId \cup {None} : old = objects[n].blob
  BY DEF Inv, Typing, MetaTyping, MetaTypeOK, ObjectRow
<1> DEFINE r == [req[p] EXCEPT !.pc = IF old = None THEN "reply" ELSE "remove",
                              !.blob = old, !.code = code]
<1>1. req' = [req EXCEPT ![p] = r]
  BY <1>0 DEF RemoveThenAnswer
<1>2. req[p] \in Request /\ req \in [Proc -> Request]
  BY RequestFacts DEF Inv, Typing, RequestTyping, RequestTypeOK
<1>3. /\ r.blob = old
      /\ r.pc = IF old = None THEN "reply" ELSE "remove"
  BY <1>2 DEF Request
<1> HIDE DEF r
<1>4. /\ \A m \in Name : objects'[m] = IF m = n THEN row ELSE objects[m]
      /\ \A b \in BlobId : Kept(b) => Kept(b)'
  BY DEF Inv, Typing, MetaTyping, MetaTypeOK, Kept
<1>5. /\ Ended.blob = None /\ Ended.state = "ended"
  BY DEF Ended, Unused
<1>6. old # None =>
        /\ Kept(old)
        /\ \A m \in Name : objects[m].blob = old => m = n
        /\ \A u \in UploadId : uploads[u].blob # old
        /\ \A q \in Proc : Holds(req[q]) => req[q].blob # old
  BY <1>0 DEF Inv, RefInv, ObjectsKept, HeldAlone
<1>7. HeldAlone'
  <2> SUFFICES ASSUME NEW q \in Proc, Holds(req'[q])
               PROVE  LET id == req'[q].blob
                      IN  /\ link[id] # "unused"
                          /\ \A m \in Name : objects'[m].blob # id
                          /\ \A u \in UploadId : uploads'[u].blob # id
                          /\ \A o \in Proc : Holds(req'[o]) /\ req'[o].blob = id
                               => o = q
    BY DEF HeldAlone, Holds
  <2>1. CASE q = p
    <3>1. old # None /\ req'[q].blob = old
      BY <1>1, <1>2, <1>3, <2>1 DEF Holds
    <3>2. link[old] # "unused" /\ \A m \in Name : objects'[m].blob # old
      BY <1>0, <1>4, <1>6, <3>1 DEF Kept
    <3>3. \A u \in UploadId : uploads'[u].blob # old
      BY <1>5, <1>6, <3>1
    <3>4. \A o \in Proc : Holds(req'[o]) /\ req'[o].blob = old => o = p
      BY <1>1, <1>2, <1>6, <3>1
    <3> QED BY <2>1, <3>1, <3>2, <3>3, <3>4
  <2>2. CASE q # p
    <3>1. req'[q] = req[q] /\ req[q].blob \in BlobId
      BY <1>1, <1>2, <2>2, RequestFacts DEF Inv, Shape, Holds
    <3> QED BY <1>1, <1>2, <1>3, <1>4, <1>5, <1>6, <2>2, <3>1, NoneAssumption
            DEF Inv, RefInv, HeldAlone, Holds
  <2> QED BY <2>1, <2>2
<1>8. ObjectsKept'
  BY <1>4, <1>5 DEF Inv, RefInv, ObjectsKept, Kept
<1>9. SessionsKept'
  BY <1>4, <1>5, SessionFacts, NoneAssumption
     DEF Inv, RefInv, SessionsKept, SessionShape, Kept
<1>10. BorrowedFromSession'
  <2> SUFFICES ASSUME NEW q \in Proc, Borrows(req'[q])
               PROVE  LET u == req'[q].upload
                      IN  /\ uploads'[u].state # "unused"
                          /\ link[req'[q].blob] # "unused"
                          /\ uploads'[u].state = "active" =>
                               uploads'[u].blob = req'[q].blob
                          /\ uploads'[u].state = "active"
                               /\ req'[q].pc = "commit" => Kept(req'[q].blob)
    BY DEF BorrowedFromSession, Borrows, Active, Kept
  <2>1. q # p /\ req'[q] = req[q]
    BY <1>1, <1>2, <1>3 DEF Borrows
  <2>2. req[q].upload \in UploadId
    BY <2>1, RequestFacts DEF Inv, Shape, Borrows
  <2> QED BY <1>5, <2>1, <2>2 DEF Inv, RefInv, BorrowedFromSession, Active
<1>11. PutIsSynced'
  BY <1>1, <1>2, <1>3, RequestFacts DEF Inv, RefInv, PutIsSynced, Kept
<1> QED BY <1>7, <1>8, <1>9, <1>10, <1>11 DEF RefInv

LEMMA PutObjectCommitRef ==
  ASSUME Inv, NEW p \in Proc, PutObjectCommit(p)
  PROVE  RefInv'
<1> DEFINE n == req[p].name
           row == [blob |-> req[p].blob, sum |-> req[p].body]
<1>1. n \in Name /\ req[p].blob \in BlobId /\ Holds(req[p])
  BY RequestFacts DEF Inv, PutObjectCommit, Shape, Holds
<1>2. /\ UNCHANGED <<link, uploads>>
      /\ objects' = [objects EXCEPT ![n] = row]
      /\ RemoveThenAnswer(p, objects[n].blob, "ok")
  BY DEF PutObjectCommit, PutObject, blobVars
<1>3. row.blob = req[p].blob /\ Kept(req[p].blob)
  BY DEF PutObjectCommit, Inv, RefInv, PutIsSynced
<1>4. /\ \A m \in Name : objects[m].blob # row.blob
      /\ \A u \in UploadId : uploads'[u].blob # row.blob
      /\ \A q \in Proc \ {p} : Holds(req[q]) => req[q].blob # row.blob
  BY <1>1, <1>2 DEF Inv, RefInv, HeldAlone
<1> HIDE DEF row, n
<1> QED BY <1>1, <1>2, <1>3, <1>4, HandOver DEF Code, n

LEMMA DeleteObjectCommitRef ==
  ASSUME Inv, NEW p \in Proc, DeleteObjectCommit(p)
  PROVE  RefInv'
<1> DEFINE n == req[p].name
<1>1. n \in Name /\ UNCHANGED link
  BY RequestFacts DEF Inv, DeleteObjectCommit, Shape, blobVars
<1>2. CASE DeleteObject(n) /\ RemoveThenAnswer(p, objects[n].blob, "ok")
  <2>1. /\ UNCHANGED uploads
        /\ objects' = [objects EXCEPT ![n] = NoObject]
        /\ NoObject.blob = None
    BY <1>2 DEF DeleteObject, NoObject
  <2> HIDE DEF n
  <2> QED BY <1>1, <1>2, <2>1, HandOver DEF Code
<1>3. CASE UNCHANGED metaVars /\ \E code \in Code : Answer(p, code)
  BY <1>1, <1>3, AnswerRef DEF metaVars
<1> QED BY <1>2, <1>3 DEF DeleteObjectCommit, Code

LEMMA CompleteUploadCommitRef ==
  ASSUME Inv, NEW p \in Proc, CompleteUploadCommit(p)
  PROVE  RefInv'
<1> DEFINE u == req[p].upload
           n == req[p].name
           row == [blob |-> req[p].blob, sum |-> req[p].want]
<1>1. /\ u \in UploadId /\ n \in Name /\ req[p].blob \in BlobId
      /\ Borrows(req[p]) /\ req[p].pc = "commit"
      /\ UNCHANGED link
  BY RequestFacts DEF Inv, CompleteUploadCommit, Shape, Borrows, blobVars
<1>2. CASE CompleteUpload(u, n, row) /\ RemoveThenAnswer(p, objects[n].blob, "ok")
  <2>1. /\ Active(u)
        /\ objects' = [objects EXCEPT ![n] = row]
        /\ uploads' = [uploads EXCEPT ![u] = Ended]
        /\ uploads \in [UploadId -> UploadRow]
    BY <1>2 DEF CompleteUpload, Inv, Typing, MetaTyping, MetaTypeOK
  <2>2. row.blob = uploads[u].blob /\ Kept(row.blob) /\ row.blob \in BlobId
    BY <1>1, <2>1 DEF Inv, RefInv, BorrowedFromSession
  <2>3. /\ \A m \in Name : objects[m].blob # row.blob
        /\ \A q \in Proc : Holds(req[q]) => req[q].blob # row.blob
        /\ \A t \in UploadId : uploads[t].blob = row.blob => t = u
    BY <1>1, <2>1, <2>2, NoneAssumption
       DEF Inv, RefInv, ObjectsKept, HeldAlone, SessionsKept, Active
  <2>4. Ended.blob = None
    BY DEF Ended, Unused
  <2> HIDE DEF u, n, row
  <2>5. \A t \in UploadId :
          /\ uploads'[t].blob # row.blob
          /\ \/ uploads'[t] = uploads[t]
             \/ uploads[t].state = "active" /\ uploads'[t] = Ended
    BY <1>1, <2>1, <2>2, <2>3, <2>4, NoneAssumption DEF Active
  <2> QED BY <1>1, <1>2, <2>1, <2>2, <2>3, <2>5, HandOver DEF Code
<1>3. CASE UNCHANGED metaVars /\ \E code \in Code : Answer(p, code)
  BY <1>1, <1>3, AnswerRef DEF metaVars
<1> QED BY <1>2, <1>3 DEF CompleteUploadCommit, Code

(* The session's row takes over the blob its handler made.                 *)
LEMMA CreateUploadRef ==
  ASSUME Inv, UNCHANGED link, NEW p \in Proc, NEW u \in UploadId, Holds(req[p]),
         CreateUpload(u, req[p].blob, req[p].name), Answer(p, "ok")
  PROVE  RefInv'
<1> DEFINE row == [state |-> "active", blob |-> req[p].blob,
                   name |-> req[p].name, parts |-> NoParts]
           r == [req[p] EXCEPT !.pc = "reply", !.code = "ok"]
<1>1. /\ req' = [req EXCEPT ![p] = r] /\ req \in [Proc -> Request]
      /\ uploads' = [uploads EXCEPT ![u] = row]
      /\ UNCHANGED objects
      /\ uploads[u].state = "unused"
      /\ uploads \in [UploadId -> UploadRow]
  BY DEF Answer, CreateUpload, Inv, Typing, RequestTyping, RequestTypeOK,
         MetaTyping, MetaTypeOK
<1>2. PICK id \in BlobId : id = req[p].blob
  BY RequestFacts DEF Inv, Shape, Holds
<1>3. r.pc = "reply"
  BY <1>1 DEF Request
<1>4. /\ row.blob = id /\ row.state = "active"
      /\ \A n \in 1..MaxParts : row.parts[n] = << >>
  BY <1>2 DEF NoParts
<1> HIDE DEF r, row
<1>5. /\ link[id] # "unused"
      /\ \A n \in Name : objects[n].blob # id
      /\ \A t \in UploadId : uploads[t].blob # id
      /\ \A q \in Proc : Holds(req[q]) /\ req[q].blob = id => q = p
  BY <1>2 DEF Inv, RefInv, HeldAlone
<1>6. \A t \in UploadId : uploads'[t] = IF t = u THEN row ELSE uploads[t]
  BY <1>1
<1>7. \A q \in Proc : /\ Holds(req'[q]) => q # p /\ req'[q] = req[q]
                      /\ Borrows(req'[q]) => q # p /\ req'[q] = req[q]
  BY <1>1, <1>3 DEF Holds, Borrows
<1>8. HeldAlone'
  BY <1>1, <1>4, <1>5, <1>6, <1>7 DEF Inv, RefInv, HeldAlone, Holds
<1>9. ObjectsKept'
  BY <1>1, <1>4, <1>5, <1>6 DEF Inv, RefInv, ObjectsKept, Kept
<1>10. SessionsKept'
  BY <1>4, <1>5, <1>6 DEF Inv, RefInv, SessionsKept, Kept
<1>11. BorrowedFromSession'
  <2> SUFFICES ASSUME NEW q \in Proc, Borrows(req'[q])
               PROVE  LET t == req'[q].upload
                      IN  /\ uploads'[t].state # "unused"
                          /\ link[req'[q].blob] # "unused"
                          /\ uploads'[t].state = "active" =>
                               uploads'[t].blob = req'[q].blob
                          /\ uploads'[t].state = "active"
                               /\ req'[q].pc = "commit" => Kept(req'[q].blob)
    BY DEF BorrowedFromSession, Borrows, Active, Kept
  <2>1. q # p /\ req'[q] = req[q]
    BY <1>7
  <2>2. req[q].upload \in UploadId
    BY <2>1, RequestFacts DEF Inv, Shape, Borrows
  <2>3. req[q].upload # u
    BY <1>1, <2>1 DEF Inv, RefInv, BorrowedFromSession
  <2> QED BY <1>6, <2>1, <2>2, <2>3 DEF Inv, RefInv, BorrowedFromSession, Active
<1>12. PutIsSynced'
  BY <1>1, <1>3 DEF Inv, RefInv, PutIsSynced, Kept
<1> QED BY <1>8, <1>9, <1>10, <1>11, <1>12 DEF RefInv

(* A recorded part makes its session's blob one that must be kept; it is,  *)
(* because the handler synced it first.                                    *)
LEMMA PutPartRef ==
  ASSUME Inv, UNCHANGED link, NEW p \in Proc, NEW code \in Code,
         At(p, "part", "commit"),
         PutPart(req[p].upload, req[p].part, req[p].body), Answer(p, code)
  PROVE  RefInv'
<1> DEFINE u == req[p].upload
           r == [req[p] EXCEPT !.pc = "reply", !.code = code]
<1>1. /\ req' = [req EXCEPT ![p] = r] /\ req \in [Proc -> Request]
      /\ UNCHANGED objects
      /\ uploads \in [UploadId -> UploadRow]
      /\ uploads' = [uploads EXCEPT ![u].parts[req[p].part] = req[p].body]
  BY DEF Answer, PutPart, Inv, Typing, RequestTyping, RequestTypeOK,
         MetaTyping, MetaTypeOK
<1>2. u \in UploadId /\ uploads[u].state = "active" /\ Borrows(req[p])
  BY RequestFacts DEF Inv, Shape, PutPart, Active, Borrows
<1>3. r.pc = "reply"
  BY <1>1 DEF Request
<1>4. Kept(uploads[u].blob)
  BY <1>2 DEF Inv, RefInv, BorrowedFromSession, Active
<1> HIDE DEF r, u
<1>5. \A t \in UploadId :
        /\ uploads'[t].blob = uploads[t].blob
        /\ uploads'[t].state = uploads[t].state
        /\ t # u => uploads'[t] = uploads[t]
  BY <1>1, <1>2 DEF UploadRow
<1>6. \A q \in Proc : /\ Holds(req'[q]) => q # p /\ req'[q] = req[q]
                      /\ Borrows(req'[q]) => q # p /\ req'[q] = req[q]
  BY <1>1, <1>3 DEF Holds, Borrows
<1>7. HeldAlone'
  BY <1>1, <1>5, <1>6 DEF Inv, RefInv, HeldAlone, Holds
<1>8. ObjectsKept'
  BY <1>1, <1>5 DEF Inv, RefInv, ObjectsKept, Kept
<1>9. SessionsKept'
  BY <1>4, <1>5 DEF Inv, RefInv, SessionsKept, Kept
<1>10. BorrowedFromSession'
  BY <1>1, <1>5, <1>6, RequestFacts
     DEF Inv, RefInv, BorrowedFromSession, Active, Kept, Shape, Borrows
<1>11. PutIsSynced'
  BY <1>1, <1>3 DEF Inv, RefInv, PutIsSynced, Kept
<1> QED BY <1>7, <1>8, <1>9, <1>10, <1>11 DEF RefInv

(* The blob of an aborted session passes to the handler that aborted it.   *)
LEMMA DeleteUploadRef ==
  ASSUME Inv, UNCHANGED link, NEW p \in Proc, NEW u \in UploadId,
         DeleteUpload(u), RemoveThenAnswer(p, uploads[u].blob, "ok")
  PROVE  RefInv'
<1>1. PICK id \in BlobId : id = uploads[u].blob
  BY SessionFacts DEF Inv, DeleteUpload, Active, SessionShape
<1> DEFINE r == [req[p] EXCEPT !.pc = "remove", !.blob = id, !.code = "ok"]
<1>2. /\ req' = [req EXCEPT ![p] = r] /\ req \in [Proc -> Request]
      /\ UNCHANGED objects
      /\ uploads \in [UploadId -> UploadRow]
      /\ uploads' = [uploads EXCEPT ![u] = Ended]
      /\ uploads[u].state = "active"
  BY <1>1, NoneAssumption
     DEF RemoveThenAnswer, DeleteUpload, Active, Inv, Typing, RequestTyping,
         RequestTypeOK, MetaTyping, MetaTypeOK
<1>3. r.pc = "remove" /\ r.blob = id /\ r.op = req[p].op
  BY <1>2 DEF Request
<1>4. Ended.blob = None /\ Ended.state = "ended"
  BY DEF Ended, Unused
<1> HIDE DEF r
<1>5. /\ link[id] # "unused"
      /\ \A n \in Name : objects[n].blob # id
      /\ \A t \in UploadId : uploads[t].blob = id => t = u
      /\ \A q \in Proc : Holds(req[q]) => req[q].blob # id
  BY <1>1, <1>2, NoneAssumption
     DEF Inv, RefInv, HeldAlone, SessionsKept, ObjectsKept
<1>6. \A t \in UploadId : uploads'[t] = IF t = u THEN Ended ELSE uploads[t]
  BY <1>2
<1>7. HeldAlone'
  <2> SUFFICES ASSUME NEW q \in Proc, Holds(req'[q])
               PROVE  LET b == req'[q].blob
                      IN  /\ link[b] # "unused"
                          /\ \A m \in Name : objects[m].blob # b
                          /\ \A t \in UploadId : uploads'[t].blob # b
                          /\ \A o \in Proc : Holds(req'[o]) /\ req'[o].blob = b
                               => o = q
    BY <1>2 DEF HeldAlone, Holds
  <2>1. CASE q = p
    BY <1>2, <1>3, <1>4, <1>5, <1>6, <2>1, NoneAssumption DEF Holds
  <2>2. CASE q # p
    <3>1. req'[q] = req[q] /\ req[q].blob \in BlobId
      BY <1>2, <2>2, RequestFacts DEF Inv, Shape, Holds
    <3> QED BY <1>2, <1>3, <1>4, <1>5, <1>6, <2>2, <3>1, NoneAssumption
            DEF Inv, RefInv, HeldAlone, Holds
  <2> QED BY <2>1, <2>2
<1>8. ObjectsKept'
  BY <1>2, <1>4, <1>6 DEF Inv, RefInv, ObjectsKept, Kept
<1>9. SessionsKept'
  BY <1>4, <1>6, SessionFacts, NoneAssumption
     DEF Inv, RefInv, SessionsKept, SessionShape, Kept
<1>10. BorrowedFromSession'
  <2> SUFFICES ASSUME NEW q \in Proc, Borrows(req'[q])
               PROVE  LET t == req'[q].upload
                      IN  /\ uploads'[t].state # "unused"
                          /\ link[req'[q].blob] # "unused"
                          /\ uploads'[t].state = "active" =>
                               uploads'[t].blob = req'[q].blob
                          /\ uploads'[t].state = "active"
                               /\ req'[q].pc = "commit" => Kept(req'[q].blob)
    BY DEF BorrowedFromSession, Borrows, Active, Kept
  <2>1. q # p /\ req'[q] = req[q]
    BY <1>2, <1>3 DEF Borrows
  <2>2. req[q].upload \in UploadId
    BY <2>1, RequestFacts DEF Inv, Shape, Borrows
  <2> QED BY <1>4, <1>6, <2>1, <2>2 DEF Inv, RefInv, BorrowedFromSession, Active
<1>11. PutIsSynced'
  BY <1>2, <1>3 DEF Inv, RefInv, PutIsSynced, Kept
<1> QED BY <1>7, <1>8, <1>9, <1>10, <1>11 DEF RefInv

(* A handler starts to work on an active session's blob.                   *)
LEMMA BorrowRef ==
  ASSUME Inv, UNCHANGED <<link, objects, uploads>>, NEW p \in Proc,
         NEW u \in UploadId, Active(u), NEW s \in Request, NEW pc \in PC,
         Enter(p, s, pc), s.upload = u, s.blob = uploads[u].blob,
         \/ s.op = "part" /\ pc = "open"
         \/ /\ s.op = "complete" /\ pc = "commit"
            /\ \E n \in 1..MaxParts : uploads[u].parts[n] # << >>
  PROVE  RefInv'
<1> DEFINE r == [s EXCEPT !.pc = pc]
<1>1. req' = [req EXCEPT ![p] = r] /\ req \in [Proc -> Request]
  BY DEF Enter, Inv, Typing, RequestTyping, RequestTypeOK
<1>2. r.pc = pc /\ r.op = s.op /\ r.blob = s.blob /\ r.upload = u
  BY DEF Request
<1> HIDE DEF r
<1>3. /\ link[uploads[u].blob] # "unused"
      /\ r.pc = "commit" => Kept(uploads[u].blob)
  BY <1>2 DEF Inv, RefInv, SessionsKept, Active
<1>4. HeldAlone'
  BY <1>1, <1>2 DEF Inv, RefInv, HeldAlone, Holds
<1>5. ObjectsKept' /\ SessionsKept'
  BY DEF Inv, RefInv, ObjectsKept, SessionsKept, Kept
<1>6. BorrowedFromSession'
  BY <1>1, <1>2, <1>3 DEF Inv, RefInv, BorrowedFromSession, Active, Kept, Borrows
<1>7. PutIsSynced'
  BY <1>1, <1>2 DEF Inv, RefInv, PutIsSynced, Kept
<1> QED BY <1>4, <1>5, <1>6, <1>7 DEF RefInv

----------------------------------------------------------------------------
(* The handlers.                                                           *)

LEMMA PutObjectRef ==
  ASSUME Inv, NEW p \in Proc, putObject(p)
  PROVE  RefInv'
<1> USE DEF blobVars, metaVars
<1>1. CASE PutObjectBegin(p)
  <2> DEFINE R(n, body, want) ==
        [Idle EXCEPT !.op = "put", !.bucket = n[1], !.name = n,
                     !.body = body, !.want = want]
  <2>1. PICK n \in Name, body \in PutBodies :
          \E want \in Declared(body, PutBodies) :
            EnterUnless(p, R(n, body, want), BucketRefusal(n[1]), "create")
    BY <1>1 DEF PutObjectBegin
  <2>2. PICK want \in Declared(body, PutBodies) :
          EnterUnless(p, R(n, body, want), BucketRefusal(n[1]), "create")
    BY <2>1
  <2>3. body \in Seq(Data) /\ want \in Seq(Data) /\ n[1] \in Bucket
    BY BodyTypes DEF Declared, Name
  <2>4. R(n, body, want) \in Request /\ R(n, body, want).op = "put"
    BY <2>3, IdleTyping DEF Request, AllOps, Idle
  <2> HIDE DEF R
  <2> QED BY <1>1, <2>2, <2>4, BucketRefusals, EnterUnlessRef DEF PutObjectBegin, PC
<1>2. CASE PutObjectCreate(p)
  BY <1>2, CreateBlobRef DEF PutObjectCreate
<1>3. CASE PutObjectWrite(p)
  BY <1>3, GotoRef, RequestFacts
     DEF PutObjectWrite, Write, Inv, PC, Request, Holds, Borrows
<1>4. CASE PutObjectShort(p)
  <2>1. Holds(req[p]) /\ UNCHANGED <<link, objects, uploads>>
    BY <1>4 DEF PutObjectShort, Write, Holds
  <2> QED BY <1>4, <2>1, GiveUpRef DEF PutObjectShort, Code
<1>5. CASE PutObjectSync(p)
  BY <1>5, SyncRef DEF PutObjectSync, Code
<1>6. CASE PutObjectSyncFails(p)
  BY <1>6, GiveUpRef DEF PutObjectSyncFails, Code, Holds
<1>7. CASE PutObjectCommit(p)
  BY <1>7, PutObjectCommitRef
<1>8. CASE PutObjectCommitFails(p)
  BY <1>8, AnswerRef DEF PutObjectCommitFails, Code
<1> QED BY <1>1, <1>2, <1>3, <1>4, <1>5, <1>6, <1>7, <1>8 DEF putObject

LEMMA GetObjectRef ==
  ASSUME Inv, NEW p \in Proc, getObject(p)
  PROVE  RefInv'
<1> USE DEF blobVars, metaVars
<1>1. CASE GetObjectBegin(p)
  <2> DEFINE R(n) == [Idle EXCEPT !.op = "get", !.bucket = n[1], !.name = n]
  <2>1. PICK n \in Name : EnterUnless(p, R(n), BucketRefusal(n[1]), "row")
    BY <1>1 DEF GetObjectBegin
  <2>2. n[1] \in Bucket
    BY DEF Name
  <2>3. R(n) \in Request /\ R(n).op = "get"
    BY <2>2, IdleTyping DEF Request, AllOps, Idle
  <2> HIDE DEF R
  <2> QED BY <1>1, <2>1, <2>3, BucketRefusals, EnterUnlessRef DEF GetObjectBegin, PC
<1>2. CASE \E code \in Code : Answer(p, code)
           /\ UNCHANGED <<blobVars, metaVars, expired>>
  BY <1>2, AnswerRef
<1>3. ASSUME UNCHANGED <<blobVars, metaVars, expired>>,
             NEW r, req' = [req EXCEPT ![p] = r],
             r.op = "get" /\ r.pc \in {"open", "serve"}
      PROVE  RefInv'
  <2>1. req \in [Proc -> Request]
    BY DEF Inv, Typing, RequestTyping, RequestTypeOK
  <2> QED BY <1>3, <2>1, QuietStep DEF Inv, Holds, Borrows
<1>4. req[p] \in Request
  BY DEF Inv, Typing, RequestTyping, RequestTypeOK
<1>5. CASE GetObjectRow(p)
  <2> DEFINE row == objects[req[p].name]
             r == [req[p] EXCEPT !.pc = "open", !.blob = row.blob,
                                 !.want = row.sum]
  <2>1. r.op = "get" /\ r.pc = "open"
    BY <1>4, <1>5 DEF GetObjectRow, Request
  <2>2. req' = [req EXCEPT ![p] = r] \/ \E code \in Code : Answer(p, code)
    BY <1>5 DEF GetObjectRow, StoreErrors, Code
  <2> HIDE DEF r
  <2> QED BY <1>2, <1>3, <1>5, <2>1, <2>2 DEF GetObjectRow
<1>6. CASE GetObjectOpen(p)
  <2> DEFINE size == Extent(bytes[req[p].blob])
             r == [req[p] EXCEPT !.pc = "serve", !.size = size]
  <2>1. r.op = "get" /\ r.pc = "serve"
    BY <1>4, <1>6 DEF GetObjectOpen, Request
  <2>2. req' = [req EXCEPT ![p] = r] \/ \E code \in Code : Answer(p, code)
    BY <1>6 DEF GetObjectOpen, Code
  <2> HIDE DEF r
  <2> QED BY <1>2, <1>3, <1>6, <2>1, <2>2 DEF GetObjectOpen
<1>7. CASE GetObjectServe(p)
  <2> DEFINE body == Append(req[p].body, bytes[req[p].blob][Len(req[p].body) + 1])
             r == [req[p] EXCEPT !.body = body]
  <2>1. req' = [req EXCEPT ![p] = r]
    BY <1>7 DEF GetObjectServe
  <2> HIDE DEF body
  <2>2. r.op = "get" /\ r.pc = "serve"
    BY <1>4, <1>7 DEF GetObjectServe, Request
  <2> HIDE DEF r
  <2> QED BY <1>3, <1>7, <2>1, <2>2 DEF GetObjectServe
<1>8. CASE GetObjectServed(p)
  BY <1>2, <1>8 DEF GetObjectServed, Code
<1> QED BY <1>1, <1>5, <1>6, <1>7, <1>8 DEF getObject

LEMMA DeleteObjectRef ==
  ASSUME Inv, NEW p \in Proc, deleteObject(p)
  PROVE  RefInv'
<1> USE DEF blobVars, metaVars
<1>1. CASE DeleteObjectBegin(p)
  <2> DEFINE R(n) == [Idle EXCEPT !.op = "delete", !.bucket = n[1], !.name = n]
  <2>1. PICK n \in Name : EnterUnless(p, R(n), BucketRefusal(n[1]), "commit")
    BY <1>1 DEF DeleteObjectBegin
  <2>2. n[1] \in Bucket
    BY DEF Name
  <2>3. R(n) \in Request /\ R(n).op = "delete"
    BY <2>2, IdleTyping DEF Request, AllOps, Idle
  <2> HIDE DEF R
  <2> QED BY <1>1, <2>1, <2>3, BucketRefusals, EnterUnlessRef DEF DeleteObjectBegin, PC
<1> QED BY <1>1, DeleteObjectCommitRef DEF deleteObject

LEMMA BucketRef ==
  ASSUME Inv, NEW p \in Proc, createBucket(p) \/ deleteBucket(p)
  PROVE  RefInv'
<1> USE DEF blobVars, metaVars
<1>1. CASE createBucket(p)
  <2> DEFINE R(b) == [Idle EXCEPT !.op = "createBucket", !.bucket = b]
  <2>1. PICK b \in Bucket :
          \/ CreateBucket(b) /\ Refuse(p, R(b), "ok")
          \/ UNCHANGED metaVars /\ \E code \in Code : Refuse(p, R(b), code)
    BY <1>1 DEF createBucket, StoreErrors, Code
  <2>2. R(b) \in Request
    BY IdleTyping DEF Request, AllOps, Idle
  <2> HIDE DEF R
  <2> QED BY <1>1, <2>1, <2>2, RefuseRef DEF createBucket, CreateBucket, Code
<1>2. CASE DeleteBucketBegin(p)
  <2> DEFINE R(b) == [Idle EXCEPT !.op = "deleteBucket", !.bucket = b]
  <2>1. PICK b \in Bucket : \E refusals \in SUBSET {"bucket_not_empty"} :
          EnterUnless(p, R(b), refusals, "count")
    BY <1>2 DEF DeleteBucketBegin
  <2>2. R(b) \in Request /\ R(b).op = "deleteBucket"
    BY IdleTyping DEF Request, AllOps, Idle
  <2>3. \A refusals \in SUBSET {"bucket_not_empty"} : refusals \subseteq Refusals
    BY DEF Refusals, Code
  <2> HIDE DEF R
  <2> QED BY <1>2, <2>1, <2>2, <2>3, EnterUnlessRef DEF DeleteBucketBegin, PC
<1>3. CASE DeleteBucketCount(p)
  BY <1>3, AnswerRef, GotoRef, RequestFacts
     DEF DeleteBucketCount, StoreErrors, Inv, PC, Code, Request, Holds, Borrows
<1>4. CASE DeleteBucketCommit(p)
  BY <1>4, AnswerRef DEF DeleteBucketCommit, DeleteBucket, Code
<1> QED BY <1>1, <1>2, <1>3, <1>4 DEF deleteBucket

LEMMA UploadSessionRef ==
  ASSUME Inv, NEW p \in Proc, createUpload(p) \/ deleteUpload(p)
  PROVE  RefInv'
<1> USE DEF blobVars, metaVars
<1>1. CASE CreateUploadBegin(p)
  <2> DEFINE R(n) == [Idle EXCEPT !.op = "createUpload", !.bucket = n[1],
                                  !.name = n]
  <2>1. PICK n \in Name : EnterUnless(p, R(n), BucketRefusal(n[1]), "create")
    BY <1>1 DEF CreateUploadBegin
  <2>2. n[1] \in Bucket
    BY DEF Name
  <2>3. R(n) \in Request /\ R(n).op = "createUpload"
    BY <2>2, IdleTyping DEF Request, AllOps, Idle
  <2> HIDE DEF R
  <2> QED BY <1>1, <2>1, <2>3, BucketRefusals, EnterUnlessRef DEF CreateUploadBegin, PC
<1>2. CASE CreateUploadCreate(p)
  BY <1>2, CreateBlobRef DEF CreateUploadCreate
<1>3. CASE CreateUploadCommit(p)
  <2>1. Holds(req[p]) /\ UNCHANGED link
    BY <1>3 DEF CreateUploadCommit, Holds
  <2> QED BY <1>3, <2>1, CreateUploadRef, GiveUpRef DEF CreateUploadCommit, Code
<1>4. CASE DeleteUploadBegin(p)
  <2> DEFINE R(u) == [Idle EXCEPT !.op = "abort", !.upload = u]
  <2>1. PICK u \in UploadId :
          EnterUnless(p, R(u), LookupRefusal(u), "commit")
    BY <1>4 DEF DeleteUploadBegin
  <2>2. R(u) \in Request /\ R(u).op = "abort"
    BY IdleTyping DEF Request, AllOps, Idle
  <2> HIDE DEF R
  <2> QED BY <1>4, <2>1, <2>2, LookupRefusals, EnterUnlessRef DEF DeleteUploadBegin, PC
<1>5. CASE DeleteUploadCommit(p)
  <2>1. req[p].upload \in UploadId
    BY <1>5, RequestFacts DEF Inv, Shape, DeleteUploadCommit
  <2> QED BY <1>5, <2>1, DeleteUploadRef, AnswerRef, DropRef
          DEF DeleteUploadCommit, Code
<1> QED BY <1>1, <1>2, <1>3, <1>4, <1>5 DEF createUpload, deleteUpload

LEMMA PutUploadPartRef ==
  ASSUME Inv, NEW p \in Proc, putUploadPart(p)
  PROVE  RefInv'
<1> USE DEF blobVars, metaVars
<1>1. CASE PutUploadPartBegin(p)
  <2> DEFINE R(u, n, body, want) ==
        [Idle EXCEPT !.op = "part", !.upload = u, !.part = n, !.body = body,
                     !.want = want, !.blob = uploads[u].blob]
  <2>1. PICK u \in UploadId, n \in 1..MaxParts :
          \E body \in PartBodies[u][n] : \E want \in Declared(body, PartBodies[u][n]) :
            EnterUnless(p, R(u, n, body, want), LookupRefusal(u), "open")
    BY <1>1 DEF PutUploadPartBegin
  <2>2. PICK body \in PartBodies[u][n] :
          \E want \in Declared(body, PartBodies[u][n]) :
            EnterUnless(p, R(u, n, body, want), LookupRefusal(u), "open")
    BY <2>1
  <2>3. PICK want \in Declared(body, PartBodies[u][n]) :
          EnterUnless(p, R(u, n, body, want), LookupRefusal(u), "open")
    BY <2>2
  <2>4. body \in Seq(Data) /\ want \in Seq(Data) /\ n \in 0..MaxParts
    BY BodyTypes, SizeAssumption DEF Declared
  <2> DEFINE s == R(u, n, body, want)
  <2>5. s \in Request
    BY <2>4, SessionFacts, IdleTyping DEF Inv, Request, AllOps, Idle
  <2>6. s.op = "part" /\ s.upload = u /\ s.blob = uploads[u].blob
    BY DEF Idle
  <2>7. LookupRefusal(u) = {} => Active(u)
    BY DEF LookupRefusal
  <2> HIDE DEF R
  <2>8. \/ Active(u) /\ Enter(p, s, "open")
        \/ \E code \in Code : Refuse(p, s, code)
    BY <2>3, <2>7, LookupRefusals, EnterOrRefuse DEF Refusals
  <2> QED BY <1>1, <2>5, <2>6, <2>8, BorrowRef, RefuseRef
          DEF PutUploadPartBegin, PC
<1>2. CASE PutUploadPartOpen(p)
  BY <1>2, AnswerRef, GotoRef, RequestFacts
     DEF PutUploadPartOpen, Inv, PC, Code, Request, Holds, Borrows
<1>3. CASE PutUploadPartWrite(p)
  <2> DEFINE r == [req[p] EXCEPT !.done = req[p].done + 1]
  <2>1. req' = [req EXCEPT ![p] = r] /\ req \in [Proc -> Request]
    BY <1>3 DEF PutUploadPartWrite, Inv, Typing, RequestTyping, RequestTypeOK
  <2>2. /\ r.op = req[p].op /\ r.pc = req[p].pc
        /\ r.blob = req[p].blob /\ r.upload = req[p].upload
        /\ r.op = "part"
    BY <1>3, <2>1 DEF Request, PutUploadPartWrite
  <2>3. UNCHANGED <<link, objects, uploads>>
    BY <1>3 DEF PutUploadPartWrite, Write
  <2> HIDE DEF r
  <2> QED BY <2>1, <2>2, <2>3, QuietStep DEF Inv, Holds, Borrows
<1>4. CASE PutUploadPartShort(p)
  BY <1>4, AnswerRef DEF PutUploadPartShort, Code
<1>5. CASE PutUploadPartVerify(p)
  BY <1>5, AnswerRef, GotoRef, RequestFacts
     DEF PutUploadPartVerify, Inv, PC, Code, Request, Holds, Borrows
<1>6. CASE PutUploadPartSync(p)
  BY <1>6, SyncRef, AnswerRef DEF PutUploadPartSync, Code
<1>7. CASE PutUploadPartCommit(p)
  BY <1>7, PutPartRef, AnswerRef DEF PutUploadPartCommit, Code
<1> QED BY <1>1, <1>2, <1>3, <1>4, <1>5, <1>6, <1>7 DEF putUploadPart

LEMMA CompleteUploadRef ==
  ASSUME Inv, NEW p \in Proc, completeUpload(p)
  PROVE  RefInv'
<1> USE DEF blobVars, metaVars
<1>1. CASE CompleteUploadBegin(p)
  <2> DEFINE R(u) == [Idle EXCEPT !.op = "complete", !.upload = u]
             S(u, count) ==
               [R(u) EXCEPT !.bucket = uploads[u].name[1],
                            !.name = uploads[u].name,
                            !.blob = uploads[u].blob,
                            !.want = Fold(uploads[u].parts, count)]
             Refusal(u, count, supplied) ==
               IF LookupRefusal(u) # {} THEN LookupRefusal(u)
               ELSE PartsRefusal(uploads[u].parts, count, supplied)
  <2>1. PICK u \in UploadId : \E count \in CompleteCounts[u] :
          \E supplied \in Supplied(u, count) :
            \/ /\ Refusal(u, count, supplied) = {}
               /\ Enter(p, S(u, count), "commit")
            \/ \E code \in Refusal(u, count, supplied) \cup StoreErrors :
                 Refuse(p, R(u), code)
    BY <1>1 DEF CompleteUploadBegin
  <2>2. PICK count \in CompleteCounts[u] :
          \E supplied \in Supplied(u, count) :
            \/ /\ Refusal(u, count, supplied) = {}
               /\ Enter(p, S(u, count), "commit")
            \/ \E code \in Refusal(u, count, supplied) \cup StoreErrors :
                 Refuse(p, R(u), code)
    BY <2>1
  <2>3. PICK supplied \in Supplied(u, count) :
            \/ /\ Refusal(u, count, supplied) = {}
               /\ Enter(p, S(u, count), "commit")
            \/ \E code \in Refusal(u, count, supplied) \cup StoreErrors :
                 Refuse(p, R(u), code)
    BY <2>2
  <2>4. Refusal(u, count, supplied) \cup StoreErrors \subseteq Code
    BY DEF LookupRefusal, PartsRefusal, StoreErrors, Code
  <2>5. R(u) \in Request
    BY IdleTyping DEF Request, AllOps, Idle
  <2>6. ASSUME Refusal(u, count, supplied) = {}
        PROVE  /\ S(u, count) \in Request /\ Active(u)
               /\ S(u, count).op = "complete" /\ S(u, count).upload = u
               /\ S(u, count).blob = uploads[u].blob
               /\ \E n \in 1..MaxParts : uploads[u].parts[n] # << >>
    <3>1. Active(u) /\ PartsRefusal(uploads[u].parts, count, supplied) = {}
      BY <2>6 DEF LookupRefusal
    <3>2. uploads[u].blob \in BlobId /\ uploads[u].name \in Name
      BY <3>1, SessionFacts DEF Inv, Active, SessionShape
    <3>3. uploads[u].name[1] \in Bucket
      BY <3>2 DEF Name
    <3>4. count \in 1..MaxParts
      BY BodyAssumption
    <3> DEFINE fold == Fold(uploads[u].parts, count)
    <3>5. fold \in Seq(Data)
      BY <3>1, <3>4, SessionFacts, FoldType DEF Inv, SessionShape
    <3>6. uploads[u].parts[count] # << >>
      <4>1. \A n \in 1..count : uploads[u].parts[n] # << >>
        BY <3>1 DEF PartsRefusal
      <4> QED BY <3>4, <4>1, SizeAssumption
    <3> HIDE DEF fold
    <3> QED BY <2>5, <3>1, <3>2, <3>3, <3>4, <3>5, <3>6 DEF fold, Request, Idle
  <2> HIDE DEF R, S, Refusal
  <2> QED BY <1>1, <2>3, <2>4, <2>5, <2>6, BorrowRef, RefuseRef
          DEF CompleteUploadBegin, PC
<1> QED BY <1>1, CompleteUploadCommitRef DEF completeUpload

----------------------------------------------------------------------------
(* The invariant and what follows from it.                                 *)

LEMMA InitRef == Init => RefInv
BY DEF Init, BlobInit, MetaInit, RequestInit, RefInv, HeldAlone, ObjectsKept,
       SessionsKept, BorrowedFromSession, PutIsSynced, Holds, Borrows, Idle,
       NoObject, Unused

LEMMA NextRef == Inv /\ [Next]_vars => RefInv'
<1> SUFFICES ASSUME Inv, [Next]_vars PROVE RefInv'
  OBVIOUS
<1>1. ASSUME UNCHANGED <<link, objects, uploads, req>> PROVE RefInv'
  BY <1>1 DEF Inv, RefInv, HeldAlone, ObjectsKept, SessionsKept,
              BorrowedFromSession, PutIsSynced, Holds, Borrows, Kept, Active
<1>2. ASSUME NEW p \in Proc, Handle(p) PROVE RefInv'
  <2>1. CASE Reply(p)
    BY <2>1, DropRef DEF Reply, blobVars, metaVars
  <2> QED BY <1>2, <2>1, PutObjectRef, GetObjectRef, DeleteObjectRef, BucketRef,
             UploadSessionRef, PutUploadPartRef, CompleteUploadRef,
             RemoveBlobRef, CreateBlobFailsRef DEF Handle
<1>3. ASSUME NEW u \in UploadId, Expire(u) PROVE RefInv'
  BY <1>1, <1>3 DEF Expire, blobVars, metaVars
<1> QED BY <1>1, <1>2, <1>3, CrashRef DEF Next, vars

LEMMA InvInvariant == Spec => []Inv
<1>1. Init => Inv
  BY InitTyping, InitRef DEF Inv
<1>2. Inv /\ [Next]_vars => Inv'
  BY NextTyping, NextRef DEF Inv
<1> QED BY <1>1, <1>2, PTL DEF Spec

(* Where an fsync of a new file also keeps its directory entry, no         *)
(* interleaving, failure or power loss leaves an object's row without its  *)
(* file (ADR-0007: blob before row on the way in, row before blob on the   *)
(* way out).                                                               *)
THEOREM NoDanglingRow ==
  ASSUME "entry" \notin Faults
  PROVE  Spec => []NoDanglingObject
<1>1. Inv => NoDanglingObject
  <2> SUFFICES ASSUME Inv, NEW id \in ObjectBlobs PROVE Present(id)
    BY DEF NoDanglingObject
  <2>1. PICK n \in Name : objects[n].blob = id /\ id # None
    BY DEF ObjectBlobs
  <2>2. Kept(id)
    BY <2>1 DEF Inv, RefInv, ObjectsKept
  <2> QED BY <2>2 DEF Kept, Present
<1> QED BY <1>1, InvInvariant, PTL

(* Whatever the faults, a blob belongs to one row: to one object or to one *)
(* upload session, which completeUpload and putObject pass on in one       *)
(* transaction.                                                            *)
THEOREM BlobsHaveOneOwner == Spec => []OneOwner
<1>1. Inv => OneOwner
  <2> SUFFICES ASSUME Inv PROVE OneOwner
    OBVIOUS
  <2>1. \A m, n \in Name :
          objects[m].blob = objects[n].blob /\ objects[m].blob # None => m = n
    BY DEF Inv, RefInv, ObjectsKept
  <2>2. \A t, u \in UploadId : Active(t) /\ Active(u)
          /\ uploads[t].blob = uploads[u].blob => t = u
    BY DEF Inv, RefInv, SessionsKept, Active
  <2>3. ObjectBlobs \cap SessionBlobs = {}
    BY DEF Inv, RefInv, ObjectsKept, ObjectBlobs, SessionBlobs
  <2> QED BY <2>1, <2>2, <2>3 DEF OneOwner
<1> QED BY <1>1, InvInvariant, PTL

(* Whatever the faults, a handler that unlinks a blob (after an overwrite, *)
(* a delete, an abort or a failure of its own) is alone with it.           *)
THEOREM RemovalsAreFinal == Spec => []RemovalIsFinal
<1>1. Inv => RemovalIsFinal
  <2> SUFFICES ASSUME Inv, NEW p \in Proc, req[p].pc = "remove"
               PROVE  /\ req[p].blob \notin ObjectBlobs \cup SessionBlobs
                      /\ \A q \in Proc \ {p} :
                           req[q].blob = req[p].blob =>
                             ~Owns(q) /\ req[q].pc # "remove"
    BY DEF RemovalIsFinal
  <2>1. Holds(req[p])
    BY DEF Holds
  <2>2. req[p].blob \notin ObjectBlobs \cup SessionBlobs
    BY <2>1 DEF Inv, RefInv, HeldAlone, ObjectBlobs, SessionBlobs
  <2>3. \A q \in Proc \ {p} : req[q].blob = req[p].blob => ~Holds(req[q])
    BY <2>1 DEF Inv, RefInv, HeldAlone
  <2>4. \A q \in Proc : Owns(q) \/ req[q].pc = "remove" => Holds(req[q])
    BY DEF Owns, Holds
  <2> QED BY <2>2, <2>3, <2>4
<1> QED BY <1>1, InvInvariant, PTL

----------------------------------------------------------------------------
(* The foreign keys.                                                       *)

(* What a handler's step may do to the tables.                             *)
LEMMA TableSteps ==
  ASSUME Typing, NEW p \in Proc, Handle(p)
  PROVE  \/ UNCHANGED metaVars
         \/ \E b \in Bucket : CreateBucket(b) \/ DeleteBucket(b)
         \/ \E n \in Name : \E row : PutObject(n, row)
         \/ \E n \in Name : DeleteObject(n)
         \/ \E u \in UploadId, id \in BlobId, n \in Name : CreateUpload(u, id, n)
         \/ \E u \in UploadId, k \in 1..MaxParts : \E sum : PutPart(u, k, sum)
         \/ \E u \in UploadId, n \in Name : \E row : CompleteUpload(u, n, row)
         \/ \E u \in UploadId : DeleteUpload(u)
<1>1. CASE putObject(p)
  BY <1>1, RequestFacts
     DEF putObject, PutObjectBegin, PutObjectCreate, CreateBlob, PutObjectWrite,
         PutObjectShort, PutObjectSync, PutObjectSyncFails, PutObjectCommit,
         PutObjectCommitFails, Shape, metaVars
<1>2. CASE getObject(p) \/ deleteObject(p)
  BY <1>2, RequestFacts
     DEF getObject, GetObjectBegin, GetObjectRow, GetObjectOpen, GetObjectServe,
         GetObjectServed, deleteObject, DeleteObjectBegin, DeleteObjectCommit, Shape, metaVars
<1>3. CASE createBucket(p) \/ deleteBucket(p)
  <2>1. req[p] \in Request
    BY RequestFacts
  <2>2. CASE createBucket(p) \/ DeleteBucketBegin(p) \/ DeleteBucketCount(p)
    BY <2>2 DEF createBucket, DeleteBucketBegin, DeleteBucketCount, metaVars
  <2>3. CASE DeleteBucketCommit(p)
    <3>1. UNCHANGED metaVars \/ (req[p].bucket \in buckets /\ DeleteBucket(req[p].bucket))
      BY <2>3 DEF DeleteBucketCommit
    <3> QED BY <3>1 DEF Typing, MetaTyping, MetaTypeOK
  <2> QED BY <1>3, <2>2, <2>3 DEF deleteBucket
<1>4. CASE createUpload(p)
  BY <1>4, RequestFacts
     DEF createUpload, CreateUploadBegin, CreateUploadCreate, CreateBlob,
         CreateUploadCommit, Shape, metaVars
<1>5. CASE putUploadPart(p)
  BY <1>5, RequestFacts
     DEF putUploadPart, PutUploadPartBegin, PutUploadPartOpen,
         PutUploadPartWrite, PutUploadPartShort, PutUploadPartVerify,
         PutUploadPartSync, PutUploadPartCommit, Shape, metaVars
<1>6. CASE completeUpload(p) \/ deleteUpload(p)
  BY <1>6, RequestFacts
     DEF completeUpload, CompleteUploadBegin, CompleteUploadCommit,
         deleteUpload, DeleteUploadBegin, DeleteUploadCommit, Shape, metaVars
<1>7. CASE CreateBlobFails(p) \/ RemoveBlob(p) \/ Reply(p)
  BY <1>7 DEF CreateBlobFails, RemoveBlob, Reply, metaVars
<1> QED BY <1>1, <1>2, <1>3, <1>4, <1>5, <1>6, <1>7 DEF Handle

LEMMA NextRows ==
  ASSUME Typing, RowsHaveBuckets, [Next]_vars
  PROVE  RowsHaveBuckets'
<1>1. ASSUME UNCHANGED metaVars PROVE RowsHaveBuckets'
  BY <1>1 DEF RowsHaveBuckets, Active, metaVars
<1>2. /\ objects \in [Name -> ObjectRow] /\ uploads \in [UploadId -> UploadRow]
      /\ NoObject.blob = None /\ Ended.state = "ended"
  BY DEF Typing, MetaTyping, MetaTypeOK, NoObject, Ended, Unused
<1> USE <1>2 DEF RowsHaveBuckets, Active
<1>3. ASSUME NEW b \in Bucket, CreateBucket(b) \/ DeleteBucket(b)
      PROVE  RowsHaveBuckets'
  BY <1>3 DEF CreateBucket, DeleteBucket, ReferencesTo, HasObjects, HasUploads
<1>4. ASSUME NEW n \in Name, NEW row, PutObject(n, row) \/ DeleteObject(n)
      PROVE  RowsHaveBuckets'
  BY <1>4 DEF PutObject, DeleteObject
<1>5. ASSUME NEW u \in UploadId, NEW id \in BlobId, NEW n \in Name,
             CreateUpload(u, id, n)
      PROVE  RowsHaveBuckets'
  BY <1>5 DEF CreateUpload
<1>6. ASSUME NEW u \in UploadId, NEW k \in 1..MaxParts, NEW sum, PutPart(u, k, sum)
      PROVE  RowsHaveBuckets'
  <2>1. \A t \in UploadId : /\ uploads'[t].state = uploads[t].state
                            /\ uploads'[t].name = uploads[t].name
    BY <1>6 DEF PutPart, UploadRow
  <2> QED BY <1>6, <2>1 DEF PutPart
<1>7. ASSUME NEW u \in UploadId, NEW n \in Name, NEW row,
             CompleteUpload(u, n, row)
      PROVE  RowsHaveBuckets'
  BY <1>7 DEF CompleteUpload
<1>8. ASSUME NEW u \in UploadId, DeleteUpload(u) PROVE RowsHaveBuckets'
  BY <1>8 DEF DeleteUpload
<1> HIDE DEF RowsHaveBuckets, Active
<1>9. ASSUME NEW p \in Proc, Handle(p) PROVE RowsHaveBuckets'
  <2>1. CASE \E b \in Bucket : CreateBucket(b) \/ DeleteBucket(b)
    BY <1>3, <2>1
  <2>2. CASE \/ \E n \in Name : \E row : PutObject(n, row)
             \/ \E n \in Name : DeleteObject(n)
    BY <1>4, <2>2
  <2>3. CASE \E u \in UploadId, id \in BlobId, n \in Name : CreateUpload(u, id, n)
    BY <1>5, <2>3
  <2>4. CASE \E u \in UploadId, k \in 1..MaxParts : \E sum : PutPart(u, k, sum)
    BY <1>6, <2>4
  <2>5. CASE \/ \E u \in UploadId, n \in Name : \E row : CompleteUpload(u, n, row)
             \/ \E u \in UploadId : DeleteUpload(u)
    BY <1>7, <1>8, <2>5
  <2> QED BY <1>1, <1>9, <2>1, <2>2, <2>3, <2>4, <2>5, TableSteps
<1> QED BY <1>1, <1>9 DEF Next, vars, Kill, Crash, Expire, metaVars

(* No object and no upload session outlives its bucket: a row is admitted  *)
(* and a bucket deleted under the foreign keys, whatever deleteBucket saw  *)
(* in the two looks it took before.                                        *)
THEOREM ForeignKeys == Spec => []RowsHaveBuckets
<1>1. Init => RowsHaveBuckets
  BY DEF Init, MetaInit, RowsHaveBuckets, Active, NoObject, Unused
<1>2. Typing /\ RowsHaveBuckets /\ [Next]_vars => RowsHaveBuckets'
  BY NextRows
<1> QED BY <1>1, <1>2, TypingInvariant, PTL DEF Spec

----------------------------------------------------------------------------
(* Nothing leaks.                                                          *)

(* Handler p goes on as r: a file that appears is r's, and what a row or   *)
(* the handler let go of, a row or r has taken up or is gone.              *)
LEMMA TidyStep ==
  ASSUME Inv, TidyInv, buckets \subseteq buckets',
         NEW p \in Proc, NEW r, req' = [req EXCEPT ![p] = r],
         r.op # "deleteBucket", Admitted(r) => r.bucket \in buckets',
         \A id \in BlobId : Present(id)' =>
           Present(id) \/ (Holds(r) /\ r.blob = id),
         \A id \in BlobId :
           Present(id)' /\ (Referred(id) \/ (Holds(req[p]) /\ req[p].blob = id)) =>
             Referred(id)' \/ (Holds(r) /\ r.blob = id)
  PROVE  TidyInv'
<1>1. /\ req \in [Proc -> Request]
      /\ \A q \in Proc : req'[q] = IF q = p THEN r ELSE req[q]
  BY DEF Inv, Typing, RequestTyping, RequestTypeOK
<1>2. ASSUME NEW id \in BlobId, Present(id)'
      PROVE  Referred(id)' \/ \E q \in Proc : Holds(req'[q]) /\ req'[q].blob = id
  <2>1. CASE Holds(r) /\ r.blob = id
    BY <1>1, <2>1
  <2>2. CASE Present(id) /\ ~(Holds(r) /\ r.blob = id)
    <3>1. CASE Referred(id)
      BY <1>2, <2>2, <3>1
    <3>2. ASSUME NEW q \in Proc, Holds(req[q]), req[q].blob = id
          PROVE  Referred(id)' \/ \E t \in Proc : Holds(req'[t]) /\ req'[t].blob = id
      BY <1>1, <1>2, <2>2, <3>2
    <3> QED BY <2>2, <3>1, <3>2 DEF TidyInv
  <2> QED BY <1>2, <2>1, <2>2
<1>3. \A q \in Proc : /\ req'[q].op # "deleteBucket"
                      /\ Admitted(req'[q]) => req'[q].bucket \in buckets'
  BY <1>1 DEF TidyInv
<1> QED BY <1>2, <1>3 DEF TidyInv, Holds, Admitted

(* The tables and the set of files stay; the handler keeps the blob it     *)
(* holds, if it holds one.                                                 *)
LEMMA TidyMove ==
  ASSUME Inv, TidyInv, UNCHANGED metaVars,
         \A id \in BlobId : Present(id)' <=> Present(id),
         NEW p \in Proc, NEW r, req' = [req EXCEPT ![p] = r],
         r.op # "deleteBucket", Admitted(r) => r.bucket \in buckets,
         Holds(req[p]) => Holds(r) /\ r.blob = req[p].blob
  PROVE  TidyInv'
<1>1. \A id \in BlobId : Referred(id)' <=> Referred(id)
  BY DEF Referred, metaVars
<1> QED BY <1>1, TidyStep DEF metaVars

LEMMA TidyGoto ==
  ASSUME Inv, TidyInv, UNCHANGED metaVars,
         \A id \in BlobId : Present(id)' <=> Present(id),
         NEW p \in Proc, NEW pc \in PC, Goto(p, pc),
         Admitted(req[p]) \/ ~Admitted([req[p] EXCEPT !.pc = pc]),
         Holds(req[p]) => req[p].op = "put" /\ pc \in {"sync", "commit"}
  PROVE  TidyInv'
<1>0. PICK r : r = [req[p] EXCEPT !.pc = pc]
  OBVIOUS
<1>1. req[p] \in Request /\ req' = [req EXCEPT ![p] = r]
  BY <1>0, RequestFacts DEF Inv, Goto
<1>2. r.op = req[p].op /\ r.blob = req[p].blob /\ r.bucket = req[p].bucket /\ r.pc = pc
  BY <1>0, <1>1 DEF Request
<1>3. req[p].op # "deleteBucket" /\ (Admitted(req[p]) => req[p].bucket \in buckets)
  BY DEF TidyInv
<1> QED BY <1>0, <1>1, <1>2, <1>3, TidyMove DEF Holds

LEMMA TidyAnswer ==
  ASSUME Inv, TidyInv, UNCHANGED metaVars,
         \A id \in BlobId : Present(id)' <=> Present(id),
         NEW p \in Proc, NEW code, Answer(p, code), ~Holds(req[p])
  PROVE  TidyInv'
<1>0. PICK r : r = [req[p] EXCEPT !.pc = "reply", !.code = code]
  OBVIOUS
<1>1. req[p] \in Request /\ req' = [req EXCEPT ![p] = r]
  BY <1>0, RequestFacts DEF Inv, Answer
<1>2. r.op = req[p].op /\ r.pc = "reply"
  BY <1>0, <1>1 DEF Request
<1>3. r.op # "deleteBucket" /\ ~Admitted(r)
  BY <1>2 DEF TidyInv, Admitted
<1> QED BY <1>1, <1>3, TidyMove

(* A new request: the process was idle.                                    *)
LEMMA TidyEnter ==
  ASSUME Inv, TidyInv, UNCHANGED <<blobVars, metaVars>>,
         NEW p \in Proc, req[p] = Idle, NEW s \in Request, s.op # "deleteBucket",
         \/ \E pc \in PC : /\ Enter(p, s, pc)
                           /\ s.op = "put" => s.bucket \in buckets
         \/ \E code \in Code : Refuse(p, s, code)
  PROVE  TidyInv'
<1>1. ~Holds(req[p]) /\ \A id \in BlobId : Present(id)' <=> Present(id)
  BY DEF Holds, Idle, Present, blobVars
<1>2. CASE \E pc \in PC : /\ Enter(p, s, pc)
                          /\ s.op = "put" => s.bucket \in buckets
  <2>1. PICK pc \in PC : Enter(p, s, pc) /\ (s.op = "put" => s.bucket \in buckets)
    BY <1>2
  <2>2. PICK r : r = [s EXCEPT !.pc = pc]
    OBVIOUS
  <2>3. r.op = s.op /\ r.bucket = s.bucket /\ req' = [req EXCEPT ![p] = r]
    BY <2>1, <2>2 DEF Request, Enter
  <2> QED BY <1>1, <2>1, <2>3, TidyMove DEF Admitted
<1>3. CASE \E code \in Code : Refuse(p, s, code)
  <2>1. PICK code \in Code : Refuse(p, s, code)
    BY <1>3
  <2>2. PICK r : r = [s EXCEPT !.pc = "reply", !.code = code]
    OBVIOUS
  <2>3. r.op = s.op /\ r.pc = "reply" /\ req' = [req EXCEPT ![p] = r]
    BY <2>1, <2>2 DEF Request, Refuse
  <2> QED BY <1>1, <2>3, TidyMove DEF Admitted
<1> QED BY <1>2, <1>3

LEMMA TidyEnterUnless ==
  ASSUME Inv, TidyInv, UNCHANGED <<blobVars, metaVars>>,
         NEW p \in Proc, req[p] = Idle, NEW s \in Request, s.op # "deleteBucket",
         NEW pc \in PC, NEW refusals, EnterUnless(p, s, refusals, pc),
         refusals \subseteq Refusals,
         refusals = {} /\ s.op = "put" => s.bucket \in buckets
  PROVE  TidyInv'
BY EnterOrRefuse, TidyEnter DEF Refusals

(* A handler that fails keeps its blob to unlink it.                       *)
LEMMA TidyGiveUp ==
  ASSUME Inv, TidyInv, UNCHANGED metaVars,
         \A id \in BlobId : Present(id)' <=> Present(id),
         NEW p \in Proc, req[p].blob \in BlobId, NEW code,
         RemoveThenAnswer(p, req[p].blob, code)
  PROVE  TidyInv'
<1>0. PICK r : r = [req[p] EXCEPT !.pc = "remove", !.blob = req[p].blob,
                                  !.code = code]
  OBVIOUS
<1>1. req[p] \in Request /\ req' = [req EXCEPT ![p] = r]
  BY <1>0, RequestFacts, NoneAssumption DEF Inv, RemoveThenAnswer
<1>2. r.op = req[p].op /\ r.pc = "remove" /\ r.blob = req[p].blob
  BY <1>0, <1>1 DEF Request
<1>3. r.op # "deleteBucket" /\ ~Admitted(r) /\ Holds(r)
  BY <1>2 DEF TidyInv, Admitted, Holds
<1> QED BY <1>1, <1>2, <1>3, TidyMove

(* A commit: what the rows and the handler had before, they have after, or *)
(* it is the blob that the handler goes on to unlink.                      *)
LEMMA TidyCommit ==
  ASSUME Inv, TidyInv, UNCHANGED <<blobVars, buckets>>,
         NEW p \in Proc, NEW old \in BlobId \cup {None}, NEW code,
         RemoveThenAnswer(p, old, code),
         \A id \in BlobId :
           Referred(id) \/ (Holds(req[p]) /\ req[p].blob = id) =>
             Referred(id)' \/ old = id
  PROVE  TidyInv'
<1>0. PICK r : r = [req[p] EXCEPT !.pc = IF old = None THEN "reply" ELSE "remove",
                                  !.blob = old, !.code = code]
  OBVIOUS
<1>1. req[p] \in Request /\ req' = [req EXCEPT ![p] = r]
  BY <1>0, RequestFacts DEF Inv, RemoveThenAnswer
<1>2. /\ r.op = req[p].op /\ r.blob = old
      /\ r.pc = IF old = None THEN "reply" ELSE "remove"
  BY <1>0, <1>1 DEF Request
<1>3. old \in BlobId => Holds(r)
  BY <1>2, NoneAssumption DEF Holds
<1>4. ~Admitted(r) /\ r.op # "deleteBucket"
  BY <1>2 DEF Admitted, TidyInv
<1>5. \A id \in BlobId : Present(id)' <=> Present(id)
  BY DEF Present, blobVars
<1> QED BY <1>1, <1>2, <1>3, <1>4, <1>5, TidyStep

LEMMA CreateBlobTidy ==
  ASSUME Inv, TidyInv, NEW p \in Proc, NEW next \in {"write", "commit"},
         CreateBlob(p, next), req[p].op \in {"put", "createUpload"},
         req[p].op = "put" => next = "write",
         req[p].op = "createUpload" => next = "commit"
  PROVE  TidyInv'
<1>1. PICK id \in BlobId :
        Create(id) /\ req' = [req EXCEPT ![p].pc = next, ![p].blob = id]
  BY DEF CreateBlob
<1>2. PICK r : r = [req[p] EXCEPT !.pc = next, !.blob = id]
  OBVIOUS
<1>3. /\ req[p] \in Request /\ req' = [req EXCEPT ![p] = r]
      /\ req[p].pc = "create"
  BY <1>1, <1>2, RequestFacts DEF Inv, CreateBlob
<1>4. r.op = req[p].op /\ r.bucket = req[p].bucket /\ r.pc = next /\ r.blob = id
  BY <1>2, <1>3 DEF Request
<1>5. Holds(r) /\ ~Holds(req[p]) /\ r.op # "deleteBucket"
  BY <1>3, <1>4 DEF Holds
<1>6. Admitted(r) => r.bucket \in buckets
  BY <1>3, <1>4 DEF TidyInv, Admitted
<1>7. \A b \in BlobId : Present(b)' => Present(b) \/ b = id
  BY <1>1 DEF Create, Present, Inv, Typing, BlobTypeOK
<1>8. /\ UNCHANGED buckets
      /\ \A b \in BlobId : Referred(b)' <=> Referred(b)
  BY DEF CreateBlob, metaVars, Referred
<1> QED BY <1>3, <1>4, <1>5, <1>6, <1>7, <1>8, TidyStep

(* A Create that fails leaves no file where closing the file works.        *)
LEMMA CreateBlobFailsTidy ==
  ASSUME Tidy, Inv, TidyInv, NEW p \in Proc, CreateBlobFails(p)
  PROVE  TidyInv'
<1>1. /\ UNCHANGED <<blobVars, metaVars>> /\ Answer(p, "internal")
      /\ req[p].pc = "create"
  BY DEF CreateBlobFails, Tidy
<1> QED BY <1>1, TidyAnswer DEF Holds, Present, blobVars

LEMMA PutObjectTidy ==
  ASSUME Tidy, Inv, TidyInv, NEW p \in Proc, putObject(p)
  PROVE  TidyInv'
<1>0. /\ req[p] \in Request /\ Shape(req[p])
      /\ link \in [BlobId -> LinkState]
  BY RequestFacts DEF Inv, Typing, BlobTypeOK
<1>1. CASE PutObjectBegin(p)
  <2> DEFINE R(n, body, want) ==
        [Idle EXCEPT !.op = "put", !.bucket = n[1], !.name = n, !.body = body,
                     !.want = want]
  <2>1. PICK n \in Name, body \in PutBodies :
          \E want \in Declared(body, PutBodies) :
            EnterUnless(p, R(n, body, want), BucketRefusal(n[1]), "create")
    BY <1>1 DEF PutObjectBegin
  <2>2. PICK want \in Declared(body, PutBodies) :
          EnterUnless(p, R(n, body, want), BucketRefusal(n[1]), "create")
    BY <2>1
  <2>3. body \in Seq(Data) /\ want \in Seq(Data) /\ n[1] \in Bucket
    BY BodyTypes DEF Declared, Name
  <2>4. /\ R(n, body, want) \in Request /\ R(n, body, want).op = "put"
        /\ R(n, body, want).bucket = n[1]
    BY <2>3, IdleTyping DEF Request, AllOps, Idle
  <2>5. BucketRefusal(n[1]) = {} => n[1] \in buckets
    BY DEF BucketRefusal
  <2> HIDE DEF R
  <2> QED BY <1>1, <2>2, <2>4, <2>5, BucketRefusals, TidyEnterUnless
          DEF PutObjectBegin, Accepts, PC
<1>2. CASE PutObjectCreate(p)
  BY <1>2, CreateBlobTidy DEF PutObjectCreate
<1>3. CASE PutObjectWrite(p)
  <2>1. /\ UNCHANGED <<link, metaVars>> /\ req[p].op = "put" /\ req[p].pc = "write"
        /\ Goto(p, "sync")
    BY <1>3 DEF PutObjectWrite, Write
  <2> QED BY <2>1, TidyGoto DEF Present, Admitted, PC
<1>4. CASE PutObjectShort(p) \/ PutObjectSyncFails(p)
  <2>1. /\ UNCHANGED <<link, metaVars>> /\ req[p].pc \in {"write", "sync"}
        /\ \E code \in Code : RemoveThenAnswer(p, req[p].blob, code)
    BY <1>4 DEF PutObjectShort, PutObjectSyncFails, Write, blobVars, Code
  <2> QED BY <1>0, <2>1, TidyGiveUp DEF Present, Shape
<1>5. CASE PutObjectSync(p)
  <2>1. /\ UNCHANGED metaVars /\ req[p].op = "put" /\ req[p].pc = "sync"
        /\ req[p].blob \in BlobId
        /\ Goto(p, "commit") \/ RemoveThenAnswer(p, req[p].blob, "checksum_mismatch")
    BY <1>0, <1>5 DEF PutObjectSync, Shape
  <2>2. \A id \in BlobId : Present(id)' <=> Present(id)
    BY <1>0, <1>5, <2>1 DEF PutObjectSync, Sync, Present
  <2> QED BY <2>1, <2>2, TidyGoto, TidyGiveUp DEF Admitted, PC
<1>6. CASE PutObjectCommit(p)
  <2> DEFINE n == req[p].name
             old == objects[n].blob
             row == [blob |-> req[p].blob, sum |-> req[p].body]
  <2>1. /\ n \in Name /\ objects \in [Name -> ObjectRow]
        /\ old \in BlobId \cup {None}
    BY <1>0, <1>6 DEF PutObjectCommit, Shape, Inv, Typing, MetaTyping,
                      MetaTypeOK, ObjectRow
  <2>2. /\ UNCHANGED <<blobVars, buckets, uploads>>
        /\ RemoveThenAnswer(p, old, "ok")
        /\ objects' = [objects EXCEPT ![n] = row]
    BY <1>6 DEF PutObjectCommit, PutObject
  <2>3. /\ objects'[n].blob = req[p].blob
        /\ \A m \in Name \ {n} : objects'[m] = objects[m]
    BY <2>1, <2>2
  <2>4. \A id \in BlobId : Referred(id) \/ req[p].blob = id =>
          Referred(id)' \/ old = id
    BY <2>1, <2>2, <2>3 DEF Referred
  <2> QED BY <2>1, <2>2, <2>4, TidyCommit
<1>7. CASE PutObjectCommitFails(p)
  BY <1>7 DEF PutObjectCommitFails, TidyInv, Admitted, Tidy
<1> QED BY <1>1, <1>2, <1>3, <1>4, <1>5, <1>6, <1>7 DEF putObject

LEMMA GetObjectTidy ==
  ASSUME Inv, TidyInv, NEW p \in Proc, getObject(p)
  PROVE  TidyInv'
<1>1. CASE GetObjectBegin(p)
  <2> DEFINE R(n) == [Idle EXCEPT !.op = "get", !.bucket = n[1], !.name = n]
  <2>1. PICK n \in Name : EnterUnless(p, R(n), BucketRefusal(n[1]), "row")
    BY <1>1 DEF GetObjectBegin
  <2>2. n[1] \in Bucket
    BY DEF Name
  <2>3. R(n) \in Request /\ R(n).op = "get"
    BY <2>2, IdleTyping DEF Request, AllOps, Idle
  <2> HIDE DEF R
  <2> QED BY <1>1, <2>1, <2>3, BucketRefusals, TidyEnterUnless DEF GetObjectBegin, Accepts, PC
<1>2. CASE \/ GetObjectRow(p) \/ GetObjectOpen(p)
           \/ GetObjectServe(p) \/ GetObjectServed(p)
  <2>1. /\ UNCHANGED <<blobVars, metaVars>> /\ req[p].op = "get"
        /\ req[p].pc \in {"row", "open", "serve"} /\ req[p] \in Request
    BY <1>2, RequestFacts
       DEF GetObjectRow, GetObjectOpen, GetObjectServe, GetObjectServed, Inv
  <2>2. /\ \A id \in BlobId : Present(id)' <=> Present(id)
        /\ ~Holds(req[p])
    BY <2>1 DEF Present, blobVars, Holds
  <2>3. PICK r : req' = [req EXCEPT ![p] = r] /\ r.op = "get"
    <3>1. ASSUME NEW code, Answer(p, code)
          PROVE  \E r : req' = [req EXCEPT ![p] = r] /\ r.op = "get"
      <4> DEFINE r == [req[p] EXCEPT !.pc = "reply", !.code = code]
      <4>1. r.op = "get"
        BY <2>1 DEF Request
      <4>2. req' = [req EXCEPT ![p] = r]
        BY <3>1 DEF Answer
      <4> HIDE DEF r
      <4> QED BY <4>1, <4>2
    <3>2. CASE GetObjectRow(p)
      <4> DEFINE row == objects[req[p].name]
                 r == [req[p] EXCEPT !.pc = "open", !.blob = row.blob,
                                     !.want = row.sum]
      <4>1. r.op = "get"
        BY <2>1 DEF Request
      <4>2. req' = [req EXCEPT ![p] = r] \/ \E code : Answer(p, code)
        BY <3>2 DEF GetObjectRow
      <4> HIDE DEF r
      <4> QED BY <3>1, <4>1, <4>2
    <3>3. CASE GetObjectOpen(p)
      <4> DEFINE size == Extent(bytes[req[p].blob])
                 r == [req[p] EXCEPT !.pc = "serve", !.size = size]
      <4>1. r.op = "get"
        BY <2>1 DEF Request
      <4>2. req' = [req EXCEPT ![p] = r] \/ \E code : Answer(p, code)
        BY <3>3 DEF GetObjectOpen
      <4> HIDE DEF r
      <4> QED BY <3>1, <4>1, <4>2
    <3>4. CASE GetObjectServe(p)
      <4> DEFINE body == Append(req[p].body, bytes[req[p].blob][Len(req[p].body) + 1])
                 r == [req[p] EXCEPT !.body = body]
      <4>1. req' = [req EXCEPT ![p] = r]
        BY <3>4 DEF GetObjectServe
      <4> HIDE DEF body
      <4>2. r.op = "get"
        BY <2>1 DEF Request
      <4> HIDE DEF r
      <4> QED BY <4>1, <4>2
    <3> QED BY <1>2, <3>1, <3>2, <3>3, <3>4 DEF GetObjectServed
  <2> QED BY <2>1, <2>2, <2>3, TidyMove DEF Admitted
<1> QED BY <1>1, <1>2 DEF getObject

LEMMA DeleteObjectTidy ==
  ASSUME Tidy, Inv, TidyInv, NEW p \in Proc, deleteObject(p)
  PROVE  TidyInv'
<1>0. req[p] \in Request /\ Shape(req[p])
  BY RequestFacts DEF Inv
<1>1. CASE DeleteObjectBegin(p)
  <2> DEFINE R(n) == [Idle EXCEPT !.op = "delete", !.bucket = n[1], !.name = n]
  <2>1. PICK n \in Name : EnterUnless(p, R(n), BucketRefusal(n[1]), "commit")
    BY <1>1 DEF DeleteObjectBegin
  <2>2. n[1] \in Bucket
    BY DEF Name
  <2>3. R(n) \in Request /\ R(n).op = "delete"
    BY <2>2, IdleTyping DEF Request, AllOps, Idle
  <2> HIDE DEF R
  <2> QED BY <1>1, <2>1, <2>3, BucketRefusals, TidyEnterUnless DEF DeleteObjectBegin, Accepts, PC
<1>2. CASE DeleteObjectCommit(p)
  <2> DEFINE n == req[p].name
             old == objects[n].blob
  <2>1. /\ n \in Name /\ objects \in [Name -> ObjectRow]
        /\ old \in BlobId \cup {None} /\ ~Holds(req[p])
        /\ UNCHANGED <<blobVars>>
    BY <1>0, <1>2 DEF DeleteObjectCommit, Shape, Inv, Typing, MetaTyping,
                      MetaTypeOK, ObjectRow, Holds
  <2>2. CASE Answer(p, "object_not_found") /\ UNCHANGED metaVars
    BY <2>1, <2>2, TidyAnswer DEF blobVars, Present
  <2>3. CASE DeleteObject(n) /\ RemoveThenAnswer(p, old, "ok")
    <3>1. /\ UNCHANGED <<buckets, uploads>>
          /\ \A m \in Name \ {n} : objects'[m] = objects[m]
      BY <2>1, <2>3 DEF DeleteObject
    <3>2. \A id \in BlobId : Referred(id) => Referred(id)' \/ old = id
      BY <3>1 DEF Referred
    <3> QED BY <2>1, <2>3, <3>1, <3>2, TidyCommit
  <2> QED BY <1>2, <2>2, <2>3 DEF DeleteObjectCommit, Tidy
<1> QED BY <1>1, <1>2 DEF deleteObject

LEMMA BucketTidy ==
  ASSUME Tidy, Inv, TidyInv, NEW p \in Proc, createBucket(p) \/ deleteBucket(p)
  PROVE  TidyInv'
<1>1. ~deleteBucket(p)
  BY DEF Tidy, TidyInv, deleteBucket, DeleteBucketBegin, DeleteBucketCount,
         DeleteBucketCommit, Accepts
<1> DEFINE R(b) == [Idle EXCEPT !.op = "createBucket", !.bucket = b]
<1>2. PICK b \in Bucket :
        \/ CreateBucket(b) /\ Refuse(p, R(b), "ok")
        \/ UNCHANGED metaVars /\ \E code : Refuse(p, R(b), code)
  BY <1>1 DEF createBucket
<1>3. R(b) \in Request /\ R(b).op = "createBucket"
  BY IdleTyping DEF Request, AllOps, Idle
<1>4. /\ req[p] = Idle /\ ~Holds(req[p]) /\ UNCHANGED blobVars
      /\ buckets \subseteq buckets' /\ UNCHANGED <<objects, uploads>>
  <2>1. req[p] = Idle /\ UNCHANGED blobVars
    BY <1>1 DEF createBucket, Accepts
  <2>2. ~Holds(req[p])
    BY <2>1 DEF Holds, Idle
  <2>3. buckets \subseteq buckets' /\ UNCHANGED <<objects, uploads>>
    BY <1>2 DEF CreateBucket, metaVars
  <2> QED BY <2>1, <2>2, <2>3
<1> HIDE DEF R
<1>5. PICK code : Refuse(p, R(b), code)
  BY <1>2
<1>6. PICK r : r = [R(b) EXCEPT !.pc = "reply", !.code = code]
  OBVIOUS
<1>7. r.op = "createBucket" /\ req' = [req EXCEPT ![p] = r]
  BY <1>3, <1>5, <1>6 DEF Request, Refuse
<1>8. \A id \in BlobId : (Referred(id)' <=> Referred(id)) /\ (Present(id)' <=> Present(id))
  BY <1>4 DEF Referred, Present, blobVars
<1> QED BY <1>4, <1>7, <1>8, TidyStep DEF Admitted

LEMMA CreateUploadTidy ==
  ASSUME Inv, TidyInv, NEW p \in Proc, createUpload(p)
  PROVE  TidyInv'
<1>0. req[p] \in Request /\ Shape(req[p])
  BY RequestFacts DEF Inv
<1>1. CASE CreateUploadBegin(p)
  <2> DEFINE R(n) == [Idle EXCEPT !.op = "createUpload", !.bucket = n[1],
                                  !.name = n]
  <2>1. PICK n \in Name : EnterUnless(p, R(n), BucketRefusal(n[1]), "create")
    BY <1>1 DEF CreateUploadBegin
  <2>2. n[1] \in Bucket
    BY DEF Name
  <2>3. R(n) \in Request /\ R(n).op = "createUpload"
    BY <2>2, IdleTyping DEF Request, AllOps, Idle
  <2> HIDE DEF R
  <2> QED BY <1>1, <2>1, <2>3, BucketRefusals, TidyEnterUnless DEF CreateUploadBegin, Accepts, PC
<1>2. CASE CreateUploadCreate(p)
  BY <1>2, CreateBlobTidy DEF CreateUploadCreate
<1>3. CASE CreateUploadCommit(p)
  <2>1. /\ req[p].op = "createUpload" /\ req[p].blob \in BlobId
        /\ UNCHANGED blobVars
    BY <1>0, <1>3 DEF CreateUploadCommit, Shape
  <2>2. ASSUME NEW u \in UploadId, CreateUpload(u, req[p].blob, req[p].name),
               Answer(p, "ok")
        PROVE  TidyInv'
    <3>0. PICK r : r = [req[p] EXCEPT !.pc = "reply", !.code = "ok"]
      OBVIOUS
    <3>1. /\ r.pc = "reply" /\ r.op = "createUpload"
          /\ req' = [req EXCEPT ![p] = r]
      BY <1>0, <2>1, <2>2, <3>0 DEF Request, Answer
    <3>2. /\ UNCHANGED <<buckets, objects>> /\ uploads[u].state = "unused"
          /\ uploads'[u].blob = req[p].blob
          /\ \A t \in UploadId \ {u} : uploads'[t] = uploads[t]
      BY <2>2 DEF CreateUpload, Inv, Typing, MetaTyping, MetaTypeOK
    <3>3. uploads[u].blob = None
      BY <3>2, SessionFacts DEF Inv, SessionShape
    <3>4. \A id \in BlobId : Referred(id) \/ req[p].blob = id => Referred(id)'
      BY <3>2, <3>3, NoneAssumption DEF Referred
    <3>5. \A id \in BlobId : Present(id)' <=> Present(id)
      BY <2>1 DEF Present, blobVars
    <3> QED BY <3>1, <3>2, <3>4, <3>5, TidyStep DEF Admitted
  <2>3. CASE RemoveThenAnswer(p, req[p].blob, "internal") /\ UNCHANGED metaVars
    BY <2>1, <2>3, TidyGiveUp DEF Present, blobVars
  <2> QED BY <1>3, <2>2, <2>3 DEF CreateUploadCommit
<1> QED BY <1>1, <1>2, <1>3 DEF createUpload

(* putUploadPart works on a blob that its session owns.                    *)
LEMMA PutUploadPartTidy ==
  ASSUME Inv, TidyInv, NEW p \in Proc, putUploadPart(p)
  PROVE  TidyInv'
<1>0. req[p] \in Request /\ Shape(req[p]) /\ link \in [BlobId -> LinkState]
  BY RequestFacts DEF Inv, Typing, BlobTypeOK
<1>1. CASE PutUploadPartBegin(p)
  <2> DEFINE R(u, n, body, want) ==
        [Idle EXCEPT !.op = "part", !.upload = u, !.part = n, !.body = body,
                     !.want = want, !.blob = uploads[u].blob]
  <2>1. PICK u \in UploadId, n \in 1..MaxParts :
          \E body \in PartBodies[u][n] : \E want \in Declared(body, PartBodies[u][n]) :
            EnterUnless(p, R(u, n, body, want), LookupRefusal(u), "open")
    BY <1>1 DEF PutUploadPartBegin
  <2>2. PICK body \in PartBodies[u][n] :
          \E want \in Declared(body, PartBodies[u][n]) :
            EnterUnless(p, R(u, n, body, want), LookupRefusal(u), "open")
    BY <2>1
  <2>3. PICK want \in Declared(body, PartBodies[u][n]) :
          EnterUnless(p, R(u, n, body, want), LookupRefusal(u), "open")
    BY <2>2
  <2>4. body \in Seq(Data) /\ want \in Seq(Data) /\ n \in 0..MaxParts
    BY BodyTypes, SizeAssumption DEF Declared
  <2> DEFINE s == R(u, n, body, want)
  <2>5. s \in Request /\ s.op = "part"
    BY <2>4, SessionFacts, IdleTyping DEF Inv, Request, AllOps, Idle
  <2>6. "open" \in PC
    BY DEF PC
  <2>7. req[p] = Idle /\ UNCHANGED <<blobVars, metaVars>>
    BY <1>1 DEF PutUploadPartBegin, Accepts
  <2> HIDE DEF R
  <2> QED BY <2>3, <2>5, <2>6, <2>7, LookupRefusals, TidyEnterUnless
<1>2. CASE PutUploadPartWrite(p)
  <2>1. PICK r : r = [req[p] EXCEPT !.done = req[p].done + 1]
    OBVIOUS
  <2>2. /\ r.op = "part" /\ req[p].op = "part" /\ req[p].pc = "write"
        /\ req' = [req EXCEPT ![p] = r] /\ UNCHANGED <<link, metaVars>>
    BY <1>0, <1>2, <2>1 DEF PutUploadPartWrite, Write, Request
  <2> QED BY <2>2, TidyMove DEF Holds, Admitted, Present
<1>3. CASE /\ ~PutUploadPartBegin(p) /\ ~PutUploadPartWrite(p)
           /\ UNCHANGED metaVars
  <2>1. /\ req[p].op = "part" /\ req[p].pc \in {"open", "write", "sync", "commit"}
        /\ \/ \E pc \in PC \ {"remove"} : Goto(p, pc)
           \/ \E code \in Code : Answer(p, code)
        /\ UNCHANGED link \/ Sync(req[p].blob)
    BY <1>3 DEF putUploadPart, PutUploadPartOpen, PutUploadPartShort,
                PutUploadPartVerify, PutUploadPartSync, PutUploadPartCommit,
                blobVars, PC, Code
  <2>2. /\ req[p].blob \in BlobId /\ ~Holds(req[p])
    BY <1>0, <2>1 DEF Shape, Holds
  <2>3. \A id \in BlobId : Present(id)' <=> Present(id)
    BY <1>0, <2>1, <2>2 DEF Sync, Present
  <2>4. \A pc : ~Admitted([req[p] EXCEPT !.pc = pc])
    BY <1>0, <2>1 DEF Admitted, Request
  <2> QED BY <1>3, <2>1, <2>2, <2>3, <2>4, TidyGoto, TidyAnswer
<1>4. CASE PutUploadPartCommit(p) /\ ~UNCHANGED metaVars
  <2> DEFINE u == req[p].upload
             n == req[p].part
  <2>1. /\ req[p].op = "part" /\ req[p].pc = "commit" /\ u \in UploadId
        /\ PutPart(u, n, req[p].body) /\ UNCHANGED blobVars
    BY <1>0, <1>4 DEF PutUploadPartCommit, Shape
  <2>2. PICK code : Answer(p, code)
    BY <1>4 DEF PutUploadPartCommit
  <2>3. PICK r : r = [req[p] EXCEPT !.pc = "reply", !.code = code]
    OBVIOUS
  <2>4. r.op = "part" /\ r.pc = "reply" /\ req' = [req EXCEPT ![p] = r]
    BY <1>0, <2>1, <2>2, <2>3 DEF Request, Answer
  <2>5. /\ UNCHANGED <<buckets, objects>>
        /\ \A t \in UploadId : uploads'[t].blob = uploads[t].blob
    BY <2>1 DEF PutPart, Inv, Typing, MetaTyping, MetaTypeOK, UploadRow
  <2>6. \A id \in BlobId : (Referred(id)' <=> Referred(id)) /\ (Present(id)' <=> Present(id))
    BY <2>1, <2>5 DEF Referred, Present, blobVars
  <2> QED BY <2>1, <2>4, <2>5, <2>6, TidyStep DEF Admitted, Holds
<1>5. UNCHANGED metaVars \/ PutUploadPartCommit(p)
  BY DEF putUploadPart, PutUploadPartBegin, PutUploadPartOpen,
         PutUploadPartWrite, PutUploadPartShort, PutUploadPartVerify,
         PutUploadPartSync
<1> QED BY <1>1, <1>2, <1>3, <1>4, <1>5

LEMMA EndUploadTidy ==
  ASSUME Tidy, Inv, TidyInv, NEW p \in Proc, completeUpload(p) \/ deleteUpload(p)
  PROVE  TidyInv'
<1>0. /\ req[p] \in Request /\ Shape(req[p])
      /\ objects \in [Name -> ObjectRow] /\ uploads \in [UploadId -> UploadRow]
  BY RequestFacts DEF Inv, Typing, MetaTyping, MetaTypeOK
<1>1. CASE CompleteUploadBegin(p) \/ DeleteUploadBegin(p)
  <2>1. /\ req[p] = Idle /\ UNCHANGED <<blobVars, metaVars>>
    BY <1>1 DEF CompleteUploadBegin, DeleteUploadBegin, Accepts
  <2>2. PICK r : req' = [req EXCEPT ![p] = r] /\ r.op \in {"complete", "abort"}
    <3>1. CASE CompleteUploadBegin(p)
      <4> DEFINE R(u) == [Idle EXCEPT !.op = "complete", !.upload = u]
                 S(u, count) ==
                   [[R(u) EXCEPT !.bucket = uploads[u].name[1],
                                 !.name = uploads[u].name,
                                 !.blob = uploads[u].blob,
                                 !.want = Fold(uploads[u].parts, count)]
                      EXCEPT !.pc = "commit"]
                 T(u, code) == [R(u) EXCEPT !.pc = "reply", !.code = code]
      <4>1. \E u, count, code : req' = [req EXCEPT ![p] = S(u, count)]
                             \/ req' = [req EXCEPT ![p] = T(u, code)]
        BY <3>1 DEF CompleteUploadBegin, Enter, Refuse
      <4>2. \A u, count, code : S(u, count).op = "complete" /\ T(u, code).op = "complete"
        BY DEF Idle
      <4> HIDE DEF S, T
      <4> QED BY <4>1, <4>2
    <3>2. CASE DeleteUploadBegin(p)
      <4> DEFINE R(u) == [Idle EXCEPT !.op = "abort", !.upload = u]
                 S(u) == [R(u) EXCEPT !.pc = "commit"]
                 T(u, code) == [R(u) EXCEPT !.pc = "reply", !.code = code]
      <4>1. \E u, code : req' = [req EXCEPT ![p] = S(u)]
                      \/ req' = [req EXCEPT ![p] = T(u, code)]
        BY <3>2 DEF DeleteUploadBegin, EnterUnless, Enter, Refuse
      <4>2. \A u, code : S(u).op = "abort" /\ T(u, code).op = "abort"
        BY DEF Idle
      <4> HIDE DEF S, T
      <4> QED BY <4>1, <4>2
    <3> QED BY <1>1, <3>1, <3>2
  <2>3. /\ UNCHANGED metaVars /\ \A id \in BlobId : Present(id)' <=> Present(id)
        /\ ~Holds(req[p])
    BY <2>1 DEF Present, blobVars, Holds, Idle
  <2> QED BY <2>2, <2>3, TidyMove DEF Admitted
<1>2. CASE CompleteUploadCommit(p)
  <2> DEFINE u == req[p].upload
             n == req[p].name
             old == objects[n].blob
             row == [blob |-> req[p].blob, sum |-> req[p].want]
  <2>1. /\ req[p].op = "complete" /\ req[p].pc = "commit"
        /\ n \in Name /\ u \in UploadId /\ old \in BlobId \cup {None}
        /\ UNCHANGED blobVars /\ ~Holds(req[p]) /\ Borrows(req[p])
    BY <1>0, <1>2 DEF CompleteUploadCommit, Shape, ObjectRow, Holds, Borrows
  <2>2. CASE CompleteUpload(u, n, row) /\ RemoveThenAnswer(p, old, "ok")
    <3>1. uploads[u].blob = req[p].blob
      BY <2>1, <2>2 DEF CompleteUpload, Inv, RefInv, BorrowedFromSession
    <3>2. /\ UNCHANGED buckets /\ objects'[n].blob = req[p].blob
          /\ \A m \in Name \ {n} : objects'[m] = objects[m]
          /\ \A t \in UploadId \ {u} : uploads'[t] = uploads[t]
      BY <1>0, <2>1, <2>2 DEF CompleteUpload
    <3>3. \A id \in BlobId : Referred(id) => Referred(id)' \/ old = id
      BY <2>1, <3>1, <3>2 DEF Referred
    <3> QED BY <2>1, <2>2, <3>2, <3>3, TidyCommit
  <2>3. CASE UNCHANGED metaVars /\ Answer(p, "upload_not_found")
    BY <2>1, <2>3, TidyAnswer DEF Present, blobVars
  <2> QED BY <1>2, <2>2, <2>3 DEF CompleteUploadCommit, Tidy
<1>3. CASE DeleteUploadCommit(p)
  <2> DEFINE u == req[p].upload
             old == uploads[u].blob
  <2>1. /\ req[p].op = "abort" /\ req[p].pc = "commit" /\ u \in UploadId
        /\ old \in BlobId \cup {None} /\ UNCHANGED blobVars /\ ~Holds(req[p])
    BY <1>0, <1>3 DEF DeleteUploadCommit, Shape, UploadRow, Holds
  <2>2. CASE DeleteUpload(u) /\ RemoveThenAnswer(p, old, "ok")
    <3>1. /\ UNCHANGED <<buckets, objects>>
          /\ \A t \in UploadId \ {u} : uploads'[t] = uploads[t]
      BY <1>0, <2>1, <2>2 DEF DeleteUpload
    <3>2. \A id \in BlobId : Referred(id) => Referred(id)' \/ old = id
      BY <2>1, <3>1 DEF Referred
    <3> QED BY <2>1, <2>2, <3>1, <3>2, TidyCommit
  <2>3. CASE UNCHANGED metaVars /\ Answer(p, "upload_not_found")
    BY <2>1, <2>3, TidyAnswer DEF Present, blobVars
  <2> QED BY <1>3, <2>2, <2>3 DEF DeleteUploadCommit, Tidy
<1> QED BY <1>1, <1>2, <1>3 DEF completeUpload, deleteUpload

LEMMA NextTidy ==
  ASSUME Tidy, Inv, TidyInv, [Next]_vars
  PROVE  TidyInv'
<1>1. ASSUME UNCHANGED <<link, buckets, objects, uploads, req>> PROVE TidyInv'
  BY <1>1 DEF TidyInv, Present, Referred, Holds, Admitted
<1>2. ASSUME NEW p \in Proc, RemoveBlob(p) PROVE TidyInv'
  <2>0. PICK r : r = [req[p] EXCEPT !.pc = "reply"]
    OBVIOUS
  <2>1. /\ req[p] \in Request /\ req' = [req EXCEPT ![p] = r] /\ r.pc = "reply"
        /\ r.op = req[p].op /\ req[p].blob \in BlobId
        /\ Remove(req[p].blob) /\ UNCHANGED metaVars
    BY <1>2, <2>0, RequestFacts DEF RemoveBlob, Goto, Tidy, Inv, Request, Shape
  <2>2. \A id \in BlobId : Present(id)' => Present(id) /\ id # req[p].blob
    BY <2>1 DEF Remove, Present, Inv, Typing, BlobTypeOK
  <2>3. \A id \in BlobId : Referred(id)' <=> Referred(id)
    BY <2>1 DEF Referred, metaVars
  <2>4. r.op # "deleteBucket" /\ ~Admitted(r)
    BY <2>1 DEF TidyInv, Admitted
  <2> QED BY <2>1, <2>2, <2>3, <2>4, TidyStep DEF metaVars
<1>3. ASSUME NEW p \in Proc, Reply(p) PROVE TidyInv'
  <2>1. /\ req' = [req EXCEPT ![p] = Idle] /\ UNCHANGED <<blobVars, metaVars>>
        /\ req[p].pc = "reply"
    BY <1>3 DEF Reply, Drop
  <2>2. /\ UNCHANGED metaVars /\ \A id \in BlobId : Present(id)' <=> Present(id)
        /\ ~Holds(req[p]) /\ ~Admitted(Idle) /\ Idle.op # "deleteBucket"
    BY <2>1 DEF Present, blobVars, Holds, Admitted, Idle
  <2> QED BY <2>1, <2>2, TidyMove
<1>4. ASSUME NEW p \in Proc, Handle(p) PROVE TidyInv'
  BY <1>2, <1>3, <1>4, PutObjectTidy, GetObjectTidy, DeleteObjectTidy,
     BucketTidy, CreateUploadTidy, PutUploadPartTidy, EndUploadTidy,
     CreateBlobFailsTidy DEF Handle
<1>5. ASSUME NEW u \in UploadId, Expire(u) PROVE TidyInv'
  BY <1>1, <1>5 DEF Expire, blobVars, metaVars
<1>6. ~Kill /\ ~Crash
  BY DEF Tidy, Kill, Crash
<1> QED BY <1>1, <1>4, <1>5, <1>6 DEF Next, vars

(* While no process dies in a request and no unlink, no closing of a new   *)
(* file, no metadata call and no deleted bucket fails a handler, every     *)
(* file is a row's or in the hands of a handler that will commit or unlink *)
(* it: a body that is cut off, does not match its checksum or meets a disk *)
(* that fails to create, write or sync leaves nothing behind, and neither  *)
(* does an overwrite, a delete or an abort, whatever else runs.            *)
THEOREM NothingLeaks ==
  ASSUME Tidy
  PROVE  Spec => []NoOrphan
<1>1. Init => TidyInv
  BY DEF Init, BlobInit, MetaInit, RequestInit, TidyInv, Present, Idle, Admitted
<1>2. Inv /\ TidyInv /\ [Next]_vars => TidyInv'
  BY NextTidy
<1>3. TidyInv => NoOrphan
  <2> SUFFICES ASSUME TidyInv, NEW id \in BlobId, Present(id),
                      id \notin ObjectBlobs \cup SessionBlobs
               PROVE  \E p \in Proc : req[p].blob = id
                                      /\ (Owns(p) \/ req[p].pc = "remove")
    BY DEF NoOrphan, Orphans
  <2>1. id # None
    BY NoneAssumption
  <2>2. ~Referred(id)
    BY <2>1 DEF Referred, ObjectBlobs, SessionBlobs
  <2> QED BY <2>2 DEF TidyInv, Holds, Owns
<1> QED BY <1>1, <1>2, <1>3, InvInvariant, PTL DEF Spec
=============================================================================
