---------------------------- MODULE ContentProofs ----------------------------
(***************************************************************************)
(* FileInv is inductive together with Inv.  From it follow the safety      *)
(* invariants about bytes: stored objects are intact, recorded parts are   *)
(* durable, and a reader is sent one version.                              *)
(***************************************************************************)
EXTENDS ContentInv, ServerProofs

USE DEF At

----------------------------------------------------------------------------
(* Cells of a file and parts of an upload.                                 *)

LEMMA SameFile ==
  ASSUME NEW f \in File, NEW g \in File, \A i \in 1..FileLen : f[i] = g[i]
  PROVE  f = g
<1>1. f = [i \in 1..FileLen |-> f[i]] /\ g = [i \in 1..FileLen |-> g[i]]
  BY DEF File
<1> QED BY <1>1

(* A file's length is known once its last byte is.                         *)
LEMMA ExtentIs ==
  ASSUME NEW f \in File, NEW k \in 0..FileLen, k > 0 => f[k] # Hole,
         \A i \in 1..FileLen : i > k => f[i] = Hole
  PROVE  Extent(f) = k
<1>1. ASSUME NEW m \in 0..FileLen, m > 0 => f[m] # Hole,
             \A i \in 1..FileLen : i > m => f[i] = Hole
      PROVE  m = k
  <2>1. ~(m > k)
    BY <1>1, FileLenType
  <2>2. ~(k > m)
    BY <1>1, FileLenType
  <2> QED BY <2>1, <2>2, FileLenType
<1> QED BY <1>1 DEF Extent

(* A body written to an empty file is what a reader of the file gets.      *)
LEMMA BodyContent ==
  ASSUME NEW b \in Seq(Byte), Len(b) <= FileLen
  PROVE  /\ Overlay(Empty, 0, b) \in File
         /\ Content(Overlay(Empty, 0, b)) = b
<1> DEFINE f == Overlay(Empty, 0, b)
<1>1. /\ Len(b) \in Nat /\ b = [i \in 1..Len(b) |-> b[i]]
      /\ \A i \in 1..Len(b) : b[i] \in Byte
  OBVIOUS
<1>2. Hole \notin Byte
  BY SizeAssumption DEF Hole
<1>3. f \in File
  BY <1>1, FileLenType, DataType DEF Overlay, Empty, File
<1>4. /\ \A i \in 1..Len(b) : f[i] = b[i]
      /\ \A i \in 1..FileLen : i > Len(b) => f[i] = Hole
  BY <1>1, FileLenType DEF Overlay, Empty
<1>5. Extent(f) = Len(b)
  <2> HIDE DEF f
  <2> QED BY <1>1, <1>2, <1>3, <1>4, FileLenType, ExtentIs
<1>6. Content(f) = [i \in 1..Len(b) |-> f[i]]
  BY <1>5 DEF Content
<1>7. [i \in 1..Len(b) |-> f[i]] = [i \in 1..Len(b) |-> b[i]]
  BY <1>4
<1> QED BY <1>1, <1>3, <1>6, <1>7

(* Byte j of part n has a cell of its own.                                 *)
LEMMA PartCell ==
  ASSUME NEW n \in 1..MaxParts, NEW j \in 1..PartSize
  PROVE  LET i == PartOffset(n) + j
         IN  /\ i \in 1..FileLen
             /\ ((i - 1) \div PartSize) + 1 = n
             /\ ((i - 1) % PartSize) + 1 = j
<1>1. /\ PartSize \in Nat /\ PartSize > 0 /\ MaxParts \in Nat
      /\ n \in Nat /\ n >= 1 /\ n <= MaxParts
      /\ j \in Nat /\ j >= 1 /\ j <= PartSize
  BY SizeAssumption
<1> DEFINE before == PartSize * (n - 1)
<1>2. PartOffset(n) = before /\ before \in Nat
  BY <1>1 DEF PartOffset
<1>3. before + PartSize <= FileLen
  <2>1. before + PartSize = PartSize * n
    BY <1>1
  <2>2. PartSize * n <= PartSize * MaxParts
    BY <1>1, Multiples
  <2> QED BY <2>1, <2>2 DEF FileLen
<1>4. before + j \in 1..FileLen
  <2> HIDE DEF before
  <2> QED BY <1>1, <1>2, <1>3, FileLenType
<1> DEFINE a == before + j - 1
           q == a \div PartSize
           m == a % PartSize
<1>5. /\ a \in Nat /\ q \in Nat /\ m \in Nat /\ m < PartSize
      /\ a = PartSize * q + m
  <2>1. a \in Nat
    <3> HIDE DEF before
    <3> QED BY <1>1, <1>2
  <2> HIDE DEF a
  <2> QED BY <1>1, <2>1, DivMod
<1>6. a = PartSize * (n - 1) + (j - 1)
  BY <1>1, <1>2
<1> HIDE DEF q, m, a, before
<1>7. ~(q < n - 1)
  <2>1. SUFFICES ASSUME q + 1 <= n - 1 PROVE FALSE
    BY <1>1, <1>5
  <2>2. PartSize * (q + 1) <= PartSize * (n - 1)
    BY <1>1, <1>5, <2>1, Multiples
  <2>3. PartSize * (q + 1) = PartSize * q + PartSize
    BY <1>1, <1>5
  <2> DEFINE x == PartSize * q
             y == PartSize * (n - 1)
  <2>4. x \in Int /\ y \in Int /\ x + PartSize <= y /\ x + m = y + (j - 1)
    BY <1>1, <1>5, <1>6, <2>2, <2>3
  <2> HIDE DEF x, y
  <2> QED BY <1>1, <1>5, <2>4
<1>8. ~(q > n - 1)
  <2>1. SUFFICES ASSUME n <= q PROVE FALSE
    BY <1>1, <1>5
  <2>2. PartSize * n <= PartSize * q
    BY <1>1, <1>5, <2>1, Multiples
  <2>3. PartSize * n = PartSize * (n - 1) + PartSize
    BY <1>1
  <2> DEFINE x == PartSize * q
             y == PartSize * (n - 1)
  <2>4. x \in Int /\ y \in Int /\ y + PartSize <= x /\ x + m = y + (j - 1)
    BY <1>1, <1>5, <1>6, <2>2, <2>3
  <2> HIDE DEF x, y
  <2> QED BY <1>1, <1>5, <2>4
<1>9. q = n - 1
  BY <1>1, <1>5, <1>7, <1>8
<1>10. m = j - 1
  <2> DEFINE y == PartSize * (n - 1)
  <2>1. y \in Int /\ y + m = y + (j - 1)
    BY <1>1, <1>5, <1>6, <1>9
  <2> HIDE DEF y
  <2> QED BY <1>1, <1>5, <2>1
<1>11. PartOffset(n) + j - 1 = a
  BY <1>2 DEF a
<1>12. q + 1 = n /\ m + 1 = j
  BY <1>1, <1>9, <1>10
<1> QED BY <1>2, <1>4, <1>11, <1>12 DEF q, m

(* Every cell is some byte's of some part.                                 *)
LEMMA CellPart ==
  ASSUME NEW i \in 1..FileLen
  PROVE  LET n == ((i - 1) \div PartSize) + 1
             j == ((i - 1) % PartSize) + 1
         IN  n \in 1..MaxParts /\ j \in 1..PartSize /\ i = PartOffset(n) + j
<1>1. /\ PartSize \in Nat /\ PartSize > 0 /\ MaxParts \in Nat
      /\ i \in Nat /\ i - 1 \in Nat /\ i - 1 < PartSize * MaxParts
  BY SizeAssumption, FileLenType DEF FileLen
<1> DEFINE q == (i - 1) \div PartSize
           m == (i - 1) % PartSize
<1>2. q \in Nat /\ m \in Nat /\ m < PartSize /\ i - 1 = PartSize * q + m
  BY <1>1, DivMod
<1> HIDE DEF q, m
<1>3. q < MaxParts
  <2>1. SUFFICES ASSUME MaxParts <= q PROVE FALSE
    BY <1>1, <1>2
  <2>2. PartSize * MaxParts <= PartSize * q
    BY <1>1, <1>2, <2>1, Multiples
  <2> DEFINE x == PartSize * q
             y == PartSize * MaxParts
  <2>3. x \in Int /\ y \in Int /\ y <= x /\ x + m < y
    BY <1>1, <1>2, <2>2
  <2> HIDE DEF x, y
  <2> QED BY <1>2, <2>3
<1>4. PartOffset(q + 1) = PartSize * q
  BY <1>1, <1>2 DEF PartOffset
<1>5. i = PartOffset(q + 1) + (m + 1)
  <2> DEFINE x == PartSize * q
  <2>1. x \in Int /\ i - 1 = x + m /\ PartOffset(q + 1) = x
    BY <1>1, <1>2, <1>4
  <2> HIDE DEF x
  <2> QED BY <1>1, <1>2, <2>1
<1>6. q + 1 \in 1..MaxParts /\ m + 1 \in 1..PartSize
  BY <1>1, <1>2, <1>3
<1> QED BY <1>5, <1>6 DEF q, m

(* What the image holds in the cells of a part.                            *)
LEMMA ImageOfPart ==
  ASSUME SteadyClients, NEW u \in UploadId, NEW n \in 1..MaxParts
  PROVE  /\ \A b \in PartBodies[u][n], j \in 1..PartSize :
              Image(u)[PartOffset(n) + j] = IF j <= Len(b) THEN b[j] ELSE Hole
         /\ PartBodies[u][n] = {} =>
              \A j \in 1..PartSize : Image(u)[PartOffset(n) + j] = Hole
<1>1. ASSUME NEW j \in 1..PartSize
      PROVE  Image(u)[PartOffset(n) + j] =
               IF \E b \in PartBodies[u][n] : j <= Len(b)
                 THEN (CHOOSE b \in PartBodies[u][n] : TRUE)[j] ELSE Hole
  <2> DEFINE i == PartOffset(n) + j
             m == ((i - 1) \div PartSize) + 1
             k == ((i - 1) % PartSize) + 1
  <2>1. i \in 1..FileLen /\ m = n /\ k = j
    BY PartCell
  <2>2. Image(u)[i] = IF \E b \in PartBodies[u][m] : k <= Len(b)
                     THEN (CHOOSE b \in PartBodies[u][m] : TRUE)[k] ELSE Hole
    BY <2>1 DEF Image
  <2> HIDE DEF m, k
  <2> QED BY <2>1, <2>2
<1>2. ASSUME NEW b \in PartBodies[u][n]
      PROVE  (CHOOSE x \in PartBodies[u][n] : TRUE) = b
  BY DEF SteadyClients
<1>3. \A a, b \in PartBodies[u][n] : a = b
  BY DEF SteadyClients
<1>4. ASSUME NEW b \in PartBodies[u][n], NEW j \in 1..PartSize
      PROVE  Image(u)[PartOffset(n) + j] = IF j <= Len(b) THEN b[j] ELSE Hole
  BY <1>1, <1>2, <1>3
<1> QED BY <1>1, <1>4

LEMMA PartBodyType ==
  ASSUME NEW u \in UploadId, NEW n \in 1..MaxParts, NEW b \in PartBodies[u][n]
  PROVE  /\ b \in Seq(Byte) /\ Len(b) \in 1..PartSize /\ Len(b) \in Nat
         /\ \A j \in 1..Len(b) : b[j] \in Byte /\ b[j] # Hole
<1>1. b \in Seq(Byte) /\ Len(b) \in 1..PartSize
  BY BodyAssumption
<1>2. Hole \notin Byte
  BY SizeAssumption DEF Hole
<1> QED BY <1>1, <1>2

LEMMA ImageType ==
  ASSUME SteadyClients, NEW u \in UploadId
  PROVE  Image(u) \in File
<1>1. ASSUME NEW i \in 1..FileLen PROVE Image(u)[i] \in Data
  <2>1. PICK n \in 1..MaxParts, j \in 1..PartSize : i = PartOffset(n) + j
    BY CellPart
  <2>2. CASE PartBodies[u][n] = {}
    BY <2>1, <2>2, ImageOfPart, DataType
  <2>3. ASSUME NEW b \in PartBodies[u][n] PROVE Image(u)[i] \in Data
    <3>1. Image(u)[i] = IF j <= Len(b) THEN b[j] ELSE Hole
      BY <2>1, ImageOfPart
    <3>2. j <= Len(b) => b[j] \in Byte
      BY PartBodyType, SizeAssumption
    <3> QED BY <3>1, <3>2, DataType
  <2> QED BY <2>2, <2>3
<1>2. Image(u) = [i \in 1..FileLen |-> Image(u)[i]]
  BY DEF Image
<1> QED BY <1>1, <1>2 DEF File

(* When every part that clients have is written, the file is the image.    *)
LEMMA WholeImage ==
  ASSUME SteadyClients, NEW u \in UploadId, NEW f \in File, Partial(u, f),
         \A n \in 1..MaxParts : \A b \in PartBodies[u][n] : Written(u, f, n, Len(b))
  PROVE  f = Image(u)
<1>1. ASSUME NEW i \in 1..FileLen PROVE f[i] = Image(u)[i]
  <2>1. PICK n \in 1..MaxParts, j \in 1..PartSize : i = PartOffset(n) + j
    BY CellPart
  <2>2. CASE PartBodies[u][n] = {}
    BY <2>1, <2>2, ImageOfPart DEF Partial
  <2>3. ASSUME NEW b \in PartBodies[u][n] PROVE f[i] = Image(u)[i]
    <3>1. Len(b) \in Nat /\ j \in Nat /\ j >= 1
      BY PartBodyType, SizeAssumption
    <3>2. CASE j <= Len(b)
      BY <2>1, <3>1, <3>2 DEF Written
    <3>3. CASE ~(j <= Len(b))
      BY <2>1, <3>3, ImageOfPart DEF Partial
    <3> QED BY <3>2, <3>3
  <2> QED BY <2>2, <2>3
<1>2. Image(u) \in File
  BY ImageType
<1> QED BY <1>1, <1>2, SameFile

(* The checksum that completeUpload folds from the recorded parts is that  *)
(* of the file.                                                            *)
LEMMA FoldIsContent ==
  ASSUME SteadyClients, NEW u \in UploadId, NEW count \in CompleteCounts[u], NEW parts,
         \A n \in 1..count : parts[n] \in PartBodies[u][n],
         \A n \in 1..(count - 1) : Len(parts[n]) = PartSize
  PROVE  Fold(parts, count) = Content(Image(u))
<1>1. /\ PartSize \in Nat /\ PartSize > 0 /\ MaxParts \in Nat
      /\ count \in 1..MaxParts /\ count \in Nat /\ count >= 1
  BY SizeAssumption, BodyAssumption
<1> DEFINE last == parts[count]
           size == PartOffset(count) + Len(last)
<1>2. last \in PartBodies[u][count] /\ Len(last) \in 1..PartSize /\ Len(last) \in Nat
  BY <1>1, PartBodyType
<1>3. size \in 1..FileLen /\ PartOffset(count) \in Nat
  <2>1. PartOffset(count) \in Nat
    BY <1>1 DEF PartOffset
  <2> QED BY <1>1, <1>2, <2>1, PartCell
<1>4. Image(u)[size] # Hole
  <2>1. Image(u)[size] = last[Len(last)]
    BY <1>1, <1>2, ImageOfPart
  <2>2. last[Len(last)] # Hole
    BY <1>1, <1>2, PartBodyType
  <2> QED BY <2>1, <2>2
<1> HIDE DEF last
<1>5. ASSUME NEW i \in 1..FileLen
      PROVE  IF i > size THEN Image(u)[i] = Hole
             ELSE Image(u)[i] = parts[((i - 1) \div PartSize) + 1]
                                  [((i - 1) % PartSize) + 1]
  <2> DEFINE n == ((i - 1) \div PartSize) + 1
             j == ((i - 1) % PartSize) + 1
  <2>1. n \in 1..MaxParts /\ j \in 1..PartSize /\ i = PartOffset(n) + j
    BY CellPart
  <2> HIDE DEF n, j
  <2> DEFINE x == PartSize * (n - 1)
             y == PartSize * (count - 1)
  <2>2. /\ n \in Nat /\ n >= 1 /\ j \in Nat /\ j >= 1 /\ j <= PartSize
        /\ x \in Int /\ y \in Int
        /\ PartOffset(n) = x /\ PartOffset(count) = y
    BY <1>1, <2>1 DEF PartOffset
  <2>3. CASE n < count
    <3>1. n \in 1..(count - 1) /\ n \in 1..count
      BY <1>1, <2>2, <2>3
    <3>2. Image(u)[i] = parts[n][j]
      BY <2>1, <2>2, <3>1, ImageOfPart
    <3>3. i <= size
      <4>1. PartSize * n <= y
        BY <1>1, <2>2, <2>3, Multiples
      <4>2. PartSize * n = x + PartSize
        BY <1>1, <2>2
      <4>3. x + PartSize <= y /\ i = x + j /\ size = y + Len(last)
        BY <2>1, <2>2, <4>1, <4>2
      <4> HIDE DEF x, y, size
      <4> QED BY <1>1, <1>2, <2>2, <4>3
    <3>4. size \in Int /\ i \in Int
      BY <1>3
    <3> HIDE DEF size
    <3>5. ~(i > size)
      BY <3>3, <3>4
    <3> QED BY <3>2, <3>5 DEF n, j
  <2>4. CASE n = count
    <3>1. Image(u)[i] = IF j <= Len(last) THEN last[j] ELSE Hole
      BY <1>2, <2>1, <2>2, <2>4, ImageOfPart
    <3>2. i = y + j /\ size = y + Len(last)
      BY <2>1, <2>2, <2>4
    <3>3. i > size <=> ~(j <= Len(last))
      <4> HIDE DEF y, size
      <4> QED BY <1>2, <2>2, <3>2
    <3>4. last = parts[n]
      BY <2>4 DEF last
    <3> HIDE DEF size
    <3> QED BY <3>1, <3>3, <3>4 DEF n, j
  <2>5. CASE n > count
    <3>1. PartBodies[u][n] = {}
      BY <2>1, <2>5 DEF SteadyClients
    <3>2. Image(u)[i] = Hole
      BY <2>1, <3>1, ImageOfPart
    <3>3. i > size
      <4>1. PartSize * count <= x
        BY <1>1, <2>2, <2>5, Multiples
      <4>2. PartSize * count = y + PartSize
        BY <1>1, <2>2
      <4>3. y + PartSize <= x /\ i = x + j /\ size = y + Len(last)
        BY <2>1, <2>2, <4>1, <4>2
      <4> HIDE DEF x, y, size
      <4> QED BY <1>1, <1>2, <2>2, <4>3
    <3> HIDE DEF size
    <3> QED BY <3>2, <3>3
  <2> QED BY <1>1, <2>2, <2>3, <2>4, <2>5
<1>6. Extent(Image(u)) = size
  <2> HIDE DEF size
  <2> QED BY <1>3, <1>4, <1>5, ImageType, ExtentIs, FileLenType
<1>7. Content(Image(u)) = [i \in 1..size |-> Image(u)[i]]
  BY <1>6 DEF Content
<1>8. Fold(parts, count) =
        [i \in 1..size |-> parts[((i - 1) \div PartSize) + 1]
                                [((i - 1) % PartSize) + 1]]
  BY DEF Fold, PartOffset, last
<1>9. \A i \in 1..size :
        Image(u)[i] = parts[((i - 1) \div PartSize) + 1][((i - 1) % PartSize) + 1]
  <2> HIDE DEF size
  <2>1. \A i \in 1..size : i \in 1..FileLen /\ ~(i > size)
    BY <1>3, FileLenType
  <2> QED BY <1>5, <2>1
<1> HIDE DEF size
<1> QED BY <1>7, <1>8, <1>9

----------------------------------------------------------------------------
(* The kinds of step.                                                      *)

(* Handler p goes on as r, and no file and no row changes.  What r takes   *)
(* up that req[p] did not have is apart from what the others have.         *)
LEMMA QuietFiles ==
  ASSUME Inv, FileInv, UNCHANGED <<bytes, disk, objects, uploads>>,
         \A id \in BlobId : link[id] # "unused" => link'[id] # "unused",
         NEW p \in Proc, NEW r, req' = [req EXCEPT ![p] = r], Ready(r)',
         Makes(r) => \A q \in Proc \ {p} :
           Borrows(req[q]) \/ Reads(req[q]) => req[q].blob # r.blob,
         Borrows(r) \/ Reads(r) => \A q \in Proc \ {p} :
           Makes(req[q]) => req[q].blob # r.blob,
         Borrows(r) =>
           /\ \A q \in Proc \ {p} : Borrows(req[q]) /\ req[q].blob = r.blob =>
                req[q].upload = r.upload
           /\ \A u \in UploadId : uploads[u].blob = r.blob => r.upload = u,
         Writes(r) =>
           \/ bytes[r.blob] = Image(r.upload)
           \/ /\ \A n \in Name : objects[n].blob # r.blob
              /\ \A q \in Proc \ {p} : Reads(req[q]) => req[q].blob # r.blob,
         Reads(r) => \A q \in Proc \ {p} :
           Writes(req[q]) /\ req[q].blob = r.blob =>
             bytes[r.blob] = Image(req[q].upload)
  PROVE  FileInv'
<1>0. /\ req \in [Proc -> Request]
      /\ \A q \in Proc : req'[q] = IF q = p THEN r ELSE req[q]
  BY DEF Inv, Typing, RequestTyping, RequestTypeOK
<1>1. UnusedEmpty'
  BY DEF FileInv, UnusedEmpty, Inv, Typing, BlobTypeOK
<1>2. ObjectIntact'
  BY DEF FileInv, ObjectIntact
<1>3. SessionsSteady'
  BY DEF FileInv, SessionsSteady, Active
<1>4. HandlersReady'
  <2> SUFFICES ASSUME NEW q \in Proc, q # p PROVE Ready(req[q])'
    BY <1>0 DEF HandlersReady
  <2>1. Ready(req[q]) /\ req'[q] = req[q]
    BY <1>0 DEF FileInv, HandlersReady
  <2>2. Reads(req[q]) => req[q].blob \in BlobId
    BY RequestFacts DEF Inv, Shape, Reads
  <2>3. PutReady(req[q])' /\ SessionReady(req[q])' /\ CompleteReady(req[q])'
    BY <2>1 DEF Ready, PutReady, SessionReady, CompleteReady
  <2>4. PartReady(req[q])'
    BY <2>1 DEF Ready, PartReady, Writes
  <2>5. ReadReady(req[q])'
    BY <2>1, <2>2 DEF Ready, ReadReady, Reads
  <2> QED BY <2>3, <2>4, <2>5 DEF Ready
<1>5. ~(Makes(r) /\ (Borrows(r) \/ Reads(r))) /\ ~(Writes(r) /\ Reads(r))
  BY DEF Makes, Borrows, Reads, Writes
<1>6. MadeAlone'
  <2> SUFFICES ASSUME NEW a \in Proc, NEW b \in Proc, Makes(req'[a]),
                      Borrows(req'[b]) \/ Reads(req'[b])
               PROVE  req'[b].blob # req'[a].blob
    BY DEF MadeAlone, Makes, Borrows, Reads
  <2> QED BY <1>0, <1>5 DEF FileInv, MadeAlone
<1>7. OneSession'
  <2>1. ASSUME NEW a \in Proc, Borrows(req'[a])
        PROVE  /\ \A b \in Proc : Borrows(req'[b]) /\ req'[b].blob = req'[a].blob
                    => req'[b].upload = req'[a].upload
               /\ \A u \in UploadId : uploads[u].blob = req'[a].blob =>
                    req'[a].upload = u
    BY <1>0, <2>1 DEF FileInv, OneSession
  <2> QED BY <2>1 DEF OneSession, Borrows
<1>8. LateParts'
  <2> SUFFICES ASSUME NEW a \in Proc, Writes(req'[a])
               PROVE  \/ bytes[req'[a].blob] = Image(req'[a].upload)
                      \/ /\ \A n \in Name : objects[n].blob # req'[a].blob
                         /\ \A q \in Proc : Reads(req'[q]) =>
                              req'[q].blob # req'[a].blob
    BY DEF LateParts, Writes, Reads
  <2> QED BY <1>0, <1>5 DEF FileInv, LateParts
<1> QED BY <1>1, <1>2, <1>3, <1>4, <1>6, <1>8, <1>7 DEF FileInv

(* Handler p writes or syncs the blob it made, or gives it up.             *)
LEMMA PrivateFiles ==
  ASSUME Inv, FileInv, UNCHANGED <<objects, uploads>>,
         \A id \in BlobId : link'[id] = "unused" <=> link[id] = "unused",
         NEW p \in Proc, Makes(req[p]),
         \A id \in BlobId \ {req[p].blob} :
           bytes'[id] = bytes[id] /\ disk'[id] = disk[id],
         NEW r, req' = [req EXCEPT ![p] = r], Ready(r)',
         r.op = req[p].op, r.pc \in {"sync", "commit", "remove"},
         r.blob = req[p].blob
  PROVE  FileInv'
<1>0. /\ req \in [Proc -> Request]
      /\ \A q \in Proc : req'[q] = IF q = p THEN r ELSE req[q]
  BY DEF Inv, Typing, RequestTyping, RequestTypeOK
<1> DEFINE own == req[p].blob
<1>1. /\ own \in BlobId /\ link[own] # "unused"
      /\ \A n \in Name : objects[n].blob # own
      /\ \A u \in UploadId : uploads[u].blob # own
      /\ \A q \in Proc : Makes(req[q]) /\ req[q].blob = own => q = p
      /\ \A q \in Proc : Borrows(req[q]) \/ Reads(req[q]) => req[q].blob # own
  <2>1. own \in BlobId
    BY RequestFacts DEF Inv, Shape, Makes
  <2>2. \A q \in Proc : Makes(req[q]) => Holds(req[q])
    BY DEF Makes, Holds
  <2> QED BY <2>1, <2>2 DEF Inv, RefInv, HeldAlone, FileInv, MadeAlone
<1> HIDE DEF own
<1>2. \A id \in BlobId \ {own} : bytes'[id] = bytes[id] /\ disk'[id] = disk[id]
  BY DEF own
<1>3. UnusedEmpty'
  BY <1>1, <1>2 DEF FileInv, UnusedEmpty
<1>4. ObjectIntact'
  BY <1>1, <1>2 DEF FileInv, ObjectIntact, Inv, Typing, MetaTyping, MetaTypeOK,
                    ObjectRow
<1>5. SessionsSteady'
  <2> SUFFICES ASSUME NEW u \in UploadId, Active(u)
               PROVE  LET id == uploads[u].blob
                      IN  bytes'[id] = bytes[id] /\ disk'[id] = disk[id]
    BY DEF FileInv, SessionsSteady, Active
  <2> QED BY <1>1, <1>2, SessionFacts DEF Inv, Active, SessionShape
<1>6. HandlersReady'
  <2> SUFFICES ASSUME NEW q \in Proc, q # p PROVE Ready(req[q])'
    BY <1>0 DEF HandlersReady
  <2>1. Ready(req[q]) /\ req'[q] = req[q]
    BY <1>0 DEF FileInv, HandlersReady
  <2>2. Makes(req[q]) \/ Borrows(req[q]) \/ Reads(req[q]) =>
          /\ req[q].blob \in BlobId
          /\ bytes'[req[q].blob] = bytes[req[q].blob]
          /\ disk'[req[q].blob] = disk[req[q].blob]
    <3>1. Makes(req[q]) \/ Borrows(req[q]) \/ Reads(req[q]) => req[q].blob \in BlobId
      BY RequestFacts DEF Inv, Shape, Makes, Borrows, Reads
    <3> QED BY <1>1, <1>2, <3>1
  <2>3. PutReady(req[q])' /\ SessionReady(req[q])'
    BY <2>1, <2>2 DEF Ready, PutReady, SessionReady, Makes
  <2>4. CompleteReady(req[q])'
    BY <2>1, <2>2 DEF Ready, CompleteReady, Borrows
  <2>5. PartReady(req[q])'
    BY <2>1, <2>2 DEF Ready, PartReady, Writes, Borrows
  <2>6. ReadReady(req[q])'
    BY <2>1, <2>2 DEF Ready, ReadReady, Reads
  <2> QED BY <2>3, <2>4, <2>5, <2>6 DEF Ready
<1>7. ~Borrows(r) /\ ~Reads(r) /\ ~Writes(r) /\ r.blob = own
  BY DEF Borrows, Reads, Writes, Makes, own
<1>8. MadeAlone'
  <2> SUFFICES ASSUME NEW a \in Proc, NEW b \in Proc, Makes(req'[a]),
                      Borrows(req'[b]) \/ Reads(req'[b])
               PROVE  req'[b].blob # req'[a].blob
    BY DEF MadeAlone, Makes, Borrows, Reads
  <2> QED BY <1>0, <1>1, <1>7 DEF FileInv, MadeAlone
<1>9. OneSession'
  <2>1. ASSUME NEW a \in Proc, Borrows(req'[a])
        PROVE  /\ \A b \in Proc : Borrows(req'[b]) /\ req'[b].blob = req'[a].blob
                    => req'[b].upload = req'[a].upload
               /\ \A u \in UploadId : uploads[u].blob = req'[a].blob =>
                    req'[a].upload = u
    BY <1>0, <1>7, <2>1 DEF FileInv, OneSession
  <2> QED BY <2>1 DEF OneSession, Borrows
<1>10. LateParts'
  <2> SUFFICES ASSUME NEW a \in Proc, Writes(req'[a])
               PROVE  \/ bytes'[req'[a].blob] = Image(req'[a].upload)
                      \/ /\ \A n \in Name : objects[n].blob # req'[a].blob
                         /\ \A q \in Proc : Reads(req'[q]) =>
                              req'[q].blob # req'[a].blob
    BY DEF LateParts, Writes, Reads
  <2>1. a # p /\ req'[a] = req[a] /\ Borrows(req[a])
    BY <1>0, <1>7 DEF Writes, Borrows
  <2>2. bytes'[req[a].blob] = bytes[req[a].blob]
    BY <1>1, <1>2, <2>1, RequestFacts DEF Inv, Shape, Borrows
  <2> QED BY <1>0, <1>7, <2>1, <2>2 DEF FileInv, LateParts
<1> QED BY <1>3, <1>4, <1>5, <1>6, <1>8, <1>10, <1>9 DEF FileInv

(* A step from file f to file g that at most writes bytes of the session's *)
(* image takes nothing back.                                               *)
Toward(u, f, g) == \A i \in 1..FileLen : g[i] = f[i] \/ g[i] = Image(u)[i]

LEMMA TowardKeeps ==
  ASSUME NEW u \in UploadId, NEW f \in File, NEW g \in File, Toward(u, f, g)
  PROVE  /\ Partial(u, f) => Partial(u, g)
         /\ \A n \in 1..MaxParts, k \in 0..PartSize :
              Written(u, f, n, k) => Written(u, g, n, k)
         /\ f = Image(u) => g = Image(u)
<1>1. Partial(u, f) => Partial(u, g)
  BY DEF Partial, Toward
<1>2. ASSUME NEW n \in 1..MaxParts, NEW k \in 0..PartSize, Written(u, f, n, k)
      PROVE  Written(u, g, n, k)
  <2> SUFFICES ASSUME NEW j \in 1..k
               PROVE  g[PartOffset(n) + j] = Image(u)[PartOffset(n) + j]
    BY DEF Written
  <2>1. j \in 1..PartSize
    BY SizeAssumption
  <2>2. PartOffset(n) + j \in 1..FileLen
    BY <2>1, PartCell
  <2> QED BY <1>2, <2>2 DEF Written, Toward
<1>3. f = Image(u) => g = Image(u)
  BY SameFile DEF Toward
<1> QED BY <1>1, <1>2, <1>3

(* Handler p writes bytes of its part into a session's file, or syncs it.  *)
LEMMA SharedFiles ==
  ASSUME Inv, FileInv, BlobTypeOK', UNCHANGED <<objects, uploads>>,
         \A id \in BlobId : link'[id] = "unused" <=> link[id] = "unused",
         NEW p \in Proc, Writes(req[p]),
         \A id \in BlobId \ {req[p].blob} :
           bytes'[id] = bytes[id] /\ disk'[id] = disk[id],
         Toward(req[p].upload, bytes[req[p].blob], bytes'[req[p].blob]),
         \/ disk'[req[p].blob] = disk[req[p].blob]
         \/ disk'[req[p].blob] = bytes'[req[p].blob],
         NEW r, req' = [req EXCEPT ![p] = r], Ready(r)',
         Writes(r), r.blob = req[p].blob, r.upload = req[p].upload
  PROVE  FileInv'
<1>0. /\ req \in [Proc -> Request]
      /\ \A q \in Proc : req'[q] = IF q = p THEN r ELSE req[q]
  BY DEF Inv, Typing, RequestTyping, RequestTypeOK
<1> DEFINE own == req[p].blob
           s == req[p].upload
<1>1. /\ own \in BlobId /\ link[own] # "unused" /\ s \in UploadId
      /\ \A q \in Proc : Makes(req[q]) => req[q].blob # own
      /\ Borrows(req[p])
  BY RequestFacts DEF Inv, Shape, Writes, Borrows, RefInv, BorrowedFromSession,
                      FileInv, MadeAlone
(* Whoever else has the file in hand, or in its row, has it from session s. *)
<1>2. /\ \A q \in Proc : Borrows(req[q]) /\ req[q].blob = own =>
                             req[q].upload = s
      /\ \A u \in UploadId : uploads[u].blob = own => u = s
  BY <1>1 DEF FileInv, OneSession
<1>3. /\ \A id \in BlobId : /\ bytes[id] \in File /\ bytes'[id] \in File
                            /\ disk[id] \in File /\ disk'[id] \in File
  BY DEF Inv, Typing, BlobTypeOK
<1> HIDE DEF own, s
<1>4. ASSUME NEW id \in BlobId, NEW u \in UploadId, id = own => u = s
      PROVE  /\ Toward(u, bytes[id], bytes'[id])
             /\ disk'[id] = disk[id] \/ disk'[id] = bytes'[id]
  BY <1>4 DEF Toward, own, s
<1>5. \A id \in BlobId : id # own => bytes'[id] = bytes[id] /\ disk'[id] = disk[id]
  BY DEF own
<1>6. \A id \in BlobId : disk'[id] = disk[id] \/ disk'[id] = bytes'[id]
  BY DEF own
<1>7. ASSUME NEW id \in BlobId, NEW u \in UploadId, id = own => u = s
      PROVE  /\ Partial(u, bytes[id]) => Partial(u, bytes'[id])
             /\ bytes[id] = Image(u) => bytes'[id] = Image(u)
             /\ Partial(u, bytes[id]) /\ Partial(u, disk[id]) =>
                  Partial(u, disk'[id])
             /\ bytes[id] = Image(u) /\ disk[id] = Image(u) =>
                  disk'[id] = Image(u)
             /\ \A n \in 1..MaxParts, k \in 0..PartSize :
                  /\ Written(u, bytes[id], n, k) => Written(u, bytes'[id], n, k)
                  /\ Written(u, bytes[id], n, k) /\ Written(u, disk[id], n, k) =>
                       Written(u, disk'[id], n, k)
  BY <1>3, <1>4, <1>7, TowardKeeps
(* A file that is an object's or is being read does not change.            *)
<1>8. ASSUME NEW id \in BlobId,
             \/ \E n \in Name : objects[n].blob = id
             \/ \E q \in Proc : Reads(req[q]) /\ req[q].blob = id
      PROVE  bytes'[id] = bytes[id]
  <2>1. CASE id # own
    BY <1>5, <2>1
  <2>2. CASE id = own
    <3>1. bytes[id] = Image(s)
      BY <1>8, <2>2 DEF own, s, FileInv, LateParts
    <3> QED BY <1>1, <1>7, <2>2, <3>1
  <2> QED BY <2>1, <2>2
<1>9. UnusedEmpty'
  BY <1>1, <1>5 DEF FileInv, UnusedEmpty
<1>10. ObjectIntact'
  <2> SUFFICES ASSUME NEW n \in Name, objects[n].blob # None
               PROVE  LET id == objects[n].blob
                      IN  Content(bytes'[id]) = objects[n].sum
                            /\ disk'[id] = bytes'[id]
    BY DEF ObjectIntact
  <2>1. PICK id \in BlobId : id = objects[n].blob
    BY DEF Inv, Typing, MetaTyping, MetaTypeOK, ObjectRow
  <2>2. Content(bytes[id]) = objects[n].sum /\ disk[id] = bytes[id]
    BY <2>1 DEF FileInv, ObjectIntact
  <2>3. bytes'[id] = bytes[id]
    BY <1>8, <2>1
  <2> QED BY <1>6, <2>1, <2>2, <2>3
<1>11. SessionsSteady'
  <2> SUFFICES ASSUME NEW u \in UploadId, Active(u)
               PROVE  LET id == uploads[u].blob
                          parts == uploads[u].parts
                      IN  /\ Partial(u, bytes'[id]) /\ Partial(u, disk'[id])
                          /\ \A n \in 1..MaxParts : parts[n] # << >> =>
                               /\ parts[n] \in PartBodies[u][n]
                               /\ Written(u, bytes'[id], n, Len(parts[n]))
                               /\ Written(u, disk'[id], n, Len(parts[n]))
    BY DEF SessionsSteady, Active, Written, Partial
  <2>1. PICK id \in BlobId : id = uploads[u].blob
    BY SessionFacts DEF Inv, Active, SessionShape
  <2>2. id = own => u = s
    BY <1>2, <2>1
  <2>3. Partial(u, bytes'[id]) /\ Partial(u, disk'[id])
    BY <1>7, <2>1, <2>2 DEF FileInv, SessionsSteady
  <2>4. ASSUME NEW n \in 1..MaxParts, uploads[u].parts[n] # << >>
        PROVE  LET k == Len(uploads[u].parts[n])
               IN  /\ uploads[u].parts[n] \in PartBodies[u][n]
                   /\ Written(u, bytes'[id], n, k) /\ Written(u, disk'[id], n, k)
    <3> DEFINE k == Len(uploads[u].parts[n])
    <3>1. /\ uploads[u].parts[n] \in PartBodies[u][n]
          /\ Written(u, bytes[id], n, k) /\ Written(u, disk[id], n, k)
      BY <2>1, <2>4 DEF FileInv, SessionsSteady
    <3>2. k \in 0..PartSize
      BY <3>1, PartBodyType, SizeAssumption
    <3> HIDE DEF k
    <3> QED BY <1>7, <2>2, <3>1, <3>2 DEF k
  <2> QED BY <2>1, <2>3, <2>4
<1>12. HandlersReady'
  <2> SUFFICES ASSUME NEW q \in Proc, q # p PROVE Ready(req[q])'
    BY <1>0 DEF HandlersReady
  <2>1. Ready(req[q]) /\ req'[q] = req[q] /\ req[q] \in Request /\ Shape(req[q])
    BY <1>0, RequestFacts DEF FileInv, HandlersReady, Inv
  <2>2. Makes(req[q]) \/ Borrows(req[q]) \/ Reads(req[q]) => req[q].blob \in BlobId
    BY <2>1 DEF Shape, Makes, Borrows, Reads
  <2>3. PutReady(req[q])' /\ SessionReady(req[q])'
    <3>1. Makes(req[q]) => /\ bytes'[req[q].blob] = bytes[req[q].blob]
                           /\ disk'[req[q].blob] = disk[req[q].blob]
      BY <1>1, <1>5, <2>2
    <3> QED BY <2>1, <3>1 DEF Ready, PutReady, SessionReady, Makes
  <2>4. Borrows(req[q]) => /\ req[q].upload \in UploadId
                           /\ req[q].blob = own => req[q].upload = s
    BY <1>2, <2>1 DEF Shape, Borrows
  <2>5. CompleteReady(req[q])'
    BY <1>7, <2>1, <2>2, <2>4 DEF Ready, CompleteReady, Borrows
  <2>6. PartReady(req[q])'
    <3> SUFFICES ASSUME Writes(req[q]) PROVE PartReady(req[q])'
      BY <2>1 DEF PartReady, Writes
    <3> DEFINE u == req[q].upload
    <3>1. /\ req[q].part \in 1..MaxParts
          /\ req[q].body \in PartBodies[u][req[q].part]
          /\ req[q].blob \in BlobId /\ u \in UploadId
          /\ req[q].blob = own => u = s
          /\ req[q].done \in 0..PartSize
      BY <2>1, <2>2, <2>4 DEF Shape, Writes, Borrows, Ready, PartReady, Request
    <3>2. Len(req[q].body) \in 0..PartSize
      BY <3>1, PartBodyType, SizeAssumption
    <3> DEFINE id == req[q].blob
               n == req[q].part
    <3>3. \A k \in 0..PartSize :
            /\ Written(u, bytes[id], n, k) => Written(u, bytes'[id], n, k)
            /\ Written(u, bytes[id], n, k) /\ Written(u, disk[id], n, k) =>
                 Written(u, disk'[id], n, k)
      BY <1>7, <3>1
    <3> QED BY <2>1, <3>1, <3>2, <3>3 DEF Ready, PartReady
  <2>7. ReadReady(req[q])'
    <3>1. Reads(req[q]) => bytes'[req[q].blob] = bytes[req[q].blob]
      BY <1>8, <2>2
    <3> QED BY <2>1, <2>2, <3>1 DEF Ready, ReadReady, Reads
  <2> QED BY <2>3, <2>5, <2>6, <2>7 DEF Ready
<1>13. ~Makes(r) /\ ~Reads(r) /\ r.blob = own
  BY DEF Makes, Reads, Writes, own
<1>14. MadeAlone'
  <2> SUFFICES ASSUME NEW a \in Proc, NEW b \in Proc, Makes(req'[a]),
                      Borrows(req'[b]) \/ Reads(req'[b])
               PROVE  req'[b].blob # req'[a].blob
    BY DEF MadeAlone, Makes, Borrows, Reads
  <2> QED BY <1>0, <1>1, <1>13 DEF FileInv, MadeAlone
<1>15. OneSession'
  <2>1. \A q \in Proc : Borrows(req'[q]) =>
          /\ Borrows(req[q]) /\ req'[q].blob = req[q].blob
          /\ req'[q].upload = req[q].upload
    BY <1>0, <1>1
  <2>2. ASSUME NEW a \in Proc, Borrows(req'[a])
        PROVE  /\ \A b \in Proc : Borrows(req'[b]) /\ req'[b].blob = req'[a].blob
                    => req'[b].upload = req'[a].upload
               /\ \A u \in UploadId : uploads[u].blob = req'[a].blob =>
                    req'[a].upload = u
    BY <2>1, <2>2 DEF FileInv, OneSession
  <2> QED BY <2>2 DEF OneSession, Borrows
<1>16. LateParts'
  <2> SUFFICES ASSUME NEW a \in Proc, Writes(req'[a])
               PROVE  \/ bytes'[req'[a].blob] = Image(req'[a].upload)
                      \/ /\ \A n \in Name : objects[n].blob # req'[a].blob
                         /\ \A q \in Proc : Reads(req'[q]) =>
                              req'[q].blob # req'[a].blob
    BY DEF LateParts, Writes, Reads
  <2>1. /\ Writes(req[a]) /\ req'[a].blob = req[a].blob
        /\ req'[a].upload = req[a].upload
    BY <1>0
  <2>2. /\ req[a].blob \in BlobId /\ req[a].upload \in UploadId
        /\ req[a].blob = own => req[a].upload = s
    BY <1>2, <2>1, RequestFacts DEF Inv, Shape, Writes, Borrows
  <2> QED BY <1>0, <1>7, <1>13, <2>1, <2>2 DEF FileInv, LateParts
<1> QED BY <1>9, <1>10, <1>11, <1>12, <1>14, <1>16, <1>15 DEF FileInv

(* What has to be true of a session's row for SessionsSteady.              *)
SteadyRow(u, row) ==
  /\ Partial(u, bytes[row.blob]) /\ Partial(u, disk[row.blob])
  /\ \A n \in 1..MaxParts : row.parts[n] # << >> =>
       /\ row.parts[n] \in PartBodies[u][n]
       /\ Written(u, bytes[row.blob], n, Len(row.parts[n]))
       /\ Written(u, disk[row.blob], n, Len(row.parts[n]))

(* Handler p commits to the tables and is done with the files, but for the *)
(* one it may remove.                                                      *)
LEMMA TableFiles ==
  ASSUME Inv, FileInv, UNCHANGED <<link, bytes, disk>>,
         NEW p \in Proc, NEW r, req' = [req EXCEPT ![p] = r],
         r.op # "get", r.pc \in {"reply", "remove"},
         r.op = "put" => r.body \in PutBodies,
         \A n \in Name : objects'[n].blob # None =>
           \/ objects'[n] = objects[n]
           \/ /\ Content(bytes[objects'[n].blob]) = objects'[n].sum
              /\ disk[objects'[n].blob] = bytes[objects'[n].blob]
              /\ \A q \in Proc : Writes(req[q]) /\ req[q].blob = objects'[n].blob
                   => bytes[objects'[n].blob] = Image(req[q].upload),
         \A u \in UploadId :
           \/ uploads'[u] = uploads[u]
           \/ uploads'[u].state # "active" /\ uploads'[u].blob = None
           \/ /\ SteadyRow(u, uploads'[u])
              /\ \A q \in Proc : Reads(req[q]) =>
                   req[q].blob # uploads'[u].blob
              /\ \A q \in Proc :
                   Borrows(req[q]) /\ req[q].blob = uploads'[u].blob =>
                     req[q].upload = u
  PROVE  FileInv'
<1>0. /\ req \in [Proc -> Request]
      /\ \A q \in Proc : req'[q] = IF q = p THEN r ELSE req[q]
  BY DEF Inv, Typing, RequestTyping, RequestTypeOK
<1>1. UnusedEmpty'
  BY DEF FileInv, UnusedEmpty
<1>2. ObjectIntact'
  BY DEF FileInv, ObjectIntact
<1>3. SessionsSteady'
  <2> SUFFICES ASSUME NEW u \in UploadId, uploads'[u].state = "active"
               PROVE  SteadyRow(u, uploads'[u])
    BY DEF SessionsSteady, Active, SteadyRow
  <2> QED BY DEF FileInv, SessionsSteady, Active, SteadyRow
<1>4. ~Makes(r) /\ ~Borrows(r) /\ ~Reads(r) /\ ~Writes(r)
  BY DEF Makes, Borrows, Reads, Writes
<1>5. Ready(r)'
  BY <1>4 DEF Ready, PutReady, SessionReady, PartReady, CompleteReady, ReadReady,
              Makes, Borrows
<1>6. HandlersReady'
  <2> SUFFICES ASSUME NEW q \in Proc, q # p PROVE Ready(req[q])'
    BY <1>0, <1>5 DEF HandlersReady
  <2>1. Ready(req[q]) /\ req'[q] = req[q]
    BY <1>0 DEF FileInv, HandlersReady
  <2>2. Reads(req[q]) => req[q].blob \in BlobId
    BY RequestFacts DEF Inv, Shape, Reads
  <2>3. PutReady(req[q])' /\ SessionReady(req[q])' /\ CompleteReady(req[q])'
    BY <2>1 DEF Ready, PutReady, SessionReady, CompleteReady
  <2>4. PartReady(req[q])'
    BY <2>1 DEF Ready, PartReady, Writes
  <2>5. Reads(req[q]) => \A u \in UploadId : uploads'[u].blob # req[q].blob
    BY <2>1, <2>2, NoneAssumption DEF Ready, ReadReady, Reads
  <2>6. ReadReady(req[q])'
    BY <2>1, <2>5 DEF Ready, ReadReady, Reads
  <2> QED BY <2>3, <2>4, <2>6 DEF Ready
<1>7. MadeAlone'
  <2> SUFFICES ASSUME NEW a \in Proc, NEW b \in Proc, Makes(req'[a]),
                      Borrows(req'[b]) \/ Reads(req'[b])
               PROVE  req'[b].blob # req'[a].blob
    BY DEF MadeAlone, Makes, Borrows, Reads
  <2> QED BY <1>0, <1>4 DEF FileInv, MadeAlone
<1>8. OneSession'
  <2>1. ASSUME NEW a \in Proc, Borrows(req'[a])
        PROVE  /\ \A b \in Proc : Borrows(req'[b]) /\ req'[b].blob = req'[a].blob
                    => req'[b].upload = req'[a].upload
               /\ \A u \in UploadId : uploads'[u].blob = req'[a].blob =>
                    req'[a].upload = u
    <3>1. a # p /\ req'[a] = req[a] /\ Borrows(req[a]) /\ req[a].blob # None
      BY <1>0, <1>4, <2>1, RequestFacts, NoneAssumption DEF Inv, Shape, Borrows
    <3> QED BY <1>0, <1>4, <3>1 DEF FileInv, OneSession
  <2> QED BY <2>1 DEF OneSession, Borrows
<1>9. LateParts'
  <2> SUFFICES ASSUME NEW a \in Proc, Writes(req'[a])
               PROVE  \/ bytes[req'[a].blob] = Image(req'[a].upload)
                      \/ /\ \A n \in Name : objects'[n].blob # req'[a].blob
                         /\ \A q \in Proc : Reads(req'[q]) =>
                              req'[q].blob # req'[a].blob
    BY DEF LateParts, Writes, Reads
  <2>1. a # p /\ req'[a] = req[a] /\ req[a].blob # None
    BY <1>0, <1>4, RequestFacts, NoneAssumption DEF Inv, Shape, Writes
  <2> QED BY <1>0, <1>4, <2>1 DEF FileInv, LateParts
<1> QED BY <1>1, <1>2, <1>3, <1>6, <1>7, <1>9, <1>8 DEF FileInv

(* A kill or a power loss: a cell that may be lost is one of a file whose  *)
(* bytes nothing was promised about.                                       *)
LEMMA CrashFiles ==
  ASSUME Inv, FileInv, Kill \/ Crash
  PROVE  FileInv'
<1>1. UNCHANGED <<objects, uploads>> /\ \A p \in Proc : req'[p] = Idle
  BY DEF Kill, Crash, metaVars
<1>2. \A id \in BlobId : bytes[id] \in File /\ disk[id] \in File
  BY DEF Inv, Typing, BlobTypeOK
<1>3. ASSUME NEW id \in BlobId
      PROVE  /\ link'[id] = "unused" => link[id] = "unused"
             /\ bytes'[id] \in File /\ disk'[id] \in File
             /\ \A i \in 1..FileLen : /\ bytes'[id][i] \in {bytes[id][i], disk[id][i]}
                                      /\ disk'[id][i] \in {bytes[id][i], disk[id][i]}
             /\ disk[id] = bytes[id] => disk'[id] = bytes'[id]
  <2>1. CASE Kill
    BY <1>2, <2>1 DEF Kill, blobVars
  <2>2. CASE Crash
    <3>1. link'[id] = "unused" => link[id] = "unused"
      BY <2>2 DEF Crash, LoseUnsynced
    <3>2. disk' = bytes'
      BY <2>2 DEF Crash, LoseUnsynced
    <3>3. bytes' \in [BlobId -> File]
      BY <2>2, CrashType DEF Crash, Inv, Typing, BlobTypeOK
    <3>4. PICK lost : bytes' = [b \in BlobId |-> [i \in 1..FileLen |->
                   IF <<b, i>> \in lost THEN disk[b][i] ELSE bytes[b][i]]]
      BY <2>2 DEF Crash, LoseUnsynced
    <3>5. \A i \in 1..FileLen : bytes'[id][i] \in {bytes[id][i], disk[id][i]}
      BY <3>4
    <3> QED BY <3>1, <3>2, <3>3, <3>5
  <2> QED BY <2>1, <2>2
<1>4. ASSUME NEW id \in BlobId, disk[id] = bytes[id]
      PROVE  bytes'[id] = bytes[id] /\ disk'[id] = bytes[id]
  <2>1. \A i \in 1..FileLen : bytes'[id][i] = bytes[id][i]
    BY <1>3, <1>4
  <2> QED BY <1>2, <1>3, <1>4, <2>1, SameFile
<1>5. UnusedEmpty'
  BY <1>3, <1>4 DEF FileInv, UnusedEmpty
<1>6. ObjectIntact'
  <2> SUFFICES ASSUME NEW n \in Name, objects[n].blob # None
               PROVE  LET id == objects[n].blob
                      IN  Content(bytes'[id]) = objects[n].sum
                            /\ disk'[id] = bytes'[id]
    BY <1>1 DEF ObjectIntact
  <2>1. PICK id \in BlobId : id = objects[n].blob
    BY DEF Inv, Typing, MetaTyping, MetaTypeOK, ObjectRow
  <2> QED BY <1>4, <2>1 DEF FileInv, ObjectIntact
<1>7. SessionsSteady'
  <2> SUFFICES ASSUME NEW u \in UploadId, Active(u)
               PROVE  SteadyRow(u, uploads[u])'
    BY <1>1 DEF SessionsSteady, Active, SteadyRow
  <2>1. PICK id \in BlobId : id = uploads[u].blob
    BY SessionFacts DEF Inv, Active, SessionShape
  <2>2. SteadyRow(u, uploads[u]) /\ uploads'[u] = uploads[u]
    BY <1>1 DEF FileInv, SessionsSteady, SteadyRow
  <2>3. Partial(u, bytes'[id]) /\ Partial(u, disk'[id])
    BY <1>3, <2>1, <2>2 DEF SteadyRow, Partial
  <2>4. ASSUME NEW n \in 1..MaxParts, uploads[u].parts[n] # << >>
        PROVE  LET k == Len(uploads[u].parts[n])
               IN  /\ uploads[u].parts[n] \in PartBodies[u][n]
                   /\ Written(u, bytes'[id], n, k) /\ Written(u, disk'[id], n, k)
    <3> DEFINE k == Len(uploads[u].parts[n])
    <3>1. /\ uploads[u].parts[n] \in PartBodies[u][n]
          /\ Written(u, bytes[id], n, k) /\ Written(u, disk[id], n, k)
      BY <2>1, <2>2, <2>4 DEF SteadyRow
    <3>2. k \in 0..PartSize
      BY <3>1, PartBodyType, SizeAssumption
    <3> HIDE DEF k
    <3>3. \A j \in 1..k : PartOffset(n) + j \in 1..FileLen
      BY <3>2, PartCell, SizeAssumption
    <3>4. Written(u, bytes'[id], n, k) /\ Written(u, disk'[id], n, k)
      BY <1>3, <3>1, <3>3 DEF Written
    <3> QED BY <3>1, <3>4 DEF k
  <2> QED BY <2>1, <2>2, <2>3, <2>4 DEF SteadyRow
<1>8. HandlersReady' /\ MadeAlone' /\ OneSession' /\ LateParts'
  BY <1>1 DEF HandlersReady, Ready, PutReady, SessionReady, PartReady,
              CompleteReady, ReadReady, MadeAlone, OneSession, LateParts, Makes, Borrows,
              Reads, Writes, Idle
<1> QED BY <1>5, <1>6, <1>7, <1>8 DEF FileInv

(* Handler p has nothing to do with any file any more, or not yet, but for *)
(* one that it may remove.                                                 *)
LEMMA SpentFiles ==
  ASSUME Inv, FileInv, UNCHANGED <<bytes, disk, objects, uploads>>,
         \A id \in BlobId : link[id] # "unused" => link'[id] # "unused",
         NEW p \in Proc, NEW r, req' = [req EXCEPT ![p] = r],
         ~Makes(r), ~Borrows(r), ~Reads(r),
         r.op = "put" => r.body \in PutBodies,
         r.op = "get" => /\ r.pc \in {"row", "reply"}
                         /\ r.pc = "row" => r.body = << >>
                         /\ r.pc = "reply" /\ r.code = "ok" => r.body = r.want
  PROVE  FileInv'
<1>1. ~Writes(r)
  BY DEF Borrows, Writes
<1>2. Ready(r)'
  BY <1>1 DEF Ready, PutReady, SessionReady, PartReady, CompleteReady, ReadReady,
              Makes, Borrows
<1> QED BY <1>1, <1>2, QuietFiles

LEMMA AnswerFiles ==
  ASSUME Inv, FileInv, UNCHANGED <<link, bytes, disk, objects, uploads>>,
         NEW p \in Proc, NEW code \in Code, Answer(p, code),
         req[p].op = "get" => code # "ok"
  PROVE  FileInv'
<1> DEFINE r == [req[p] EXCEPT !.pc = "reply", !.code = code]
<1>1. req' = [req EXCEPT ![p] = r]
  BY DEF Answer
<1>2. req[p] \in Request /\ (req[p].op = "put" => req[p].body \in PutBodies)
  BY RequestFacts DEF Inv, FileInv, HandlersReady, Ready, PutReady
<1>3. /\ r.pc = "reply" /\ r.code = code /\ r.op = req[p].op
      /\ r.body = req[p].body
  BY <1>2 DEF Request
<1> HIDE DEF r
<1> QED BY <1>1, <1>2, <1>3, SpentFiles DEF Makes, Borrows, Reads

LEMMA RefuseFiles ==
  ASSUME Inv, FileInv, UNCHANGED <<link, bytes, disk, objects, uploads>>,
         NEW p \in Proc, NEW s \in Request, NEW code \in Code,
         Refuse(p, s, code), s.op = "get" => code # "ok",
         s.op = "put" => s.body \in PutBodies
  PROVE  FileInv'
<1> DEFINE r == [s EXCEPT !.pc = "reply", !.code = code]
<1>1. req' = [req EXCEPT ![p] = r]
  BY DEF Refuse
<1>2. r.pc = "reply" /\ r.code = code /\ r.op = s.op /\ r.body = s.body
  BY DEF Request
<1> HIDE DEF r
<1> QED BY <1>1, <1>2, SpentFiles DEF Makes, Borrows, Reads

(* A request that starts without a blob.                                   *)
LEMMA EnterFiles ==
  ASSUME Inv, FileInv, UNCHANGED <<link, bytes, disk, objects, uploads>>,
         NEW p \in Proc, NEW s \in Request, NEW pc \in PC, Enter(p, s, pc),
         \/ s.op = "get" /\ pc = "row" /\ s.body = << >>
         \/ s.op \in {"delete", "deleteBucket", "abort"}
         \/ s.op \in {"put", "createUpload"} /\ pc = "create",
         s.op = "put" => s.body \in PutBodies
  PROVE  FileInv'
<1> DEFINE r == [s EXCEPT !.pc = pc]
<1>1. req' = [req EXCEPT ![p] = r]
  BY DEF Enter
<1>2. r.pc = pc /\ r.op = s.op /\ r.body = s.body
  BY DEF Request
<1> HIDE DEF r
<1> QED BY <1>1, <1>2, SpentFiles DEF Makes, Borrows, Reads

(* It starts, or it is refused.                                            *)
LEMMA EnterUnlessFiles ==
  ASSUME Inv, FileInv, UNCHANGED <<link, bytes, disk, objects, uploads>>,
         NEW p \in Proc, NEW s \in Request, NEW pc \in PC, NEW refusals,
         EnterUnless(p, s, refusals, pc), refusals \subseteq Refusals,
         \/ s.op = "get" /\ pc = "row" /\ s.body = << >>
         \/ s.op \in {"delete", "deleteBucket", "abort"}
         \/ s.op \in {"put", "createUpload"} /\ pc = "create",
         s.op = "put" => s.body \in PutBodies
  PROVE  FileInv'
BY EnterOrRefuse, EnterFiles, RefuseFiles DEF Refusals

(* A handler that fails gives up the blob it made.                         *)
LEMMA GiveUpFiles ==
  ASSUME Inv, FileInv, UNCHANGED <<link, bytes, disk, objects, uploads>>,
         NEW p \in Proc, NEW code \in Code, req[p].op # "get",
         NEW id \in BlobId \cup {None}, RemoveThenAnswer(p, id, code)
  PROVE  FileInv'
<1> DEFINE r == [req[p] EXCEPT !.pc = IF id = None THEN "reply" ELSE "remove",
                              !.blob = id, !.code = code]
<1>1. req' = [req EXCEPT ![p] = r]
  BY DEF RemoveThenAnswer
<1>2. req[p] \in Request /\ (req[p].op = "put" => req[p].body \in PutBodies)
  BY RequestFacts DEF Inv, FileInv, HandlersReady, Ready, PutReady
<1>3. r.pc \in {"reply", "remove"} /\ r.op = req[p].op /\ r.body = req[p].body
  BY <1>2 DEF Request
<1> HIDE DEF r
<1> QED BY <1>1, <1>2, <1>3, SpentFiles DEF Makes, Borrows, Reads

LEMMA RemoveBlobFiles ==
  ASSUME Inv, FileInv, NEW p \in Proc, RemoveBlob(p)
  PROVE  FileInv'
<1> DEFINE r == [req[p] EXCEPT !.pc = "reply"]
<1>1. /\ req' = [req EXCEPT ![p] = r]
      /\ UNCHANGED <<bytes, disk, objects, uploads>>
      /\ \A id \in BlobId : link[id] # "unused" => link'[id] # "unused"
  <2>1. req[p].blob \in BlobId /\ link \in [BlobId -> LinkState]
    BY RequestFacts DEF Inv, Shape, RemoveBlob, Typing, BlobTypeOK
  <2> QED BY <2>1 DEF RemoveBlob, Remove, Goto, Present, blobVars, metaVars
<1>2. /\ req[p] \in Request /\ (req[p].op = "put" => req[p].body \in PutBodies)
      /\ req[p].op # "get"
  BY RequestFacts
     DEF Inv, FileInv, HandlersReady, Ready, PutReady, ReadReady, RemoveBlob
<1>3. r.pc = "reply" /\ r.op = req[p].op /\ r.body = req[p].body
  BY <1>2 DEF Request
<1> HIDE DEF r
<1> QED BY <1>1, <1>2, <1>3, SpentFiles DEF Makes, Borrows, Reads

LEMMA DropFiles ==
  ASSUME Inv, FileInv, UNCHANGED <<link, bytes, disk, objects, uploads>>,
         NEW p \in Proc, Drop(p)
  PROVE  FileInv'
BY SpentFiles DEF Drop, Idle, Makes, Borrows, Reads

(* A drawn id's file is empty, and nobody else has the id.                 *)
LEMMA CreateBlobFiles ==
  ASSUME Inv, FileInv, NEW p \in Proc, NEW next \in {"write", "commit"},
         CreateBlob(p, next), req[p].op = "put" => next = "write",
         req[p].op = "createUpload" => next = "commit"
  PROVE  FileInv'
<1>1. PICK id \in BlobId :
        Create(id) /\ req' = [req EXCEPT ![p].pc = next, ![p].blob = id]
  BY DEF CreateBlob
<1>2. PICK r : r = [req[p] EXCEPT !.pc = next, !.blob = id]
  OBVIOUS
<1>3. /\ UNCHANGED <<bytes, disk, objects, uploads>> /\ link[id] = "unused"
      /\ \A b \in BlobId : link[b] # "unused" => link'[b] # "unused"
      /\ req' = [req EXCEPT ![p] = r]
      /\ req[p].op \in {"put", "createUpload"}
      /\ req[p] \in Request
      /\ req[p].op = "put" => req[p].body \in PutBodies
  <2>1. link \in [BlobId -> LinkState]
    BY DEF Inv, Typing, BlobTypeOK
  <2>2. req[p].pc = "create" /\ Shape(req[p]) /\ req[p] \in Request
    BY RequestFacts DEF CreateBlob, Inv
  <2>3. req[p].op = "put" => req[p].body \in PutBodies
    BY DEF FileInv, HandlersReady, Ready, PutReady
  <2> QED BY <1>2, <1>1, <2>1, <2>2, <2>3 DEF CreateBlob, Create, metaVars, Shape
<1>4. r.pc = next /\ r.blob = id /\ r.op = req[p].op /\ r.body = req[p].body
  BY <1>2, <1>3 DEF Request
<1>5. bytes[id] = Empty /\ disk[id] = Empty
  BY <1>3 DEF FileInv, UnusedEmpty
<1>6. Ready(r)'
  BY <1>3, <1>4, <1>5
     DEF Ready, PutReady, SessionReady, PartReady, CompleteReady, ReadReady, Writes
<1>7. ~Borrows(r) /\ ~Reads(r) /\ ~Writes(r)
  BY <1>3, <1>4 DEF Borrows, Reads, Writes
<1>8. \A q \in Proc \ {p} : Borrows(req[q]) \/ Reads(req[q]) => req[q].blob # id
  BY <1>3 DEF Inv, RefInv, BorrowedFromSession, FileInv, HandlersReady, Ready,
              ReadReady, Reads
<1> QED BY <1>3, <1>4, <1>6, <1>7, <1>8, QuietFiles

(* A create that fails leaves at most an empty file that nobody has.        *)
LEMMA CreateBlobFailsFiles ==
  ASSUME Inv, FileInv, NEW p \in Proc, CreateBlobFails(p)
  PROVE  FileInv'
<1> DEFINE r == [req[p] EXCEPT !.pc = "reply", !.code = "internal"]
<1>1. /\ req' = [req EXCEPT ![p] = r]
      /\ UNCHANGED <<bytes, disk, objects, uploads>>
      /\ \A id \in BlobId : link[id] # "unused" => link'[id] # "unused"
  <2>1. link \in [BlobId -> LinkState]
    BY DEF Inv, Typing, BlobTypeOK
  <2> QED BY <2>1 DEF CreateBlobFails, Create, Answer, blobVars, metaVars
<1>2. /\ req[p] \in Request /\ (req[p].op = "put" => req[p].body \in PutBodies)
      /\ req[p].op # "get"
  BY RequestFacts
     DEF Inv, FileInv, HandlersReady, Ready, PutReady, ReadReady, CreateBlobFails
<1>3. r.pc = "reply" /\ r.op = req[p].op /\ r.body = req[p].body
  BY <1>2 DEF Request
<1> HIDE DEF r
<1> QED BY <1>1, <1>2, <1>3, SpentFiles DEF Makes, Borrows, Reads

----------------------------------------------------------------------------
(* The handlers.                                                           *)

(* Between the draw of its id and its commit, the blob of a put is written *)
(* and synced by its handler alone.                                        *)
LEMMA PutObjectStoreFiles ==
  ASSUME Inv, FileInv, NEW p \in Proc,
         PutObjectWrite(p) \/ PutObjectShort(p) \/ PutObjectSync(p)
  PROVE  FileInv'
<1> USE DEF blobVars, metaVars
<1> DEFINE own == req[p].blob
<1>1. /\ Makes(req[p]) /\ own \in BlobId /\ own # None
      /\ req[p].op = "put" /\ req[p] \in Request /\ req[p].body \in PutBodies
      /\ UNCHANGED <<objects, uploads>>
  <2>1. Makes(req[p]) /\ req[p].op = "put" /\ UNCHANGED <<objects, uploads>>
    BY DEF PutObjectWrite, PutObjectShort, PutObjectSync, Makes
  <2> QED BY <2>1, RequestFacts, NoneAssumption
          DEF Inv, Shape, Makes, FileInv, HandlersReady, Ready, PutReady
<1>2. /\ link \in [BlobId -> LinkState] /\ bytes \in [BlobId -> File]
      /\ disk \in [BlobId -> File]
  BY DEF Inv, Typing, BlobTypeOK
<1>3. PutReady(req[p])
  BY DEF FileInv, HandlersReady, Ready
<1>4. CASE PutObjectWrite(p)
  <2>0. PICK r : r = [req[p] EXCEPT !.pc = "sync"]
    OBVIOUS
  <2>1. /\ r.pc = "sync" /\ r.op = "put" /\ r.blob = own
        /\ r.body = req[p].body
    BY <1>1, <2>0 DEF Request
  <2>2. /\ req' = [req EXCEPT ![p] = r] /\ UNCHANGED <<link, disk>>
        /\ bytes' = [bytes EXCEPT ![own] = Overlay(bytes[own], 0, req[p].body)]
        /\ req[p].pc = "write"
    BY <1>4, <2>0 DEF PutObjectWrite, Goto, Write
  <2>3. bytes'[own] = Overlay(Empty, 0, r.body)
    BY <1>1, <1>2, <1>3, <2>1, <2>2 DEF PutReady
  <2>4. Ready(r)'
    BY <1>1, <2>1, <2>3
       DEF Ready, PutReady, SessionReady, PartReady, CompleteReady, ReadReady, Writes
  <2> QED BY <1>1, <1>2, <2>1, <2>2, <2>4, PrivateFiles
<1>5. CASE PutObjectShort(p)
  <2>1. PICK code \in Code : RemoveThenAnswer(p, own, code)
    BY <1>5 DEF PutObjectShort, Code
  <2>2. PICK k \in 0..Len(req[p].body) :
          Write(own, 0, SubSeq(req[p].body, 1, k))
    BY <1>5 DEF PutObjectShort
  <2>3. PICK r : r = [req[p] EXCEPT !.pc = "remove", !.blob = own, !.code = code]
    OBVIOUS
  <2>4. /\ r.pc = "remove" /\ r.op = "put" /\ r.blob = own
        /\ r.body = req[p].body
    BY <1>1, <2>3 DEF Request
  <2>5. req' = [req EXCEPT ![p] = r]
    BY <1>1, <2>1, <2>3 DEF RemoveThenAnswer
  <2>6. /\ UNCHANGED <<link, disk>>
        /\ \A id \in BlobId \ {own} : bytes'[id] = bytes[id]
    BY <1>2, <2>2 DEF Write
  <2>7. Ready(r)'
    BY <1>1, <2>4
       DEF Ready, PutReady, SessionReady, PartReady, CompleteReady, ReadReady, Writes
  <2> QED BY <1>1, <2>4, <2>5, <2>6, <2>7, PrivateFiles
<1>6. CASE PutObjectSync(p)
  <2>1. /\ Sync(own) /\ req[p].pc = "sync"
        /\ \/ Goto(p, "commit")
           \/ RemoveThenAnswer(p, own, "checksum_mismatch")
    BY <1>6 DEF PutObjectSync
  <2>2. PICK r : /\ req' = [req EXCEPT ![p] = r]
                 /\ r.pc \in {"commit", "remove"} /\ r.op = "put"
                 /\ r.blob = own /\ r.body = req[p].body
    <3>1. PICK s : s = [req[p] EXCEPT !.pc = "commit"]
      OBVIOUS
    <3>2. PICK t : t = [req[p] EXCEPT !.pc = "remove", !.blob = own,
                                      !.code = "checksum_mismatch"]
      OBVIOUS
    <3>3. req' = [req EXCEPT ![p] = s] \/ req' = [req EXCEPT ![p] = t]
      BY <1>1, <2>1, <3>1, <3>2 DEF Goto, RemoveThenAnswer
    <3>4. /\ s.pc = "commit" /\ s.op = "put" /\ s.blob = own
          /\ s.body = req[p].body
          /\ t.pc = "remove" /\ t.op = "put" /\ t.blob = own
          /\ t.body = req[p].body
      BY <1>1, <3>1, <3>2 DEF Request
    <3> QED BY <3>3, <3>4
  <2>3. /\ UNCHANGED bytes /\ disk' = [disk EXCEPT ![own] = bytes[own]]
        /\ \A id \in BlobId : link'[id] = "unused" <=> link[id] = "unused"
    BY <1>1, <1>2, <2>1 DEF Sync, Present
  <2>4. bytes'[own] = Overlay(Empty, 0, r.body) /\ disk'[own] = bytes'[own]
    BY <1>1, <1>2, <1>3, <2>1, <2>2, <2>3 DEF PutReady
  <2>5. Ready(r)'
    BY <1>1, <2>2, <2>4
       DEF Ready, PutReady, SessionReady, PartReady, CompleteReady, ReadReady, Writes
  <2> QED BY <1>1, <1>2, <2>2, <2>3, <2>5, PrivateFiles
<1> QED BY <1>4, <1>5, <1>6

(* The row that putObject commits promises what its file holds.            *)
LEMMA PutObjectCommitFiles ==
  ASSUME Inv, FileInv, NEW p \in Proc, PutObjectCommit(p)
  PROVE  FileInv'
<1> DEFINE own == req[p].blob
           n == req[p].name
           row == [blob |-> own, sum |-> req[p].body]
<1>1. /\ req[p].op = "put" /\ req[p].pc = "commit"
      /\ Makes(req[p]) /\ own \in BlobId /\ n \in Name /\ req[p] \in Request
      /\ PutReady(req[p])
  BY RequestFacts
     DEF PutObjectCommit, Inv, Shape, Makes, FileInv, HandlersReady, Ready
<1>2. /\ UNCHANGED <<link, bytes, disk, uploads>>
      /\ objects' = [objects EXCEPT ![n] = row]
      /\ objects \in [Name -> ObjectRow]
      /\ RemoveThenAnswer(p, objects[n].blob, "ok")
  BY DEF PutObjectCommit, PutObject, blobVars, Inv, Typing, MetaTyping, MetaTypeOK
<1>3. Content(bytes[own]) = req[p].body /\ disk[own] = bytes[own]
  <2>1. req[p].body \in Seq(Byte) /\ Len(req[p].body) <= FileLen
    BY <1>1, BodyAssumption DEF PutReady
  <2> QED BY <1>1, <2>1, BodyContent DEF PutReady
<1>4. \A q \in Proc : Writes(req[q]) => req[q].blob # own
  BY <1>1 DEF FileInv, MadeAlone, Writes, Borrows
<1>5. PICK r : r = [req[p] EXCEPT
                      !.pc = IF objects[n].blob = None THEN "reply" ELSE "remove",
                      !.blob = objects[n].blob, !.code = "ok"]
  OBVIOUS
<1>6. /\ r.pc \in {"reply", "remove"} /\ r.op = "put" /\ r.body \in PutBodies
      /\ req' = [req EXCEPT ![p] = r]
  BY <1>1, <1>2, <1>5 DEF Request, RemoveThenAnswer, PutReady
<1>7. row.blob = own /\ row.sum = req[p].body
  OBVIOUS
<1> HIDE DEF row, n
<1>8. \A m \in Name : objects'[m] = IF m = n THEN row ELSE objects[m]
  BY <1>1, <1>2
<1> QED BY <1>1, <1>2, <1>3, <1>4, <1>6, <1>7, <1>8, TableFiles

LEMMA PutObjectFiles ==
  ASSUME Inv, FileInv, NEW p \in Proc, putObject(p)
  PROVE  FileInv'
<1> USE DEF blobVars, metaVars
<1>1. CASE PutObjectBegin(p)
  <2> DEFINE R(n, body, want) ==
        [Idle EXCEPT !.op = "put", !.bucket = n[1], !.name = n,
                     !.body = body, !.want = want]
  <2>1. PICK n \in Name, body \in PutBodies :
          \E want \in Declared(body, PutBodies) :
            EnterUnless(p, R(n, body, want), BucketRefusal(n[1]), "create")
    BY <1>1 DEF PutObjectBegin
  <2>2. PICK want \in Declared(body, PutBodies) :
            EnterUnless(p, R(n, body, want), BucketRefusal(n[1]), "create")
    BY <2>1
  <2>3. body \in Seq(Data) /\ want \in Seq(Data) /\ n[1] \in Bucket
    BY BodyTypes DEF Declared, Name
  <2>4. /\ R(n, body, want) \in Request /\ R(n, body, want).op = "put"
        /\ R(n, body, want).body = body
    BY <2>3, IdleTyping DEF Request, AllOps, Idle
  <2> HIDE DEF R
  <2> QED BY <1>1, <2>2, <2>4, BucketRefusals, EnterUnlessFiles
          DEF PutObjectBegin, PC
<1>2. CASE PutObjectCreate(p)
  BY <1>2, CreateBlobFiles DEF PutObjectCreate
<1>3. CASE PutObjectWrite(p) \/ PutObjectShort(p) \/ PutObjectSync(p)
  BY <1>3, PutObjectStoreFiles
<1>4. CASE PutObjectSyncFails(p)
  BY <1>4, GiveUpFiles, RequestFacts DEF PutObjectSyncFails, Code, Inv
<1>5. CASE PutObjectCommit(p)
  BY <1>5, PutObjectCommitFiles
<1>6. CASE PutObjectCommitFails(p)
  BY <1>6, AnswerFiles DEF PutObjectCommitFails, Code
<1> QED BY <1>1, <1>2, <1>3, <1>4, <1>5, <1>6 DEF putObject

(* A reader that knows a blob from a row finds the row's version in it     *)
(* until it has sent it, whatever became of the row.                       *)
LEMMA GetObjectFiles ==
  ASSUME Inv, FileInv, NEW p \in Proc, getObject(p)
  PROVE  FileInv'
<1> USE DEF blobVars, metaVars
<1>0. req[p] \in Request /\ Shape(req[p]) /\ Ready(req[p])
  BY RequestFacts DEF Inv, FileInv, HandlersReady
<1>1. CASE GetObjectBegin(p)
  <2> DEFINE R(n) == [Idle EXCEPT !.op = "get", !.bucket = n[1], !.name = n]
  <2>1. PICK n \in Name : EnterUnless(p, R(n), BucketRefusal(n[1]), "row")
    BY <1>1 DEF GetObjectBegin
  <2>2. n[1] \in Bucket
    BY DEF Name
  <2>3. R(n) \in Request /\ R(n).op = "get" /\ R(n).body = << >>
    BY <2>2, IdleTyping DEF Request, AllOps, Idle
  <2> HIDE DEF R
  <2> QED BY <1>1, <2>1, <2>3, BucketRefusals, EnterUnlessFiles
          DEF GetObjectBegin, PC
<1>2. CASE GetObjectRow(p)
  <2> DEFINE n == req[p].name
             row == objects[n]
  <2>1. /\ req[p].op = "get" /\ n \in Name
        /\ UNCHANGED <<link, bytes, disk, objects, uploads>>
    BY <1>0, <1>2 DEF GetObjectRow, Shape
  <2>2. CASE \E code \in Code \ {"ok"} : Answer(p, code)
    BY <2>1, <2>2, AnswerFiles
  <2>3. CASE /\ row.blob # None
             /\ req' = [req EXCEPT ![p].pc = "open", ![p].blob = row.blob,
                                   ![p].want = row.sum]
    <3>0. PICK r : r = [req[p] EXCEPT !.pc = "open", !.blob = row.blob,
                                      !.want = row.sum]
      OBVIOUS
    <3>1. /\ r.op = "get" /\ r.pc = "open" /\ r.blob = row.blob
          /\ r.want = row.sum /\ r.body = << >> /\ req' = [req EXCEPT ![p] = r]
      BY <1>0, <1>2, <2>1, <2>3, <3>0
         DEF GetObjectRow, Request, Ready, ReadReady
    <3>2. /\ Content(bytes[row.blob]) = row.sum
          /\ link[row.blob] # "unused"
          /\ \A u \in UploadId : uploads[u].blob # row.blob
      BY <2>1, <2>3 DEF FileInv, ObjectIntact, Inv, RefInv, ObjectsKept, Kept
    <3>3. Ready(r)'
      BY <2>1, <3>1, <3>2
         DEF Ready, PutReady, SessionReady, PartReady, CompleteReady, ReadReady,
             Writes, Reads
    <3>4. \A q \in Proc : Makes(req[q]) => req[q].blob # row.blob
      BY <2>1 DEF Inv, RefInv, HeldAlone, Makes, Holds
    <3>5. \A q \in Proc : Writes(req[q]) /\ req[q].blob = row.blob =>
                            bytes[row.blob] = Image(req[q].upload)
      BY <2>1 DEF FileInv, LateParts
    <3>6. ~Makes(r) /\ ~Borrows(r) /\ ~Writes(r)
      BY <3>1 DEF Makes, Borrows, Writes
    <3> HIDE DEF row
    <3> QED BY <2>1, <3>1, <3>3, <3>4, <3>5, <3>6, QuietFiles
  <2> QED BY <1>2, <2>2, <2>3 DEF GetObjectRow, StoreErrors, Code
<1>3. ASSUME Reads(req[p]), UNCHANGED <<link, bytes, disk, objects, uploads>>,
             NEW r, req' = [req EXCEPT ![p] = r],
             r.op = "get", r.pc = "serve", r.blob = req[p].blob,
             r.want = req[p].want, r.size = Len(r.want), Len(r.body) <= r.size,
             \A i \in 1..Len(r.body) : r.body[i] = r.want[i]
      PROVE  FileInv'
  <2>1. Reads(r) /\ ~Makes(r) /\ ~Borrows(r) /\ ~Writes(r)
    BY <1>3 DEF Reads, Makes, Borrows, Writes
  <2>2. Ready(r)'
    BY <1>0, <1>3, <2>1
       DEF Ready, PutReady, SessionReady, PartReady, CompleteReady, ReadReady,
           Writes, Reads
  <2>3. /\ \A q \in Proc : Makes(req[q]) => req[q].blob # r.blob
        /\ \A q \in Proc : Writes(req[q]) /\ req[q].blob = r.blob =>
                             bytes[r.blob] = Image(req[q].upload)
    BY <1>3 DEF FileInv, MadeAlone, LateParts
  <2> QED BY <1>3, <2>1, <2>2, <2>3, QuietFiles
<1> DEFINE f == bytes[req[p].blob]
           want == req[p].want
<1>4. ASSUME Reads(req[p])
      PROVE  /\ f \in File /\ Extent(f) \in 0..FileLen
             /\ want = [i \in 1..Extent(f) |-> f[i]] /\ Len(want) = Extent(f)
  <2>1. f \in File /\ want = Content(f)
    BY <1>0, <1>4 DEF Shape, Reads, Inv, Typing, BlobTypeOK, Ready, ReadReady
  <2>2. Extent(f) \in 0..FileLen
    BY <2>1, ExtentFacts
  <2> HIDE DEF f, want
  <2> QED BY <2>1, <2>2, FileLenType DEF Content
<1>5. CASE GetObjectOpen(p)
  <2>1. /\ req[p].op = "get" /\ req[p].pc = "open" /\ Reads(req[p])
        /\ UNCHANGED <<link, bytes, disk, objects, uploads>>
        /\ \/ req' = [req EXCEPT ![p].pc = "serve", ![p].size = Extent(f)]
           \/ Answer(p, "internal")
    BY <1>5 DEF GetObjectOpen, Reads
  <2>2. CASE req' = [req EXCEPT ![p].pc = "serve", ![p].size = Extent(f)]
    <3>0. PICK r : r = [req[p] EXCEPT !.pc = "serve", !.size = Extent(f)]
      OBVIOUS
    <3>1. /\ r.op = "get" /\ r.pc = "serve" /\ r.blob = req[p].blob
          /\ r.want = want /\ r.size = Extent(f) /\ r.body = << >>
          /\ req' = [req EXCEPT ![p] = r]
      BY <1>0, <2>1, <2>2, <3>0 DEF Request, Ready, ReadReady
    <3>2. /\ r.size = Len(r.want) /\ Len(r.body) <= r.size
          /\ \A i \in 1..Len(r.body) : r.body[i] = r.want[i]
      <4>1. Extent(f) = Len(want) /\ Extent(f) \in Nat /\ Len(<< >>) = 0
        BY <1>4, <2>1, FileLenType
      <4> HIDE DEF f, want
      <4> QED BY <3>1, <4>1
    <3> HIDE DEF f
    <3> QED BY <1>3, <2>1, <3>1, <3>2
  <2>3. CASE Answer(p, "internal")
    BY <2>1, <2>3, AnswerFiles DEF Code
  <2> QED BY <2>1, <2>2, <2>3
<1>6. ASSUME req[p].op = "get", req[p].pc = "serve"
      PROVE  /\ Reads(req[p]) /\ req[p].size = Len(want)
             /\ Len(req[p].body) <= req[p].size
             /\ \A i \in 1..Len(req[p].body) : req[p].body[i] = want[i]
             /\ req[p].body \in Seq(Data) /\ Len(req[p].body) \in Nat
  BY <1>0, <1>6 DEF Reads, Ready, ReadReady, Request
(* One byte more of the file, which is the row's.                          *)
<1>7. CASE GetObjectServe(p)
  <2> DEFINE k == Len(req[p].body) + 1
             next == f[k]
  <2>1. /\ req[p].op = "get" /\ req[p].pc = "serve" /\ Len(req[p].body) < req[p].size
        /\ UNCHANGED <<link, bytes, disk, objects, uploads>>
        /\ req' = [req EXCEPT ![p].body = Append(@, next)]
    BY <1>7 DEF GetObjectServe
  <2>2. k \in 1..Extent(f) /\ next = want[k]
    <3> HIDE DEF f, want
    <3> QED BY <1>4, <1>6, <2>1, FileLenType
  <2> DEFINE sent == Append(req[p].body, next)
  <2> HIDE DEF next
  <2>3. /\ Len(sent) = k /\ k <= req[p].size
        /\ \A i \in 1..Len(sent) : sent[i] = want[i]
    <3>1. k \in 1..FileLen /\ next \in Data
      BY <1>4, <1>6, <2>1, <2>2, FileLenType DEF File, next
    <3>2. /\ Len(sent) = k
          /\ \A i \in 1..k : sent[i] = IF i = k THEN next ELSE req[p].body[i]
      BY <1>6, <2>1, <3>1
    <3> HIDE DEF f, want, sent
    <3> QED BY <1>4, <1>6, <2>1, <2>2, <3>2
  <2>4. PICK r : r = [req[p] EXCEPT !.body = sent]
    OBVIOUS
  <2>5. /\ r.op = "get" /\ r.pc = "serve" /\ r.blob = req[p].blob
        /\ r.want = want /\ r.size = req[p].size /\ r.body = sent
        /\ req' = [req EXCEPT ![p] = r]
    BY <1>0, <2>1, <2>4 DEF Request
  <2>6. /\ r.size = Len(r.want) /\ Len(r.body) <= r.size
        /\ \A i \in 1..Len(r.body) : r.body[i] = r.want[i]
    <3> HIDE DEF sent, want, k
    <3> QED BY <1>6, <2>1, <2>3, <2>5
  <2> HIDE DEF sent
  <2> QED BY <1>3, <1>6, <2>1, <2>5, <2>6
<1>8. CASE GetObjectServed(p)
  <2>0. PICK r : r = [req[p] EXCEPT !.pc = "reply", !.code = "ok"]
    OBVIOUS
  <2>1. /\ req[p].op = "get" /\ req[p].pc = "serve" /\ Len(req[p].body) = req[p].size
        /\ UNCHANGED <<link, bytes, disk, objects, uploads>>
        /\ req' = [req EXCEPT ![p] = r]
    BY <1>8, <2>0 DEF GetObjectServed, Answer
  <2>2. /\ r.op = "get" /\ r.pc = "reply" /\ r.body = req[p].body
        /\ r.want = want
    BY <1>0, <2>0, <2>1 DEF Request
  <2>3. req[p].body = want
    <3>1. /\ req[p].body = [i \in 1..Len(req[p].body) |-> req[p].body[i]]
          /\ want = [i \in 1..Len(want) |-> want[i]]
      <4>1. want \in Seq(Data)
        BY <1>0 DEF Request
      <4> HIDE DEF want
      <4> QED BY <1>6, <2>1, <4>1
    <3> QED BY <1>6, <2>1, <3>1
  <2> QED BY <2>1, <2>2, <2>3, SpentFiles DEF Makes, Borrows, Reads
<1> QED BY <1>1, <1>2, <1>5, <1>7, <1>8 DEF getObject

LEMMA DeleteObjectFiles ==
  ASSUME Inv, FileInv, NEW p \in Proc, deleteObject(p)
  PROVE  FileInv'
<1> USE DEF blobVars, metaVars
<1>1. CASE DeleteObjectBegin(p)
  <2> DEFINE R(n) == [Idle EXCEPT !.op = "delete", !.bucket = n[1], !.name = n]
  <2>1. PICK n \in Name : EnterUnless(p, R(n), BucketRefusal(n[1]), "commit")
    BY <1>1 DEF DeleteObjectBegin
  <2>2. n[1] \in Bucket
    BY DEF Name
  <2>3. R(n) \in Request /\ R(n).op = "delete"
    BY <2>2, IdleTyping DEF Request, AllOps, Idle
  <2> HIDE DEF R
  <2> QED BY <1>1, <2>1, <2>3, BucketRefusals, EnterUnlessFiles
          DEF DeleteObjectBegin, PC
<1>2. CASE DeleteObjectCommit(p)
  <2> DEFINE n == req[p].name
  <2>1. /\ n \in Name /\ UNCHANGED <<link, bytes, disk>> /\ req[p].op = "delete"
        /\ req[p] \in Request
    BY <1>2, RequestFacts DEF Inv, DeleteObjectCommit, Shape
  <2>2. CASE DeleteObject(n) /\ RemoveThenAnswer(p, objects[n].blob, "ok")
    <3>0. PICK r : r = [req[p] EXCEPT
                  !.pc = IF objects[n].blob = None THEN "reply" ELSE "remove",
                  !.blob = objects[n].blob, !.code = "ok"]
      OBVIOUS
    <3>1. /\ r.pc \in {"reply", "remove"} /\ r.op = "delete"
          /\ req' = [req EXCEPT ![p] = r]
      BY <2>1, <2>2, <3>0 DEF Request, RemoveThenAnswer
    <3>2. /\ UNCHANGED uploads
          /\ objects' = [objects EXCEPT ![n] = NoObject]
          /\ NoObject.blob = None
          /\ objects \in [Name -> ObjectRow]
      BY <2>2 DEF DeleteObject, NoObject, Inv, Typing, MetaTyping, MetaTypeOK
    <3> HIDE DEF n
    <3>3. \A m \in Name : objects'[m].blob # None => objects'[m] = objects[m]
      BY <2>1, <3>2
    <3> QED BY <2>1, <3>1, <3>2, <3>3, TableFiles
  <2>3. CASE UNCHANGED metaVars /\ \E code \in Code : Answer(p, code)
    BY <2>1, <2>3, AnswerFiles
  <2> QED BY <1>2, <2>2, <2>3 DEF DeleteObjectCommit, Code
<1> QED BY <1>1, <1>2 DEF deleteObject

LEMMA BucketFiles ==
  ASSUME Inv, FileInv, NEW p \in Proc, createBucket(p) \/ deleteBucket(p)
  PROVE  FileInv'
<1> USE DEF blobVars, metaVars
<1>1. CASE createBucket(p)
  <2> DEFINE R(b) == [Idle EXCEPT !.op = "createBucket", !.bucket = b]
  <2>1. PICK b \in Bucket :
          \/ CreateBucket(b) /\ Refuse(p, R(b), "ok")
          \/ UNCHANGED metaVars /\ \E code \in Code : Refuse(p, R(b), code)
    BY <1>1 DEF createBucket, StoreErrors, Code
  <2>2. R(b) \in Request /\ R(b).op = "createBucket"
    BY IdleTyping DEF Request, AllOps, Idle
  <2> HIDE DEF R
  <2> QED BY <1>1, <2>1, <2>2, RefuseFiles DEF createBucket, CreateBucket, Code
<1>2. CASE DeleteBucketBegin(p)
  <2> DEFINE R(b) == [Idle EXCEPT !.op = "deleteBucket", !.bucket = b]
  <2>1. PICK b \in Bucket :
          \E refusals \in SUBSET {"bucket_not_empty"} :
            EnterUnless(p, R(b), refusals, "count")
    BY <1>2 DEF DeleteBucketBegin
  <2>2. R(b) \in Request /\ R(b).op = "deleteBucket"
    BY IdleTyping DEF Request, AllOps, Idle
  <2>3. \A refusals \in SUBSET {"bucket_not_empty"} : refusals \subseteq Refusals
    BY DEF Refusals, Code
  <2> HIDE DEF R
  <2> QED BY <1>2, <2>1, <2>2, <2>3, EnterUnlessFiles
          DEF DeleteBucketBegin, PC
<1>3. CASE DeleteBucketCount(p)
  <2>1. PICK r : r = [req[p] EXCEPT !.pc = "commit"]
    OBVIOUS
  <2>2. /\ r.op = "deleteBucket" /\ req[p].op = "deleteBucket"
        /\ UNCHANGED <<link, bytes, disk, objects, uploads>>
        /\ req' = [req EXCEPT ![p] = r] \/ \E code \in Code : Answer(p, code)
    BY <1>3, <2>1, RequestFacts
       DEF DeleteBucketCount, Goto, Inv, Request, StoreErrors, Code
  <2> QED BY <2>2, SpentFiles, AnswerFiles DEF Makes, Borrows, Reads
<1>4. CASE DeleteBucketCommit(p)
  BY <1>4, AnswerFiles DEF DeleteBucketCommit, DeleteBucket, Code
<1> QED BY <1>1, <1>2, <1>3, <1>4 DEF deleteBucket

LEMMA EmptyIsPartial == \A u \in UploadId : Partial(u, Empty)
BY DEF Partial, Empty

(* A session starts with an empty file that only its parts will write.     *)
LEMMA CreateUploadFiles ==
  ASSUME Inv, FileInv, NEW p \in Proc, createUpload(p)
  PROVE  FileInv'
<1> USE DEF blobVars, metaVars
<1>1. CASE CreateUploadBegin(p)
  <2> DEFINE R(n) == [Idle EXCEPT !.op = "createUpload", !.bucket = n[1],
                                  !.name = n]
  <2>1. PICK n \in Name : EnterUnless(p, R(n), BucketRefusal(n[1]), "create")
    BY <1>1 DEF CreateUploadBegin
  <2>2. n[1] \in Bucket
    BY DEF Name
  <2>3. R(n) \in Request /\ R(n).op = "createUpload"
    BY <2>2, IdleTyping DEF Request, AllOps, Idle
  <2> HIDE DEF R
  <2> QED BY <1>1, <2>1, <2>3, BucketRefusals, EnterUnlessFiles
          DEF CreateUploadBegin, PC
<1>2. CASE CreateUploadCreate(p)
  BY <1>2, CreateBlobFiles DEF CreateUploadCreate
<1>3. CASE CreateUploadCommit(p)
  <2> DEFINE own == req[p].blob
  <2>1. /\ req[p].op = "createUpload" /\ req[p].pc = "commit"
        /\ req[p] \in Request /\ own \in BlobId
        /\ Makes(req[p]) /\ SessionReady(req[p])
        /\ UNCHANGED <<link, bytes, disk>>
    BY <1>3, RequestFacts DEF CreateUploadCommit, Inv, Shape, Makes, FileInv,
                              HandlersReady, Ready
  <2>2. ASSUME NEW u \in UploadId, CreateUpload(u, own, req[p].name),
               Answer(p, "ok")
        PROVE  FileInv'
    <3> DEFINE row == [state |-> "active", blob |-> own, name |-> req[p].name,
                       parts |-> NoParts]
    <3>0. PICK r : r = [req[p] EXCEPT !.pc = "reply", !.code = "ok"]
      OBVIOUS
    <3>1. /\ r.pc = "reply" /\ r.op = "createUpload"
          /\ req' = [req EXCEPT ![p] = r]
      BY <2>1, <2>2, <3>0 DEF Request, Answer
    <3>2. /\ UNCHANGED objects /\ uploads' = [uploads EXCEPT ![u] = row]
          /\ uploads \in [UploadId -> UploadRow]
      BY <2>2 DEF CreateUpload, Inv, Typing, MetaTyping, MetaTypeOK
    <3>3. SteadyRow(u, row) /\ row.blob = own
      BY <2>1, EmptyIsPartial DEF SteadyRow, SessionReady, NoParts
    <3>4. \A q \in Proc : Reads(req[q]) \/ Borrows(req[q]) => req[q].blob # own
      BY <2>1 DEF FileInv, MadeAlone
    <3> HIDE DEF row
    <3>5. \A t \in UploadId : uploads'[t] = IF t = u THEN row ELSE uploads[t]
      BY <3>2
    <3> QED BY <2>1, <3>1, <3>2, <3>3, <3>4, <3>5, TableFiles
  <2>3. CASE RemoveThenAnswer(p, own, "internal") /\ UNCHANGED metaVars
    BY <2>1, <2>3, GiveUpFiles DEF Code
  <2> QED BY <1>3, <2>2, <2>3 DEF CreateUploadCommit
<1> QED BY <1>1, <1>2, <1>3 DEF createUpload

(* The blob of a session is in hand for that session only, and is no       *)
(* object's.                                                               *)
LEMMA SessionBlobApart ==
  ASSUME Inv, FileInv, NEW u \in UploadId, Active(u)
  PROVE  LET id == uploads[u].blob
         IN  /\ id \in BlobId
             /\ \A q \in Proc : Makes(req[q]) => req[q].blob # id
             /\ \A q \in Proc : Reads(req[q]) => req[q].blob # id
             /\ \A n \in Name : objects[n].blob # id
             /\ \A q \in Proc : Borrows(req[q]) /\ req[q].blob = id =>
                                req[q].upload = u
             /\ \A t \in UploadId : uploads[t].blob = id => t = u
<1>1. uploads[u].blob \in BlobId /\ uploads[u].blob # None
  BY SessionFacts, NoneAssumption DEF Inv, Active, SessionShape
<1>2. \A q \in Proc : Makes(req[q]) => req[q].blob # uploads[u].blob
  BY DEF Inv, RefInv, HeldAlone, Makes, Holds
<1>3. \A q \in Proc : Reads(req[q]) => req[q].blob # uploads[u].blob
  BY DEF FileInv, HandlersReady, Ready, ReadReady, Reads
<1>4. \A n \in Name : objects[n].blob # uploads[u].blob
  BY <1>1 DEF Inv, RefInv, ObjectsKept
<1>5. \A q \in Proc : Borrows(req[q]) /\ req[q].blob = uploads[u].blob =>
                      req[q].upload = u
  BY DEF FileInv, OneSession
<1>6. \A t \in UploadId : uploads[t].blob = uploads[u].blob => t = u
  BY DEF Inv, RefInv, SessionsKept, Active
<1> QED BY <1>1, <1>2, <1>3, <1>4, <1>5, <1>6

LEMMA PartBeginFiles ==
  ASSUME Inv, FileInv, NEW p \in Proc, PutUploadPartBegin(p)
  PROVE  FileInv'
<1> USE DEF blobVars, metaVars
<1> DEFINE R(u, n, body, want) ==
      [Idle EXCEPT !.op = "part", !.upload = u, !.part = n, !.body = body,
                   !.want = want, !.blob = uploads[u].blob]
<1>1. PICK u \in UploadId, n \in 1..MaxParts :
        \E body \in PartBodies[u][n] :
          \E want \in Declared(body, PartBodies[u][n]) :
            EnterUnless(p, R(u, n, body, want), LookupRefusal(u), "open")
  BY DEF PutUploadPartBegin
<1>2. PICK body \in PartBodies[u][n] :
        \E want \in Declared(body, PartBodies[u][n]) :
          EnterUnless(p, R(u, n, body, want), LookupRefusal(u), "open")
  BY <1>1
<1>3. PICK want \in Declared(body, PartBodies[u][n]) :
        EnterUnless(p, R(u, n, body, want), LookupRefusal(u), "open")
  BY <1>2
<1>4. body \in Seq(Data) /\ want \in Seq(Data) /\ n \in 0..MaxParts
  BY BodyTypes, SizeAssumption DEF Declared
<1>5. PICK s : s = R(u, n, body, want)
  OBVIOUS
<1>6. s \in Request
  BY <1>4, <1>5, SessionFacts, IdleTyping DEF Inv, Request, AllOps, Idle
<1>7. /\ s.op = "part" /\ s.blob = uploads[u].blob /\ s.part = n
      /\ s.upload = u /\ s.body = body /\ s.done = 0
  BY <1>5 DEF Idle
<1>8. LookupRefusal(u) = {} => Active(u)
  BY DEF LookupRefusal
<1>9. UNCHANGED <<link, bytes, disk, objects, uploads>>
  BY DEF PutUploadPartBegin
<1>10. \/ LookupRefusal(u) = {} /\ Enter(p, s, "open")
       \/ \E code \in Refusals : Refuse(p, s, code)
  BY <1>3, <1>5, LookupRefusals, EnterOrRefuse
<1> HIDE DEF R
<1>11. CASE LookupRefusal(u) = {} /\ Enter(p, s, "open")
  <2>0. PICK r : r = [s EXCEPT !.pc = "open"]
    OBVIOUS
  <2>1. /\ r.op = "part" /\ r.pc = "open" /\ r.blob = uploads[u].blob
        /\ r.part = n /\ r.upload = u /\ r.body = body /\ r.done = 0
        /\ req' = [req EXCEPT ![p] = r]
    BY <1>6, <1>7, <1>11, <2>0 DEF Request, Enter
  <2>2. Ready(r)'
    BY <2>1 DEF Ready, PutReady, SessionReady, PartReady, CompleteReady, ReadReady
  <2>3. Writes(r) /\ ~Makes(r) /\ ~Reads(r)
    BY <2>1 DEF Writes, Makes, Reads
  <2>4. /\ \A q \in Proc : Makes(req[q]) \/ Reads(req[q]) => req[q].blob # r.blob
        /\ \A m \in Name : objects[m].blob # r.blob
        /\ \A q \in Proc : Borrows(req[q]) /\ req[q].blob = r.blob =>
             req[q].upload = r.upload
        /\ \A t \in UploadId : uploads[t].blob = r.blob => r.upload = t
    BY <1>8, <1>11, <2>1, SessionBlobApart
  <2> QED BY <1>9, <2>1, <2>2, <2>3, <2>4, QuietFiles
<1>12. CASE \E code \in Refusals : Refuse(p, s, code)
  BY <1>6, <1>7, <1>9, <1>12, RefuseFiles DEF Refusals
<1> QED BY <1>10, <1>11, <1>12

(* A handler with a part in hand goes on with it, and no file changes.     *)
LEMMA PartGotoFiles ==
  ASSUME Inv, FileInv, UNCHANGED <<link, bytes, disk, objects, uploads>>,
         NEW p \in Proc, Writes(req[p]), NEW pc \in {"write", "sync"},
         Goto(p, pc),
         pc = "write" => req[p].done = 0,
         pc = "sync" => /\ req[p].pc = "write"
                        /\ req[p].done = Len(req[p].body)
  PROVE  FileInv'
<1>0. PICK r : r = [req[p] EXCEPT !.pc = pc]
  OBVIOUS
<1>1. /\ req[p] \in Request /\ req[p].op = "part" /\ PartReady(req[p])
  BY RequestFacts DEF Inv, Writes, FileInv, HandlersReady, Ready
<1>2. /\ r.op = "part" /\ r.pc = pc /\ r.blob = req[p].blob
      /\ r.part = req[p].part /\ r.body = req[p].body /\ r.done = req[p].done
      /\ r.upload = req[p].upload
      /\ req' = [req EXCEPT ![p] = r]
  BY <1>0, <1>1 DEF Request, Goto
<1>3. Writes(r) /\ Borrows(req[p]) /\ ~Makes(r) /\ ~Reads(r)
  BY <1>2 DEF Writes, Borrows, Makes, Reads
<1>4. PartReady(r)
  <2>1. Written(r.upload, bytes[r.blob], r.part, 0)
    BY DEF Written
  <2> QED BY <1>1, <1>2, <2>1 DEF PartReady
<1>5. Ready(r)'
  <2>1. PartReady(r)'
    BY <1>4 DEF PartReady
  <2> QED BY <1>2, <2>1
          DEF Ready, PutReady, SessionReady, CompleteReady, ReadReady
<1>6. \A q \in Proc : Makes(req[q]) => req[q].blob # r.blob
  BY <1>2, <1>3 DEF FileInv, MadeAlone
<1>7. \/ bytes[r.blob] = Image(r.upload)
      \/ /\ \A n \in Name : objects[n].blob # r.blob
         /\ \A q \in Proc : Reads(req[q]) => req[q].blob # r.blob
  BY <1>2 DEF FileInv, LateParts
<1>8. /\ \A q \in Proc : Borrows(req[q]) /\ req[q].blob = r.blob =>
           req[q].upload = r.upload
      /\ \A u \in UploadId : uploads[u].blob = r.blob => r.upload = u
  BY <1>2, <1>3 DEF FileInv, OneSession
<1> QED BY <1>2, <1>3, <1>5, <1>6, <1>7, <1>8, QuietFiles

(* One byte of a part: the cell it goes to is the one where the image has  *)
(* it.                                                                     *)
LEMMA PartWriteFiles ==
  ASSUME SteadyClients, Inv, FileInv, NEW p \in Proc, PutUploadPartWrite(p)
  PROVE  FileInv'
<1> DEFINE id == req[p].blob
           u == req[p].upload
           n == req[p].part
           body == req[p].body
           done == req[p].done
           cell == PartOffset(n) + (done + 1)
<1>1. /\ req[p].op = "part" /\ req[p].pc = "write" /\ Writes(req[p])
      /\ req[p] \in Request /\ id \in BlobId /\ n \in 1..MaxParts
      /\ u \in UploadId
      /\ body \in PartBodies[u][n] /\ Written(u, bytes[id], n, done)
      /\ done \in Nat /\ done < Len(body)
      /\ UNCHANGED <<link, disk, objects, uploads>>
  <2>1. /\ req[p].op = "part" /\ req[p].pc = "write" /\ Writes(req[p])
        /\ done < Len(body) /\ UNCHANGED <<link, disk, objects, uploads>>
    BY DEF PutUploadPartWrite, Writes, Write, metaVars
  <2>2. PartReady(req[p])
    BY DEF FileInv, HandlersReady, Ready
  <2> QED BY <2>1, <2>2, RequestFacts DEF Inv, Shape, PartReady
<1>2. Len(body) \in 1..PartSize /\ done + 1 \in 1..Len(body) /\ done + 1 \in 1..PartSize
  BY <1>1, PartBodyType, SizeAssumption
<1>3. cell \in 1..FileLen /\ Image(u)[cell] = body[done + 1]
  BY <1>1, <1>2, PartCell, ImageOfPart, SMTT(20)
<1>4. bytes \in [BlobId -> File] /\ BlobTypeOK'
  BY NextTyping DEF Inv, Typing, BlobTypeOK, Next, Handle, putUploadPart
<1>5. /\ bytes' = [bytes EXCEPT ![id] =
                     Overlay(bytes[id], PartOffset(n) + done, <<body[done + 1]>>)]
  BY DEF PutUploadPartWrite, Write
<1>6. \A i \in 1..FileLen :
        bytes'[id][i] = IF i = cell THEN Image(u)[i] ELSE bytes[id][i]
  <2>1. PartOffset(n) \in Int
    BY <1>1, SizeAssumption DEF PartOffset
  <2>2. ASSUME NEW i \in 1..FileLen
        PROVE  i - (PartOffset(n) + done) \in 1..1 <=> i = cell
    <3> HIDE DEF n, done
    <3>1. done \in Int
      BY <1>1
    <3> QED BY <2>1, <3>1, FileLenType
  <2>3. bytes'[id] = Overlay(bytes[id], PartOffset(n) + done, <<body[done + 1]>>)
    BY <1>1, <1>4, <1>5
  <2>4. Len(<<body[done + 1]>>) = 1 /\ <<body[done + 1]>>[1] = body[done + 1]
    OBVIOUS
  <2>5. ASSUME NEW i \in 1..FileLen
        PROVE  bytes'[id][i] = IF i - (PartOffset(n) + done) \in 1..1
                                 THEN <<body[done + 1]>>[i - (PartOffset(n) + done)]
                                 ELSE bytes[id][i]
    BY <2>3, <2>4 DEF Overlay
  <2>6. cell - (PartOffset(n) + done) = 1
    <3> HIDE DEF n, done
    <3>1. done \in Int
      BY <1>1
    <3> QED BY <2>1, <3>1
  <2> HIDE DEF cell, done, n, u, body, id
  <2> QED BY <1>3, <2>2, <2>4, <2>5, <2>6
<1>7. PICK r : r = [req[p] EXCEPT !.done = done + 1]
  OBVIOUS
<1>8. /\ r.op = "part" /\ r.pc = "write" /\ r.blob = id /\ r.part = n
      /\ r.upload = u /\ r.body = body /\ r.done = done + 1
      /\ req' = [req EXCEPT ![p] = r]
  BY <1>1, <1>7 DEF Request, PutUploadPartWrite
<1>9. Toward(u, bytes[id], bytes'[id])
  BY <1>6 DEF Toward
<1>10. Written(u, bytes'[id], n, done + 1)
  <2> SUFFICES ASSUME NEW j \in 1..(done + 1)
               PROVE  bytes'[id][PartOffset(n) + j] = Image(u)[PartOffset(n) + j]
    BY DEF Written
  <2>1. j \in 1..PartSize /\ (j \in 1..done \/ j = done + 1)
    BY <1>1, <1>2, SizeAssumption
  <2>2. PartOffset(n) + j \in 1..FileLen
    BY <1>1, <2>1, PartCell
  <2>3. j \in 1..done => bytes[id][PartOffset(n) + j] = Image(u)[PartOffset(n) + j]
    BY <1>1 DEF Written
  <2> QED BY <1>6, <2>1, <2>2, <2>3
<1>11. PartReady(r)'
  BY <1>1, <1>8, <1>10 DEF PartReady
<1>12. Ready(r)' /\ Writes(r)
  BY <1>8, <1>11
     DEF Ready, PutReady, SessionReady, CompleteReady, ReadReady, Writes
<1>13. \A b \in BlobId \ {id} : bytes'[b] = bytes[b] /\ disk'[b] = disk[b]
  BY <1>1, <1>4, <1>5
<1> QED BY <1>1, <1>4, <1>8, <1>9, <1>12, <1>13, SharedFiles

(* fsync of the shared file: the part in hand is on the platter.           *)
LEMMA PartSyncFiles ==
  ASSUME Inv, FileInv, NEW p \in Proc, At(p, "part", "sync"),
         UNCHANGED <<objects, uploads>>, Sync(req[p].blob), Goto(p, "commit")
  PROVE  FileInv'
<1> DEFINE id == req[p].blob
<1>1. /\ req[p].op = "part" /\ req[p].pc = "sync" /\ Writes(req[p])
      /\ req[p] \in Request /\ id \in BlobId /\ PartReady(req[p])
  BY RequestFacts DEF Inv, Shape, Writes, FileInv, HandlersReady, Ready
<1>2. /\ BlobTypeOK /\ BlobTypeOK'
  BY <1>1, SyncType DEF Inv, Typing
<1>3. /\ UNCHANGED bytes /\ disk'[id] = bytes'[id]
      /\ \A b \in BlobId \ {id} : disk'[b] = disk[b]
      /\ \A b \in BlobId : link'[b] = "unused" <=> link[b] = "unused"
  BY <1>1, <1>2 DEF Sync, Present, BlobTypeOK
<1>4. PICK r : r = [req[p] EXCEPT !.pc = "commit"]
  OBVIOUS
<1>5. /\ r.op = "part" /\ r.pc = "commit" /\ r.blob = id
      /\ r.upload = req[p].upload /\ r.part = req[p].part /\ r.body = req[p].body
      /\ req' = [req EXCEPT ![p] = r]
  BY <1>1, <1>4 DEF Request, Goto
<1>6. PartReady(r)'
  BY <1>1, <1>3, <1>5 DEF PartReady
<1>7. Ready(r)' /\ Writes(r)
  BY <1>5, <1>6
     DEF Ready, PutReady, SessionReady, CompleteReady, ReadReady, Writes
<1>8. Toward(req[p].upload, bytes[id], bytes'[id])
  BY <1>3 DEF Toward
<1> QED BY <1>1, <1>2, <1>3, <1>5, <1>7, <1>8, SharedFiles

(* A part is recorded when its bytes are in the file and on the platter.   *)
LEMMA PartCommitFiles ==
  ASSUME Inv, FileInv, NEW p \in Proc, At(p, "part", "commit"),
         UNCHANGED <<link, bytes, disk>>, NEW code \in Code,
         PutPart(req[p].upload, req[p].part, req[p].body), Answer(p, code)
  PROVE  FileInv'
<1> DEFINE u == req[p].upload
           n == req[p].part
           body == req[p].body
<1>1. /\ u \in UploadId /\ n \in 1..MaxParts /\ Active(u)
      /\ req[p] \in Request /\ PartReady(req[p]) /\ Writes(req[p])
      /\ Borrows(req[p])
  BY RequestFacts DEF Inv, Shape, FileInv, HandlersReady, Ready, PutPart, Writes,
                      Borrows
<1>2. uploads[u].blob = req[p].blob
  BY <1>1 DEF Inv, RefInv, BorrowedFromSession
<1>3. /\ UNCHANGED objects /\ uploads \in [UploadId -> UploadRow]
      /\ uploads' = [uploads EXCEPT ![u].parts[n] = body]
  BY DEF PutPart, Inv, Typing, MetaTyping, MetaTypeOK
<1>4. PICK r : r = [req[p] EXCEPT !.pc = "reply", !.code = code]
  OBVIOUS
<1>5. r.pc = "reply" /\ r.op = "part" /\ req' = [req EXCEPT ![p] = r]
  BY <1>1, <1>4 DEF Request, Answer
<1>6. SteadyRow(u, uploads[u])
  BY <1>1 DEF FileInv, SessionsSteady, SteadyRow
<1>7. /\ body \in PartBodies[u][n]
      /\ Written(u, bytes[uploads[u].blob], n, Len(body))
      /\ Written(u, disk[uploads[u].blob], n, Len(body))
  BY <1>1, <1>2 DEF PartReady
<1> HIDE DEF u, n, body
<1>8. /\ uploads'[u].blob = uploads[u].blob
      /\ \A k \in 1..MaxParts : uploads'[u].parts[k] =
           IF k = n THEN body ELSE uploads[u].parts[k]
      /\ \A t \in UploadId \ {u} : uploads'[t] = uploads[t]
  BY <1>1, <1>3 DEF UploadRow
<1>9. SteadyRow(u, uploads'[u])
  BY <1>6, <1>7, <1>8 DEF SteadyRow
<1>10. /\ \A q \in Proc : Reads(req[q]) => req[q].blob # uploads'[u].blob
       /\ \A q \in Proc : Borrows(req[q]) /\ req[q].blob = uploads'[u].blob =>
            req[q].upload = u
  BY <1>1, <1>8, SessionBlobApart
<1>11. \A t \in UploadId :
         \/ uploads'[t] = uploads[t]
         \/ /\ SteadyRow(t, uploads'[t])
            /\ \A q \in Proc : Reads(req[q]) => req[q].blob # uploads'[t].blob
            /\ \A q \in Proc :
                 Borrows(req[q]) /\ req[q].blob = uploads'[t].blob =>
                   req[q].upload = t
  BY <1>8, <1>9, <1>10
<1> QED BY <1>3, <1>5, <1>11, TableFiles

LEMMA PutUploadPartFiles ==
  ASSUME SteadyClients, Inv, FileInv, NEW p \in Proc, putUploadPart(p)
  PROVE  FileInv'
<1> USE DEF blobVars, metaVars
<1>1. CASE PutUploadPartOpen(p)
  <2>1. PartReady(req[p])
    BY DEF FileInv, HandlersReady, Ready
  <2>2. Writes(req[p]) /\ req[p].done = 0 /\ req[p].op # "get"
    BY <1>1, <2>1 DEF PutUploadPartOpen, Writes, PartReady
  <2> QED BY <1>1, <2>2, PartGotoFiles, AnswerFiles DEF PutUploadPartOpen, Code
<1>2. CASE PutUploadPartShort(p)
  BY <1>2, AnswerFiles DEF PutUploadPartShort, Code
<1>3. CASE PutUploadPartVerify(p)
  <2>1. Writes(req[p]) /\ req[p].op # "get"
    BY <1>3 DEF PutUploadPartVerify, Writes
  <2> QED BY <1>3, <2>1, PartGotoFiles, AnswerFiles DEF PutUploadPartVerify, Code
<1>4. CASE PutUploadPartSync(p)
  BY <1>4, PartSyncFiles, AnswerFiles DEF PutUploadPartSync, Code
<1>5. CASE PutUploadPartCommit(p)
  BY <1>5, PartCommitFiles, AnswerFiles DEF PutUploadPartCommit, Code
<1> QED BY <1>1, <1>2, <1>3, <1>4, <1>5, PartBeginFiles, PartWriteFiles
        DEF putUploadPart

(* A session that passes the checks of completeUpload has all of its parts *)
(* in its file: the file is the image, and the folded checksum is its own. *)
LEMMA CompleteSession ==
  ASSUME SteadyClients, Inv, FileInv, NEW u \in UploadId, Active(u),
         NEW count \in CompleteCounts[u], NEW supplied,
         PartsRefusal(uploads[u].parts, count, supplied) = {}
  PROVE  LET id == uploads[u].blob
         IN  /\ bytes[id] = Image(u) /\ disk[id] = Image(u)
             /\ Fold(uploads[u].parts, count) = Content(Image(u))
<1> DEFINE id == uploads[u].blob
           parts == uploads[u].parts
<1>1. /\ \A n \in 1..count : parts[n] # << >>
      /\ \A n \in 1..(count - 1) : Len(parts[n]) = PartSize
  BY DEF PartsRefusal
<1>2. count \in 1..MaxParts /\ MaxParts \in Nat
  BY BodyAssumption, SizeAssumption
<1>3. SteadyRow(u, uploads[u])
  BY DEF FileInv, SessionsSteady, SteadyRow
<1>4. \A n \in 1..count : parts[n] \in PartBodies[u][n]
  BY <1>1, <1>2, <1>3 DEF SteadyRow
<1>5. ASSUME NEW n \in 1..MaxParts, NEW b \in PartBodies[u][n]
      PROVE  Written(u, bytes[id], n, Len(b)) /\ Written(u, disk[id], n, Len(b))
  <2>1. n \in 1..count
    BY <1>2, <1>5 DEF SteadyClients
  <2>2. parts[n] = b
    BY <1>4, <2>1 DEF SteadyClients
  <2> QED BY <1>1, <1>3, <2>1, <2>2 DEF SteadyRow
<1>6. bytes[id] \in File /\ disk[id] \in File
  BY SessionBlobApart DEF Inv, Typing, BlobTypeOK
<1>7. Partial(u, bytes[id]) /\ Partial(u, disk[id])
  BY <1>3 DEF SteadyRow
<1>8. bytes[id] = Image(u) /\ disk[id] = Image(u)
  BY <1>5, <1>6, <1>7, WholeImage
<1>9. Fold(parts, count) = Content(Image(u))
  BY <1>1, <1>4, FoldIsContent
<1> QED BY <1>8, <1>9

LEMMA CompleteBeginFiles ==
  ASSUME SteadyClients, Inv, FileInv, NEW p \in Proc, CompleteUploadBegin(p)
  PROVE  FileInv'
<1> USE DEF blobVars, metaVars
<1> DEFINE R(u) == [Idle EXCEPT !.op = "complete", !.upload = u]
           S(u, count) ==
             [R(u) EXCEPT !.bucket = uploads[u].name[1],
                          !.name = uploads[u].name,
                          !.blob = uploads[u].blob,
                          !.want = Fold(uploads[u].parts, count)]
           Refusal(u, count, supplied) ==
             IF LookupRefusal(u) # {} THEN LookupRefusal(u)
             ELSE PartsRefusal(uploads[u].parts, count, supplied)
<1>0. PICK u \in UploadId : \E count \in CompleteCounts[u] :
        \E supplied \in Supplied(u, count) :
          \/ /\ Refusal(u, count, supplied) = {}
             /\ Enter(p, S(u, count), "commit")
          \/ \E code \in Refusal(u, count, supplied) \cup StoreErrors :
               Refuse(p, R(u), code)
  BY DEF CompleteUploadBegin
<1>1. PICK count \in CompleteCounts[u] :
        \E supplied \in Supplied(u, count) :
          \/ /\ Refusal(u, count, supplied) = {}
             /\ Enter(p, S(u, count), "commit")
          \/ \E code \in Refusal(u, count, supplied) \cup StoreErrors :
               Refuse(p, R(u), code)
  BY <1>0
<1>2. PICK supplied \in Supplied(u, count) :
          \/ /\ Refusal(u, count, supplied) = {}
             /\ Enter(p, S(u, count), "commit")
          \/ \E code \in Refusal(u, count, supplied) \cup StoreErrors :
               Refuse(p, R(u), code)
  BY <1>1
<1>3. Refusal(u, count, supplied) \cup StoreErrors \subseteq Code
  BY DEF LookupRefusal, PartsRefusal, StoreErrors, Code
<1>4. R(u) \in Request /\ R(u).op = "complete"
  BY IdleTyping DEF Request, AllOps, Idle
<1>5. UNCHANGED <<link, bytes, disk, objects, uploads>>
  BY DEF CompleteUploadBegin
<1>6. CASE Refusal(u, count, supplied) = {} /\ Enter(p, S(u, count), "commit")
  <2>1. Active(u) /\ PartsRefusal(uploads[u].parts, count, supplied) = {}
    BY <1>6 DEF LookupRefusal
  <2>2. PICK r : r = [S(u, count) EXCEPT !.pc = "commit"]
    OBVIOUS
  <2>3. /\ r.op = "complete" /\ r.pc = "commit" /\ r.blob = uploads[u].blob
        /\ r.upload = u /\ r.want = Fold(uploads[u].parts, count)
    BY <2>2 DEF Idle
  <2>4. req' = [req EXCEPT ![p] = r]
    BY <1>6, <2>2 DEF Enter
  <2>5. CompleteReady(r)'
    BY <1>5, <2>1, <2>3, CompleteSession DEF CompleteReady
  <2>6. Ready(r)' /\ ~Makes(r) /\ ~Writes(r) /\ ~Reads(r)
    BY <2>3, <2>5 DEF Ready, PutReady, SessionReady, PartReady, ReadReady,
                      Makes, Writes, Reads
  <2>7. /\ \A q \in Proc : Makes(req[q]) => req[q].blob # r.blob
        /\ \A q \in Proc : Borrows(req[q]) /\ req[q].blob = r.blob =>
             req[q].upload = r.upload
        /\ \A t \in UploadId : uploads[t].blob = r.blob => r.upload = t
    BY <2>1, <2>3, SessionBlobApart
  <2> HIDE DEF R, S, Refusal
  <2> QED BY <1>5, <2>4, <2>6, <2>7, QuietFiles
<1>7. CASE \E code \in Refusal(u, count, supplied) \cup StoreErrors :
             Refuse(p, R(u), code)
  <2> HIDE DEF R, S, Refusal
  <2> QED BY <1>3, <1>4, <1>5, <1>7, RefuseFiles
<1> QED BY <1>2, <1>6, <1>7

LEMMA CompleteUploadFiles ==
  ASSUME SteadyClients, Inv, FileInv, NEW p \in Proc, completeUpload(p)
  PROVE  FileInv'
<1> USE DEF blobVars, metaVars
<1>1. CASE CompleteUploadCommit(p)
  <2> DEFINE u == req[p].upload
             n == req[p].name
             id == objects[n].blob
             row == [blob |-> req[p].blob, sum |-> req[p].want]
  <2>1. /\ req[p].op = "complete" /\ req[p].pc = "commit"
        /\ req[p] \in Request /\ n \in Name /\ u \in UploadId
        /\ CompleteReady(req[p]) /\ UNCHANGED <<link, bytes, disk>>
    BY <1>1, RequestFacts DEF CompleteUploadCommit, Inv, Shape, FileInv,
                              HandlersReady, Ready
  <2>2. CASE CompleteUpload(u, n, row) /\ RemoveThenAnswer(p, id, "ok")
    <3>0. PICK r : r = [req[p] EXCEPT !.pc = IF id = None THEN "reply" ELSE "remove",
                                      !.blob = id, !.code = "ok"]
      OBVIOUS
    <3>1. /\ r.pc \in {"reply", "remove"} /\ r.op = "complete"
          /\ req' = [req EXCEPT ![p] = r]
      BY <2>1, <2>2, <3>0 DEF Request, RemoveThenAnswer
    <3>2. /\ \A m \in Name : objects'[m] = IF m = n THEN row ELSE objects[m]
          /\ \A t \in UploadId : uploads'[t] = IF t = u THEN Ended ELSE uploads[t]
      BY <2>2 DEF CompleteUpload, Inv, Typing, MetaTyping, MetaTypeOK
    <3>3. Ended.state # "active" /\ Ended.blob = None
      BY DEF Ended, Unused
    <3>4. /\ Content(bytes[row.blob]) = row.sum /\ disk[row.blob] = bytes[row.blob]
          /\ bytes[row.blob] = Image(u)
      BY <2>1 DEF CompleteReady
    <3>5. \A q \in Proc : Writes(req[q]) /\ req[q].blob = row.blob =>
                          req[q].upload = u
      BY <2>1 DEF FileInv, OneSession, Borrows, Writes
    <3> HIDE DEF row, u, n
    <3> QED BY <2>1, <3>1, <3>2, <3>3, <3>4, <3>5, TableFiles
  <2>3. CASE /\ UNCHANGED metaVars
             /\ Answer(p, "upload_not_found") \/ Answer(p, "internal")
    BY <2>1, <2>3, AnswerFiles DEF Code
  <2> QED BY <1>1, <2>2, <2>3 DEF CompleteUploadCommit
<1> QED BY <1>1, CompleteBeginFiles DEF completeUpload

LEMMA DeleteUploadFiles ==
  ASSUME Inv, FileInv, NEW p \in Proc, deleteUpload(p)
  PROVE  FileInv'
<1> USE DEF blobVars, metaVars
<1>1. CASE DeleteUploadBegin(p)
  <2> DEFINE R(u) == [Idle EXCEPT !.op = "abort", !.upload = u]
  <2>1. PICK u \in UploadId : EnterUnless(p, R(u), LookupRefusal(u), "commit")
    BY <1>1 DEF DeleteUploadBegin
  <2>2. R(u) \in Request /\ R(u).op = "abort"
    BY IdleTyping DEF Request, AllOps, Idle
  <2> HIDE DEF R
  <2> QED BY <1>1, <2>1, <2>2, LookupRefusals, EnterUnlessFiles
          DEF DeleteUploadBegin, PC
<1>2. CASE DeleteUploadCommit(p)
  <2> DEFINE u == req[p].upload
             id == uploads[u].blob
  <2>1. /\ req[p].op = "abort" /\ req[p] \in Request /\ u \in UploadId
        /\ UNCHANGED <<link, bytes, disk>>
    BY <1>2, RequestFacts DEF DeleteUploadCommit, Inv, Shape
  <2>2. CASE DeleteUpload(u) /\ RemoveThenAnswer(p, id, "ok")
    <3>0. PICK r : r = [req[p] EXCEPT !.pc = IF id = None THEN "reply" ELSE "remove",
                                      !.blob = id, !.code = "ok"]
      OBVIOUS
    <3>1. /\ r.pc \in {"reply", "remove"} /\ r.op = "abort"
          /\ req' = [req EXCEPT ![p] = r]
      BY <2>1, <2>2, <3>0 DEF Request, RemoveThenAnswer
    <3>2. /\ UNCHANGED objects
          /\ \A t \in UploadId : uploads'[t] = IF t = u THEN Ended ELSE uploads[t]
      BY <2>2 DEF DeleteUpload, Inv, Typing, MetaTyping, MetaTypeOK
    <3>3. Ended.state # "active" /\ Ended.blob = None
      BY DEF Ended, Unused
    <3> QED BY <2>1, <3>1, <3>2, <3>3, TableFiles
  <2>3. CASE UNCHANGED metaVars /\ Drop(p)
    BY <2>1, <2>3, DropFiles
  <2>4. CASE /\ UNCHANGED metaVars
             /\ Answer(p, "upload_not_found") \/ Answer(p, "internal")
    BY <2>1, <2>4, AnswerFiles DEF Code
  <2> QED BY <1>2, <2>2, <2>3, <2>4 DEF DeleteUploadCommit
<1> QED BY <1>1, <1>2 DEF deleteUpload

----------------------------------------------------------------------------
(* The invariant and what follows from it.                                 *)

LEMMA InitFiles == Init => FileInv
<1> SUFFICES ASSUME Init PROVE FileInv
  OBVIOUS
<1>1. /\ \A id \in BlobId : bytes[id] = Empty /\ disk[id] = Empty
      /\ \A n \in Name : objects[n].blob = None
      /\ \A u \in UploadId : uploads[u].state # "active"
      /\ \A p \in Proc : req[p].op = "none" /\ req[p].pc = "idle"
  BY DEF Init, BlobInit, MetaInit, RequestInit, NoObject, Unused, Idle
<1> QED BY <1>1 DEF FileInv, UnusedEmpty, ObjectIntact, SessionsSteady, Active,
                    HandlersReady, Ready, PutReady, SessionReady, PartReady,
                    CompleteReady, ReadReady, MadeAlone, OneSession, LateParts,
                    Makes, Reads, Borrows, Writes

LEMMA NextFiles ==
  ASSUME SteadyClients, Inv, FileInv, [Next]_vars
  PROVE  FileInv'
<1>1. ASSUME UNCHANGED <<link, bytes, disk, objects, uploads, req>>
      PROVE  FileInv'
  BY <1>1 DEF FileInv, UnusedEmpty, ObjectIntact, SessionsSteady, Active,
              HandlersReady, Ready, PutReady, SessionReady, PartReady,
              CompleteReady, ReadReady, MadeAlone, OneSession, LateParts,
              Makes, Reads, Borrows, Writes
<1>2. ASSUME NEW p \in Proc, Handle(p) PROVE FileInv'
  <2>1. CASE Reply(p)
    BY <2>1, DropFiles DEF Reply, blobVars, metaVars
  <2> QED BY <1>2, <2>1, PutObjectFiles, GetObjectFiles, DeleteObjectFiles,
             BucketFiles, CreateUploadFiles, PutUploadPartFiles,
             CompleteUploadFiles, DeleteUploadFiles, CreateBlobFailsFiles,
             RemoveBlobFiles DEF Handle
<1>3. ASSUME NEW u \in UploadId, Expire(u) PROVE FileInv'
  BY <1>1, <1>3 DEF Expire, blobVars, metaVars
<1> QED BY <1>1, <1>2, <1>3, CrashFiles DEF Next, vars

LEMMA FileInvariant ==
  ASSUME SteadyClients
  PROVE  Spec => [](Inv /\ FileInv)
<1>1. Init => FileInv
  BY InitFiles
<1>2. Inv /\ FileInv /\ [Next]_vars => FileInv'
  BY NextFiles
<1> QED BY <1>1, <1>2, InvInvariant, PTL DEF Spec

(* Where the clients of each upload session are steady - one body for each *)
(* part, which arrives as it was sent or cut short, and no part beyond a   *)
(* count it is completed with; sessions differ as they like - and whatever *)
(* is interleaved, fails or is cut off by a power loss: what an object's   *)
(* row promises is in its file and on the platter.  putObject syncs the    *)
(* blob before the row (objects.go), putUploadPart syncs it before the     *)
(* part is recorded and completeUpload folds the recorded checksums only   *)
(* (uploads.go).  A body that is PUT in one request may be any, and        *)
(* corrupt.  Without steady clients the statement is false.                *)
THEOREM ObjectsIntact ==
  ASSUME SteadyClients
  PROVE  Spec => []ObjectIntact
<1>1. FileInv => ObjectIntact
  BY DEF FileInv
<1> QED BY <1>1, FileInvariant, PTL

(* With steady clients again: a reader is sent, byte by byte, the bytes of *)
(* the row it read, even if the object was overwritten or deleted          *)
(* meanwhile: getObject opens the file of the row by its own id, and a     *)
(* part that is written late finds its bytes there.                        *)
THEOREM ReadersSeeOneVersion ==
  ASSUME SteadyClients
  PROVE  Spec => []ReadsOneVersion
<1>1. FileInv => ReadsOneVersion
  BY DEF FileInv, HandlersReady, Ready, ReadReady, ReadsOneVersion
<1> QED BY <1>1, FileInvariant, PTL

(* With steady clients, and where an fsync of a new file keeps its         *)
(* directory entry: a part that a session reports as received survives     *)
(* every other part, every resend of the same body, cut short or not,      *)
(* every failure and power loss with the acknowledged bytes.  Of a resend  *)
(* with another body, or one that is refused, it is false.                 *)
THEOREM PartsAreDurable ==
  ASSUME SteadyClients, "entry" \notin Faults
  PROVE  Spec => []RecordedPartsDurable
<1>1. ASSUME Inv, FileInv, NEW u \in UploadId, Active(u), NEW n \in 1..MaxParts,
             uploads[u].parts[n] # << >>
      PROVE  LET sum == uploads[u].parts[n]
             IN  /\ link[uploads[u].blob] = "durable"
                 /\ PartRange(disk[uploads[u].blob], n, Len(sum)) = sum
  <2> DEFINE sum == uploads[u].parts[n]
             f == disk[uploads[u].blob]
  <2>1. link[uploads[u].blob] = "durable"
    BY <1>1 DEF Inv, RefInv, SessionsKept, Active, Kept
  <2>2. sum \in PartBodies[u][n] /\ Written(u, f, n, Len(sum))
    BY <1>1 DEF FileInv, SessionsSteady
  <2>3. sum \in Seq(Byte) /\ Len(sum) \in 1..PartSize
    BY <2>2, PartBodyType
  <2> HIDE DEF sum, f
  <2>4. \A j \in 1..Len(sum) : f[PartOffset(n) + j] = sum[j]
    <3>1. \A j \in 1..Len(sum) : j \in 1..PartSize /\ j <= Len(sum)
      BY <2>3, SizeAssumption
    <3> QED BY <2>2, <3>1, ImageOfPart DEF Written
  <2>5. PartRange(f, n, Len(sum)) = [j \in 1..Len(sum) |-> sum[j]]
    BY <2>4 DEF PartRange, PartOffset
  <2>6. sum = [j \in 1..Len(sum) |-> sum[j]]
    BY <2>3
  <2> QED BY <2>1, <2>5, <2>6 DEF sum, f
<1>2. Inv /\ FileInv => RecordedPartsDurable
  BY <1>1 DEF RecordedPartsDurable
<1> QED BY <1>2, FileInvariant, PTL
=============================================================================
