---------------------------- MODULE ListingProofs ----------------------------
(***************************************************************************)
(* Proofs about Listing, for any keys, prefixes, limits and listings.      *)
(***************************************************************************)
EXTENDS Listing, FiniteSetTheorems, TLAPS

----------------------------------------------------------------------------
(* Strings.                                                                *)

String == Seq(Nat)

(* The order of keys is strict.                                            *)
LEMMA BelowIrreflexive ==
  ASSUME NEW a \in String
  PROVE  ~Below(a, a)
BY DEF Below, String

(* The order of keys is transitive: look at the earlier of the two places  *)
(* where neighbours differ.                                                *)
LEMMA BelowTransitive ==
  ASSUME NEW a \in String, NEW b \in String, NEW c \in String,
         Below(a, b), Below(b, c)
  PROVE  Below(a, c)
<1>1. PICK i \in 1 .. Len(b) :
        /\ i <= Len(a) + 1
        /\ \A j \in 1 .. (i - 1) : a[j] = b[j]
        /\ i <= Len(a) => a[i] < b[i]
  BY DEF Below
<1>2. PICK k \in 1 .. Len(c) :
        /\ k <= Len(b) + 1
        /\ \A j \in 1 .. (k - 1) : b[j] = c[j]
        /\ k <= Len(b) => b[k] < c[k]
  BY DEF Below
<1>3. Len(a) \in Nat /\ Len(b) \in Nat /\ Len(c) \in Nat /\ i \in Nat /\ k \in Nat
  BY DEF String
<1>4. /\ \A n \in 1 .. Len(a) : a[n] \in Nat
      /\ \A n \in 1 .. Len(b) : b[n] \in Nat
      /\ \A n \in 1 .. Len(c) : c[n] \in Nat
  BY SMTT(20) DEF String
<1>5. CASE i <= k
  <2>1. i \in 1 .. Len(c)
    BY <1>2, <1>3, <1>5
  <2>2. \A j \in 1 .. (i - 1) : a[j] = c[j]
    BY <1>1, <1>2, <1>3, <1>5
  <2>3. ASSUME i <= Len(a) PROVE a[i] < c[i]
    <3>1. a[i] < b[i] /\ a[i] \in Nat /\ b[i] \in Nat /\ c[i] \in Nat
      BY <1>1, <1>3, <1>4, <2>1, <2>3
    <3>2. b[i] = c[i] \/ b[i] < c[i]
      BY <1>1, <1>2, <1>3, <1>5
    <3> QED BY <3>1, <3>2
  <2> QED BY <1>1, <2>1, <2>2, <2>3 DEF Below
<1>6. CASE k < i
  <2>1. k \in 1 .. Len(c) /\ k <= Len(a) + 1 /\ k <= Len(b)
    BY <1>1, <1>2, <1>3, <1>6
  <2>2. \A j \in 1 .. (k - 1) : a[j] = c[j]
    BY <1>1, <1>2, <1>3, <1>6
  <2>3. k <= Len(a) => a[k] < c[k]
    BY <1>1, <1>2, <1>3, <1>4, <1>6, <2>1
  <2> QED BY <2>1, <2>2, <2>3 DEF Below
<1> QED BY <1>3, <1>5, <1>6

(* A loop that begins at the empty string leaves out no key.               *)
LEMMA EmptyIsBelow ==
  ASSUME NEW k \in String, k # <<>>
  PROVE  Below(<<>>, k)
<1>1. Len(k) \in Nat /\ Len(k) # 0
  BY DEF String
<1>2. 1 \in 1 .. Len(k) /\ Len(<<>>) = 0
  BY <1>1
<1> QED BY <1>2 DEF Below

(* For ASCII, bytes are characters.                                        *)
LEMMA AsciiLength ==
  ASSUME NEW s \in String, Ascii(s)
  PROVE  ByteLen(s) = Len(s)
<1>1. From(s, 128) = {} /\ From(s, 2048) = {} /\ From(s, 65536) = {}
  BY DEF Ascii, String, From
<1>2. \A S : S = {} => Cardinality(S) = 0
  BY FS_EmptySet
<1>3. Cardinality(From(s, 128)) = 0
  BY <1>1, <1>2
<1>4. Cardinality(From(s, 2048)) = 0
  BY <1>1, <1>2
<1>5. Cardinality(From(s, 65536)) = 0
  BY <1>1, <1>2
<1>6. Len(s) \in Nat
  BY DEF String
<1> QED BY <1>3, <1>4, <1>5, <1>6 DEF ByteLen

(* A key that starts with p is not below p: no key is lost to the bound    *)
(* of the range scan.                                                      *)
LEMMA StartsNotBelow ==
  ASSUME NEW k \in String, NEW p \in String, Starts(k, p)
  PROVE  ~Below(k, p)
<1>1. Len(k) \in Nat /\ Len(p) \in Nat /\ Len(p) <= Len(k)
  BY DEF Starts, String
<1>2. \A i \in 1 .. Len(p) : k[i] = p[i]
  BY <1>1 DEF Starts, String
<1>3. \A i \in 1 .. Len(p) : k[i] \in Nat /\ p[i] \in Nat
  BY <1>1 DEF String
<1> QED BY <1>1, <1>2, <1>3 DEF Below

(* With an ASCII prefix SQLite's test is the exact starts-with test.       *)
LEMMA SubstrIsStarts ==
  ASSUME NEW k \in String, NEW p \in String, Ascii(p)
  PROVE  Substr(k, ByteLen(p)) = p <=> Starts(k, p)
<1>1. ByteLen(p) = Len(p) /\ Len(p) \in Nat /\ Len(k) \in Nat
  BY AsciiLength DEF String
<1>2. CASE Len(p) < Len(k)
  BY <1>1, <1>2 DEF Substr, Starts
<1>3. CASE ~(Len(p) < Len(k))
  <2>1. Substr(k, ByteLen(p)) = SubSeq(k, 1, Len(k))
    BY <1>1, <1>3 DEF Substr
  <2>2. SubSeq(k, 1, Len(k)) = k
    BY <1>1 DEF String
  <2> QED BY <1>1, <1>3, <2>1, <2>2 DEF Starts
<1> QED BY <1>2, <1>3

----------------------------------------------------------------------------
(* The inductive invariant.                                                *)

(* Where ListObjects tells keys with the prefix from others.               *)
Exact(l) == store = "sqlite" => Ascii(list[l].prefix)

(* What has been yielded was there and has the prefix.                     *)
Sound(l) == Exact(l) => Seen(l) \subseteq Matching(list[l].sometime, l)

(* What has not been yielded is still ahead of the cursor.                 *)
Ahead(l) ==
  list[l].pc = "page" /\ Exact(l) =>
    \A k \in Matching(list[l].throughout, l) :
      k \in Seen(l) \/ Below(list[l].after, k)

(* The cursor is at or above everything that has been yielded.             *)
Behind(l) ==
  list[l].pc = "page" =>
    \A k \in Seen(l) : k = list[l].after \/ Below(k, list[l].after)

Complete(l) ==
  Done(l) /\ Exact(l) => Matching(list[l].throughout, l) \subseteq Seen(l)

Ascends(l) ==
  \A j \in list[l].earlier, k \in list[l].page : Below(j, k)

(* The history variables are about the present.                            *)
HistoryOf(l) ==
  list[l].pc = "page" =>
    list[l].throughout \subseteq rows /\ rows \subseteq list[l].sometime

LoopInv(l) == /\ Sound(l) /\ Ahead(l) /\ Behind(l) /\ Complete(l)
              /\ Ascends(l) /\ HistoryOf(l)

ListingInv == ListingTypeOK /\ \A l \in Lister : LoopInv(l)

(* What ListObjects may answer, whichever store it is.                     *)
LEMMA PageAnswer ==
  ASSUME ListingTypeOK, NEW l \in Lister, NEW n,
         NEW page \in ListObjects(list[l].prefix, list[l].after, n)
  PROVE  /\ page \subseteq rows
         /\ \A k \in page : Below(list[l].after, k)
         /\ Exact(l) => \A k \in page : Starts(k, list[l].prefix)
         /\ Exact(l) => \A k \in rows \ page :
              Starts(k, list[l].prefix) /\ Below(list[l].after, k) =>
                Cardinality(page) = n /\ \A j \in page : Below(j, k)
<1> DEFINE p == list[l].prefix
           after == list[l].after
<1>1. p \in String /\ rows \subseteq String /\ Key \subseteq String
  BY KeyspaceAssumption DEF ListingTypeOK, Loop, String
<1>2. IsFirst(page, Matches(p, after), n)
  BY DEF ListObjects
<1>3. Matches(p, after) \subseteq {k \in rows : Below(after, k)}
  BY DEF Matches, SqliteMatches, MemoryMatches
<1>4. ASSUME Exact(l)
      PROVE  Matches(p, after) = {k \in rows : Starts(k, p) /\ Below(after, k)}
  <2>1. CASE store = "sqlite"
    <3>1. Ascii(p)
      BY <1>4, <2>1 DEF Exact
    <3>2. \A k \in rows : Substr(k, ByteLen(p)) = p <=> Starts(k, p)
      BY <1>1, <3>1, SubstrIsStarts
    <3>3. \A k \in rows : Starts(k, p) => ~Below(k, p)
      BY <1>1, StartsNotBelow
    <3> QED BY <2>1, <3>2, <3>3 DEF Matches, SqliteMatches
  <2>2. CASE store # "sqlite"
    BY <2>2 DEF Matches, MemoryMatches
  <2> QED BY <2>1, <2>2
<1>5. page \subseteq Matches(p, after)
  BY <1>2 DEF IsFirst
<1>6. ASSUME NEW k \in Matches(p, after) \ page
      PROVE  Cardinality(page) = n /\ \A j \in page : Below(j, k)
  BY <1>2, <1>6 DEF IsFirst
<1> QED BY <1>3, <1>4, <1>5, <1>6

(* Both stores list the same, whatever is in the bucket.                   *)
LEMMA AgreeNow ==
  ASSUME ListingTypeOK
  PROVE  StoresAgree
<1> SUFFICES ASSUME NEW p \in Prefix, NEW after \in Key \cup {<<>>}, Ascii(p)
             PROVE  SqliteMatches(p, after) = MemoryMatches(p, after)
  BY DEF StoresAgree
<1>1. p \in String /\ rows \subseteq String
  BY KeyspaceAssumption DEF ListingTypeOK, String
<1>2. \A k \in rows : Substr(k, ByteLen(p)) = p <=> Starts(k, p)
  BY <1>1, SubstrIsStarts
<1>3. \A k \in rows : Starts(k, p) => ~Below(k, p)
  BY <1>1, StartsNotBelow
<1> QED BY <1>2, <1>3 DEF SqliteMatches, MemoryMatches

----------------------------------------------------------------------------
(* Every step keeps the invariant.                                         *)

(* A loop that a step does not touch, rows unchanged, is as it was.        *)
LEMMA OthersKeep ==
  ASSUME ListingInv, NEW m \in Lister, list'[m] = list[m],
         store' = store, rows' = rows
  PROVE  LoopInv(m)'
BY DEF ListingInv, LoopInv, Sound, Ahead, Behind, Complete, Ascends,
       HistoryOf, Seen, Matching, Done, Exact

LEMMA StartKeeps ==
  ASSUME ListingInv, NEW l \in Lister, Start(l)
  PROVE  ListingInv'
<1>1. PICK p \in Prefix, n \in AskedLimit :
        list' = [list EXCEPT ![l] =
                   [pc |-> "page", prefix |-> p, asked |-> n, after |-> <<>>,
                    page |-> {}, earlier |-> {},
                    throughout |-> rows, sometime |-> rows]]
  BY DEF Start
<1>2. store' = store /\ rows' = rows /\ ListingTypeOK
  BY DEF Start, ListingInv
<1>3. Cardinality({}) <= MaxListLimit
  BY FS_EmptySet, KeyspaceAssumption
<1>4. ListingTypeOK'
  BY <1>1, <1>2, <1>3 DEF ListingTypeOK, Loop
<1>5. list'[l] = [pc |-> "page", prefix |-> p, asked |-> n, after |-> <<>>,
                  page |-> {}, earlier |-> {},
                  throughout |-> rows, sometime |-> rows]
  BY <1>1, <1>2 DEF ListingTypeOK
<1>6. \A k \in rows : Below(<<>>, k)
  BY <1>2, EmptyIsBelow, KeyspaceAssumption DEF ListingTypeOK, String
<1>7. LoopInv(l)'
  BY <1>2, <1>5, <1>6 DEF LoopInv, Sound, Ahead, Behind, Complete, Ascends,
                          HistoryOf, Seen, Matching, Done, Exact
<1>8. ASSUME NEW m \in Lister, m # l PROVE LoopInv(m)'
  <2>1. list'[m] = list[m]
    BY <1>1, <1>2, <1>8 DEF ListingTypeOK
  <2> QED BY <2>1, <1>2, OthersKeep
<1> QED BY <1>4, <1>7, <1>8 DEF ListingInv

LEMMA RefuseKeeps ==
  ASSUME ListingInv, NEW l \in Lister, Refuse(l)
  PROVE  ListingInv'
<1>1. /\ store' = store /\ rows' = rows /\ ListingTypeOK
      /\ list' = [list EXCEPT ![l].pc = "refused"]
  BY DEF Refuse, ListingInv
<1>2. ListingTypeOK'
  BY <1>1 DEF ListingTypeOK, Loop
<1>3. list'[l] = [list[l] EXCEPT !.pc = "refused"]
  BY <1>1 DEF ListingTypeOK
<1>4. LoopInv(l) /\ list[l] \in Loop
  BY <1>1 DEF ListingInv, ListingTypeOK
<1>5. LoopInv(l)'
  BY <1>1, <1>3, <1>4 DEF LoopInv, Sound, Ahead, Behind, Complete, Ascends,
                          HistoryOf, Seen, Matching, Done, Exact, Loop
<1>6. ASSUME NEW m \in Lister, m # l PROVE LoopInv(m)'
  <2>1. list'[m] = list[m]
    BY <1>1, <1>6 DEF ListingTypeOK
  <2> QED BY <2>1, <1>1, OthersKeep
<1> QED BY <1>2, <1>5, <1>6 DEF ListingInv

LEMMA PageKeeps ==
  ASSUME ListingInv, NEW l \in Lister, Page(l)
  PROVE  ListingInv'
<1> DEFINE n == Limit(list[l].asked)
           x == list[l]
<1>1. PICK page \in ListObjects(x.prefix, x.after, n) :
        \/ /\ Cardinality(page) = n
           /\ \E next \in LastOf(page) :
                list' = [list EXCEPT ![l].page = page, ![l].earlier = Seen(l),
                                     ![l].after = next]
        \/ /\ Cardinality(page) # n
           /\ list' = [list EXCEPT ![l].page = page, ![l].earlier = Seen(l),
                                   ![l].pc = "done"]
  BY DEF Page
<1>2. /\ store' = store /\ rows' = rows /\ ListingTypeOK
      /\ x \in Loop /\ x.pc = "page" /\ LoopInv(l)
  BY DEF Page, ListingInv, ListingTypeOK
<1>3. /\ page \subseteq rows
      /\ \A k \in page : Below(x.after, k)
      /\ Exact(l) => \A k \in page : Starts(k, x.prefix)
      /\ Exact(l) => \A k \in rows \ page :
           Starts(k, x.prefix) /\ Below(x.after, k) =>
             Cardinality(page) = n /\ \A j \in page : Below(j, k)
  BY <1>2, PageAnswer
<1>4. n \in Nat /\ n <= MaxListLimit
  BY <1>2, KeyspaceAssumption DEF Page, Valid, Limit, Loop
<1>5. page \in {S \in SUBSET Key : Cardinality(S) <= MaxListLimit}
  <2>1. page \subseteq Key
    BY <1>2, <1>3 DEF ListingTypeOK
  <2>2. Cardinality(page) \in 0 .. n
    BY DEF ListObjects, IsFirst
  <2>3. Cardinality(page) <= MaxListLimit
    BY <1>4, <2>2, KeyspaceAssumption
  <2> QED BY <2>1, <2>3
<1>6. Key \subseteq String /\ <<>> \in String
  BY KeyspaceAssumption DEF String
<1>7. Seen(l) \subseteq Key /\ x.after \in String
  BY <1>2, <1>6 DEF Loop, Seen
<1>8. \A j \in Seen(l), k \in page : Below(j, k)
  <2> SUFFICES ASSUME NEW j \in Seen(l), NEW k \in page PROVE Below(j, k)
    OBVIOUS
  <2>1. j = x.after \/ Below(j, x.after)
    BY <1>2 DEF LoopInv, Behind
  <2>2. Below(x.after, k) /\ j \in String /\ k \in String
    BY <1>3, <1>5, <1>6, <1>7
  <2> QED BY <1>7, <2>1, <2>2, BelowTransitive
<1>9. CASE \E next \in LastOf(page) :
             list' = [list EXCEPT ![l].page = page, ![l].earlier = Seen(l),
                                  ![l].after = next]
  <2>1. PICK next \in LastOf(page) :
          list' = [list EXCEPT ![l].page = page, ![l].earlier = Seen(l),
                               ![l].after = next]
    BY <1>9
  <2>2. next \in page /\ \A j \in page : j = next \/ Below(j, next)
    BY DEF LastOf
  <2>3. list'[l] = [x EXCEPT !.page = page, !.earlier = Seen(l), !.after = next]
    BY <1>2, <2>1 DEF ListingTypeOK
  <2>4. ListingTypeOK'
    BY <1>2, <1>5, <1>7, <2>1, <2>2 DEF ListingTypeOK, Loop
  <2>5. Seen(l)' = page \cup Seen(l)
    BY <1>2, <2>3 DEF Seen, Loop
  <2>6. (Sound(l) /\ Complete(l) /\ Ascends(l) /\ HistoryOf(l))'
    BY <1>2, <1>3, <1>8, <2>3, <2>5
       DEF LoopInv, Sound, Complete, Ascends, HistoryOf, Matching, Done, Exact, Loop
  <2>7. Behind(l)'
    <3> SUFFICES ASSUME NEW k \in Seen(l)' PROVE k = next \/ Below(k, next)
      BY <1>2, <2>3 DEF Behind, Loop
    <3> QED BY <1>8, <2>2, <2>5
  <2>8. Ahead(l)'
    <3> SUFFICES ASSUME Exact(l), NEW k \in Matching(x.throughout, l),
                        k \notin page, k \notin Seen(l)
                 PROVE  Below(next, k)
      BY <1>2, <2>3, <2>5 DEF Ahead, Exact, Matching, Loop
    <3>1. Below(x.after, k) /\ Starts(k, x.prefix) /\ k \in rows
      BY <1>2 DEF LoopInv, Ahead, HistoryOf, Matching
    <3> QED BY <1>3, <2>2, <3>1
  <2>9. LoopInv(l)'
    BY <2>6, <2>7, <2>8 DEF LoopInv
  <2>10. ASSUME NEW m \in Lister, m # l PROVE LoopInv(m)'
    <3>1. list'[m] = list[m]
      BY <1>2, <2>1, <2>10 DEF ListingTypeOK
    <3> QED BY <3>1, <1>2, OthersKeep
  <2> QED BY <2>4, <2>9, <2>10 DEF ListingInv
<1>10. CASE /\ Cardinality(page) # n
            /\ list' = [list EXCEPT ![l].page = page, ![l].earlier = Seen(l),
                                    ![l].pc = "done"]
  <2>1. list'[l] = [x EXCEPT !.page = page, !.earlier = Seen(l), !.pc = "done"]
    BY <1>2, <1>10 DEF ListingTypeOK
  <2>2. ListingTypeOK'
    BY <1>2, <1>5, <1>7, <1>10 DEF ListingTypeOK, Loop
  <2>3. Seen(l)' = page \cup Seen(l)
    BY <1>2, <2>1 DEF Seen, Loop
  <2>4. (Sound(l) /\ Ahead(l) /\ Behind(l) /\ Ascends(l) /\ HistoryOf(l))'
    BY <1>2, <1>3, <1>8, <2>1, <2>3
       DEF LoopInv, Sound, Ahead, Behind, Ascends, HistoryOf, Matching, Exact, Loop
  <2>5. Complete(l)'
    <3> SUFFICES ASSUME Exact(l), NEW k \in Matching(x.throughout, l),
                        k \notin page, k \notin Seen(l)
                 PROVE  FALSE
      BY <1>2, <2>1, <2>3 DEF Complete, Exact, Matching, Loop
    <3>1. Below(x.after, k) /\ Starts(k, x.prefix) /\ k \in rows
      BY <1>2 DEF LoopInv, Ahead, HistoryOf, Matching
    <3> QED BY <1>3, <1>10, <3>1
  <2>6. LoopInv(l)'
    BY <2>4, <2>5 DEF LoopInv
  <2>7. ASSUME NEW m \in Lister, m # l PROVE LoopInv(m)'
    <3>1. list'[m] = list[m]
      BY <1>2, <1>10, <2>7 DEF ListingTypeOK
    <3> QED BY <3>1, <1>2, OthersKeep
  <2> QED BY <2>2, <2>6, <2>7 DEF ListingInv
<1> QED BY <1>1, <1>9, <1>10

LEMMA PutKeeps ==
  ASSUME ListingInv, NEW k \in Key, PutKey(k)
  PROVE  ListingInv'
<1>1. /\ store' = store /\ rows' = rows \cup {k} /\ ListingTypeOK
      /\ list' = [l \in Lister |-> [list[l] EXCEPT !.sometime = @ \cup {k}]]
  BY DEF PutKey, ListingInv
<1>2. ListingTypeOK'
  BY <1>1, ZenonT(40) DEF ListingTypeOK, Loop
<1>3. ASSUME NEW l \in Lister PROVE LoopInv(l)'
  <2>1. list'[l] = [list[l] EXCEPT !.sometime = @ \cup {k}]
    BY <1>1
  <2>2. LoopInv(l) /\ list[l] \in Loop
    BY <1>1 DEF ListingInv, ListingTypeOK
  <2> QED BY <1>1, <2>1, <2>2
          DEF LoopInv, Sound, Ahead, Behind, Complete, Ascends, HistoryOf,
              Seen, Matching, Done, Exact, Loop
<1> QED BY <1>2, <1>3 DEF ListingInv

LEMMA DeleteKeeps ==
  ASSUME ListingInv, NEW k \in Key, DeleteKey(k)
  PROVE  ListingInv'
<1>1. /\ store' = store /\ rows' = rows \ {k} /\ ListingTypeOK
      /\ list' = [l \in Lister |-> [list[l] EXCEPT !.throughout = @ \ {k}]]
  BY DEF DeleteKey, ListingInv
<1>2. ListingTypeOK'
  BY <1>1 DEF ListingTypeOK, Loop
<1>3. ASSUME NEW l \in Lister PROVE LoopInv(l)'
  <2>1. list'[l] = [list[l] EXCEPT !.throughout = @ \ {k}]
    BY <1>1
  <2>2. LoopInv(l) /\ list[l] \in Loop
    BY <1>1 DEF ListingInv, ListingTypeOK
  <2> QED BY <1>1, <2>1, <2>2
          DEF LoopInv, Sound, Ahead, Behind, Complete, Ascends, HistoryOf,
              Seen, Matching, Done, Exact, Loop
<1> QED BY <1>2, <1>3 DEF ListingInv

----------------------------------------------------------------------------
(* The invariant holds.                                                    *)

LEMMA Invariant == ListingSpec => []ListingInv
<1>1. ListingInit => ListingInv
  <2> SUFFICES ASSUME ListingInit PROVE ListingInv
    OBVIOUS
  <2> USE DEF ListingInit
  <2>1. PICK p \in Prefix, n \in AskedLimit :
          list = [l \in Lister |->
                    [pc |-> "idle", prefix |-> p, asked |-> n, after |-> <<>>,
                     page |-> {}, earlier |-> {},
                     throughout |-> {}, sometime |-> {}]]
    OBVIOUS
  <2>2. Cardinality({}) <= MaxListLimit
    BY FS_EmptySet, KeyspaceAssumption
  <2>3. ListingTypeOK
    BY <2>1, <2>2 DEF ListingTypeOK, Loop
  <2>4. \A l \in Lister : LoopInv(l)
    BY <2>1 DEF LoopInv, Sound, Ahead, Behind, Complete, Ascends, HistoryOf,
                Seen, Matching, Done
  <2> QED BY <2>3, <2>4 DEF ListingInv
<1>2. ListingInv /\ [ListingNext]_listingVars => ListingInv'
  <2> SUFFICES ASSUME ListingInv, [ListingNext]_listingVars PROVE ListingInv'
    OBVIOUS
  <2>1. ASSUME NEW l \in Lister, Start(l) PROVE ListingInv'
    BY <2>1, StartKeeps
  <2>2. ASSUME NEW l \in Lister, Refuse(l) PROVE ListingInv'
    BY <2>2, RefuseKeeps
  <2>3. ASSUME NEW l \in Lister, Page(l) PROVE ListingInv'
    BY <2>3, PageKeeps
  <2>4. ASSUME NEW k \in Key, PutKey(k) PROVE ListingInv'
    BY <2>4, PutKeeps
  <2>5. ASSUME NEW k \in Key, DeleteKey(k) PROVE ListingInv'
    BY <2>5, DeleteKeeps
  <2>6. CASE UNCHANGED listingVars
    BY <2>6 DEF listingVars, ListingInv, ListingTypeOK, LoopInv, Sound, Ahead,
                Behind, Complete, Ascends, HistoryOf, Seen, Matching, Done, Exact
  <2> QED BY <2>1, <2>2, <2>3, <2>4, <2>5, <2>6 DEF ListingNext, Follow
<1> QED BY <1>1, <1>2, PTL DEF ListingSpec

(* The record of every loop is well formed and no page exceeds the         *)
(* server's maximum.                                                       *)
THEOREM ListingTypeCorrect == ListingSpec => []ListingTypeOK
<1>1. ListingInv => ListingTypeOK
  BY DEF ListingInv
<1> QED BY <1>1, Invariant, PTL

(* A loop that ends has yielded every key with its prefix that was there   *)
(* throughout and nothing else than keys that were there at some time, on  *)
(* the in-memory store for all prefixes and on SQLite for ASCII prefixes.  *)
THEOREM ListingComplete == ListingSpec => []ListsEveryAsciiKey
<1>1. ListingInv => ListsEveryAsciiKey
  BY DEF ListingInv, LoopInv, ListsEveryAsciiKey, Complete, Sound, Exact, Done
<1> QED BY <1>1, Invariant, PTL

(* The pages of one loop ascend: no key is yielded twice.                  *)
THEOREM ListingAscends == ListingSpec => []PagesAscend
<1>1. ListingInv => PagesAscend
  BY DEF ListingInv, LoopInv, PagesAscend, Ascends
<1> QED BY <1>1, Invariant, PTL

(* The two stores answer alike for every ASCII prefix.                     *)
THEOREM ListingStoresAgree == ListingSpec => []StoresAgree
<1>1. ListingInv => StoresAgree
  BY AgreeNow DEF ListingInv
<1> QED BY <1>1, Invariant, PTL
=============================================================================
