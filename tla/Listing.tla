------------------------------- MODULE Listing -------------------------------
(***************************************************************************)
(* Listing the keys of one bucket page by page while objects come and go:  *)
(* ListObjects of the two stores (internal/sqlite/objects.go,              *)
(* internal/memory/objectstore.go), the handler that cuts pages            *)
(* (listObjects in internal/httpapi/objects.go) and the SDK's loop that    *)
(* follows them (list in sdk/typescript/src/api/objects.ts).               *)
(*                                                                         *)
(* A key is a sequence of code points: UTF-8 sorts bytewise as its code    *)
(* points do, but one of them takes up to four bytes.                      *)
(***************************************************************************)
EXTENDS FiniteSets, Integers, Sequences

CONSTANTS
  Key,           \* keys that objects may have
  Prefix,        \* prefixes that clients ask for
  AskedLimit,    \* limits that clients ask for
  Absent,        \* the limit of a request without one
  MaxListLimit,  \* largest page
  Lister         \* concurrently running listings

ASSUME KeyspaceAssumption ==
  /\ Key \subseteq Seq(Nat) /\ <<>> \notin Key
  /\ Prefix \subseteq Seq(Nat)
  /\ AskedLimit \subseteq Int \cup {Absent}
  /\ Absent \notin Int
  /\ MaxListLimit \in Nat \ {0}

VARIABLES
  store,  \* which of the two stores the server runs on
  rows,   \* keys of the bucket's objects
  list    \* list[l]: a client's loop over pages

listingVars == <<store, rows, list>>

----------------------------------------------------------------------------
(* Strings.                                                                *)

(* Bytewise order: at the first place they differ, a has ended or is less. *)
Below(a, b) ==
  \E i \in 1 .. Len(b) :
    /\ i <= Len(a) + 1
    /\ \A j \in 1 .. (i - 1) : a[j] = b[j]
    /\ i <= Len(a) => a[i] < b[i]

Starts(k, p) == Len(p) <= Len(k) /\ SubSeq(k, 1, Len(p)) = p

From(s, c) == {i \in 1 .. Len(s) : s[i] >= c}

(* Go's len: bytes of the UTF-8 form, which takes one more from each of    *)
(* these code points on.                                                   *)
ByteLen(s) == Len(s) + Cardinality(From(s, 128)) + Cardinality(From(s, 2048))
                     + Cardinality(From(s, 65536))

Ascii(s) == \A i \in 1 .. Len(s) : s[i] < 128

----------------------------------------------------------------------------
(* ListObjects.                                                            *)

(* SQLite's substr counts characters.                                      *)
Substr(s, n) == SubSeq(s, 1, IF n < Len(s) THEN n ELSE Len(s))

(* Mutants: the scan has no end; the cursor itself is not skipped.         *)
SqliteMatchesRange(p, after) == {k \in rows : ~Below(k, p) /\ Below(after, k)}

MemoryMatchesInclusive(p, after) ==
  {k \in rows : Starts(k, p) /\ ~Below(k, after)}

SqliteMatches(p, after) ==
  {k \in rows : /\ ~Below(k, p)
                /\ Substr(k, ByteLen(p)) = p
                /\ Below(after, k)}

MemoryMatches(p, after) == {k \in rows : Starts(k, p) /\ Below(after, k)}

Matches(p, after) == IF store = "sqlite" THEN SqliteMatches(p, after)
                                         ELSE MemoryMatches(p, after)

(* The first n of a set of keys in order, all of them if there are fewer.  *)
IsFirst(page, keys, n) ==
  /\ page \subseteq keys
  /\ \A j \in page, k \in keys \ page : Below(j, k)
  /\ Cardinality(page) \in 0 .. n
  /\ Cardinality(page) = n \/ page = keys

ListObjects(p, after, n) ==
  {page \in SUBSET Matches(p, after) : IsFirst(page, Matches(p, after), n)}

----------------------------------------------------------------------------
(* The handler and the loop.                                               *)

(* page: the keys of the last page, never more than the maximum; earlier:  *)
(* those of the pages before it.  throughout, sometime: history, the keys  *)
(* present all the time and at some time since the loop began.             *)
Loop == [pc : {"idle", "page", "done", "refused"}, prefix : Prefix,
         asked : AskedLimit, after : Key \cup {<<>>},
         page : {S \in SUBSET Key : Cardinality(S) <= MaxListLimit},
         earlier : SUBSET Key,
         throughout : SUBSET Key, sometime : SUBSET Key]

Valid(asked) == IF asked = Absent THEN TRUE ELSE asked > 0

(* Mutant: the server's maximum is only the default.                       *)
LimitAsAsked(asked) == IF asked = Absent THEN MaxListLimit ELSE asked

Limit(asked) ==
  IF asked = Absent THEN MaxListLimit
  ELSE IF asked < MaxListLimit THEN asked
  ELSE MaxListLimit

Seen(l) == list[l].page \cup list[l].earlier

(* Mutant: the first key of a page.                                        *)
FirstOf(page) == {k \in page : \A j \in page : j = k \/ Below(k, j)}

LastOf(page) == {k \in page : \A j \in page : j = k \/ Below(j, k)}

Start(l) ==
  /\ list[l].pc # "page"
  /\ \E p \in Prefix, n \in AskedLimit :
       list' = [list EXCEPT ![l] =
                  [pc |-> "page", prefix |-> p, asked |-> n, after |-> <<>>,
                   page |-> {}, earlier |-> {},
                   throughout |-> rows, sometime |-> rows]]
  /\ UNCHANGED <<store, rows>>

Refuse(l) ==
  /\ list[l].pc = "page"
  /\ ~Valid(list[l].asked)
  /\ list' = [list EXCEPT ![l].pc = "refused"]
  /\ UNCHANGED <<store, rows>>

(* "next" is there when the page is full, and is the page's last key.      *)
Page(l) ==
  /\ list[l].pc = "page"
  /\ Valid(list[l].asked)
  /\ LET n == Limit(list[l].asked)
     IN  \E page \in ListObjects(list[l].prefix, list[l].after, n) :
           \/ /\ Cardinality(page) = n
              /\ \E next \in LastOf(page) :
                   list' = [list EXCEPT ![l].page = page, ![l].earlier = Seen(l),
                                        ![l].after = next]
           \/ /\ Cardinality(page) # n
              /\ list' = [list EXCEPT ![l].page = page, ![l].earlier = Seen(l),
                                      ![l].pc = "done"]
  /\ UNCHANGED <<store, rows>>

PutKey(k) ==
  /\ rows' = rows \cup {k}
  /\ list' = [l \in Lister |->
                [list[l] EXCEPT !.sometime = @ \cup {k}]]
  /\ UNCHANGED store

DeleteKey(k) ==
  /\ rows' = rows \ {k}
  /\ list' = [l \in Lister |->
                [list[l] EXCEPT !.throughout = @ \ {k}]]
  /\ UNCHANGED store

ListingInit ==
  /\ store \in {"sqlite", "memory"}
  /\ rows \in SUBSET Key
  /\ \E p \in Prefix, n \in AskedLimit :
       list = [l \in Lister |->
                 [pc |-> "idle", prefix |-> p, asked |-> n, after |-> <<>>,
                  page |-> {}, earlier |-> {},
                  throughout |-> {}, sometime |-> {}]]

Follow(l) == Refuse(l) \/ Page(l)

ListingNext ==
  \/ \E l \in Lister : Start(l) \/ Follow(l)
  \/ \E k \in Key : PutKey(k) \/ DeleteKey(k)

ListingSpec == ListingInit /\ [][ListingNext]_listingVars

(* A client that has asked for a page goes on, and the server answers.     *)
FairListingSpec ==
  ListingSpec /\ \A l \in Lister : WF_listingVars(Follow(l))

----------------------------------------------------------------------------
(* Properties.                                                             *)

ListingTypeOK ==
  /\ store \in {"sqlite", "memory"}
  /\ rows \subseteq Key
  /\ list \in [Lister -> Loop]

Done(l) == list[l].pc = "done"

Matching(keys, l) == {k \in keys : Starts(k, list[l].prefix)}

(* spec/wire.md 7: "Only keys that start with this string", all of them.   *)
(* A finished loop has yielded each key that was there all the time, and   *)
(* none that never was, whatever pages were cut and however objects came   *)
(* and went between two of them.                                           *)
ListsEveryKey ==
  \A l \in Lister : Done(l) =>
    /\ Matching(list[l].throughout, l) \subseteq Seen(l)
    /\ Seen(l) \subseteq Matching(list[l].sometime, l)

(* The same where the code keeps it: on SQLite not for every prefix.       *)
ListsEveryAsciiKey ==
  \A l \in Lister : Done(l) /\ (store = "sqlite" => Ascii(list[l].prefix)) =>
    /\ Matching(list[l].throughout, l) \subseteq Seen(l)
    /\ Seen(l) \subseteq Matching(list[l].sometime, l)

(* "lists the bucket's objects in bytewise key order": pages follow one    *)
(* another upwards, so no key is yielded twice, even one that is deleted   *)
(* and put again between two pages.                                        *)
PagesAscend ==
  \A l \in Lister : \A j \in list[l].earlier, k \in list[l].page : Below(j, k)

(* The in-memory store, on which the conformance server runs, lists what   *)
(* the SQLite store lists: same prefix, cursor and objects, same keys.     *)
StoresAgree ==
  \A p \in Prefix, after \in Key \cup {<<>>} :
    Ascii(p) => SqliteMatches(p, after) = MemoryMatches(p, after)

(* A loop over pages ends: each full page moves the cursor on, also while  *)
(* others write.                                                           *)
ListingEnds ==
  \A l \in Lister : list[l].pc = "page" ~> list[l].pc # "page"
=============================================================================
