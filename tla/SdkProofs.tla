------------------------------ MODULE SdkProofs ------------------------------
(***************************************************************************)
(* SdkInv is an inductive invariant of an upload call.  From it follow     *)
(* that the object is the source, that an aborted call leaves nothing      *)
(* behind, that progress is honest, and that a settled call is quiet.      *)
(***************************************************************************)
EXTENDS SdkInv, CrcProofs

----------------------------------------------------------------------------
(* Sums.                                                                   *)

LEMMA TotalFacts ==
  ASSUME NEW N \in Nat, NEW f \in [1 .. N -> Nat]
  PROVE  /\ Total(f, 0) = 0
         /\ \A k \in 1 .. N : Total(f, k) = Total(f, k - 1) + f[k]
         /\ \A k \in 0 .. N : Total(f, k) \in Nat
<1> DEFINE g == [k \in 1 .. N |-> [x \in Nat |-> x + f[k]]]
<1>1. g \in Rules(N, Nat)
  BY DEF Rules
<1>2. PICK F : Follows(F, N, Nat, 0, g)
  <2> HIDE DEF g
  <2> QED BY <1>1, Recursion
<1>3. F \in [0 .. N -> Nat] /\ F[0] = 0 /\ \A k \in 1 .. N : F[k] = g[k][F[k - 1]]
  <2> HIDE DEF g
  <2> QED BY <1>2 DEF Follows
<1>4. \A k \in 1 .. N : F[k] = F[k - 1] + f[k]
  <2>1. \A k \in 1 .. N : F[k - 1] \in Nat
    BY <1>3
  <2> QED BY <1>3, <2>1
<1> HIDE DEF g
<1>5. ASSUME NEW n \in 0 .. N PROVE Total(f, n) = F[n]
  <2> DEFINE upTo[k \in 0 .. n] == IF k = 0 THEN 0 ELSE upTo[k - 1] + f[k]
  <2> DEFINE G == [k \in 0 .. n |-> F[k]]
  <2>1. G = [k \in 0 .. n |-> IF k = 0 THEN 0 ELSE G[k - 1] + f[k]]
    <3>1. \A k \in 0 .. n : F[k] = IF k = 0 THEN 0 ELSE F[k - 1] + f[k]
      BY <1>3, <1>4
    <3>2. \A k \in 0 .. n : k # 0 => G[k - 1] = F[k - 1]
      OBVIOUS
    <3> QED BY <3>1, <3>2
  <2>2. upTo = [k \in 0 .. n |-> IF k = 0 THEN 0 ELSE upTo[k - 1] + f[k]]
    <3> HIDE DEF G
    <3> QED BY <2>1
  <2>3. Total(f, n) = upTo[n]
    BY DEF Total, upTo
  <2> HIDE DEF upTo, G
  <2>4. upTo[0] = 0 /\ \A k \in 1 .. n : upTo[k] = upTo[k - 1] + f[k]
    BY <2>2
  <2> DEFINE T == {k \in Nat : upTo[k] = F[k]}
  <2>5. 0 \in T
    BY <1>3, <2>4
  <2>6. \A k \in 1 .. n : k - 1 \in T => k \in T
    BY <1>4, <2>4
  <2>7. \A k \in 0 .. n : k \in T
    <3> HIDE DEF T
    <3>1. n \in Nat
      OBVIOUS
    <3> QED BY <2>5, <2>6, <3>1, BoundedInduction
  <2> QED BY <2>3, <2>7
<1> QED BY <1>3, <1>4, <1>5

LEMMA AddBelow ==
  ASSUME NEW a \in Nat, NEW b \in Nat, NEW c \in Nat, NEW x \in Nat, NEW y \in Nat,
         NEW z \in Nat, a + b <= c, x + y <= z
  PROVE  (a + x) + (b + y) <= c + z
OBVIOUS

LEMMA TotalStep ==
  ASSUME NEW N \in Nat, NEW f \in [1 .. N -> Nat], NEW k \in 1 .. N
  PROVE  /\ Total(f, k) = Total(f, k - 1) + f[k]
         /\ Total(f, k) \in Nat /\ Total(f, k - 1) \in Nat /\ f[k] \in Nat
<1>1. k - 1 \in 0 .. N /\ k \in 0 .. N /\ f[k] \in Nat
  OBVIOUS
<1> QED BY <1>1, TotalFacts

(* One number of the sum changes.                                          *)
LEMMA TotalUpdate ==
  ASSUME NEW N \in Nat, NEW f \in [1 .. N -> Nat], NEW h \in [1 .. N -> Nat],
         NEW j \in 1 .. N, \A k \in 1 .. N : k # j => h[k] = f[k]
  PROVE  Total(h, N) + f[j] = Total(f, N) + h[j]
<1> DEFINE T == {k \in Nat : IF k < j THEN Total(h, k) = Total(f, k)
                             ELSE Total(h, k) + f[j] = Total(f, k) + h[j]}
<1>1. 0 \in T
  BY TotalFacts
<1>2. ASSUME NEW k \in 1 .. N, k - 1 \in T PROVE k \in T
  <2>f. /\ Total(f, k) = Total(f, k - 1) + f[k]
        /\ Total(f, k) \in Nat /\ Total(f, k - 1) \in Nat /\ f[k] \in Nat
    BY TotalStep
  <2>h. /\ Total(h, k) = Total(h, k - 1) + h[k]
        /\ Total(h, k) \in Nat /\ Total(h, k - 1) \in Nat /\ h[k] \in Nat
    BY TotalStep
  <2>1. /\ Total(f, k) = Total(f, k - 1) + f[k] /\ Total(h, k) = Total(h, k - 1) + h[k]
        /\ Total(f, k - 1) \in Nat /\ Total(h, k - 1) \in Nat
        /\ Total(f, k) \in Nat /\ Total(h, k) \in Nat
        /\ f[k] \in Nat /\ h[k] \in Nat /\ f[j] \in Nat /\ h[j] \in Nat
    BY <2>f, <2>h
  <2>2. CASE k < j
    <3>1. Total(h, k - 1) = Total(f, k - 1) /\ h[k] = f[k]
      BY <1>2, <2>2
    <3> QED BY <2>1, <2>2, <3>1
  <2>3. CASE k = j
    <3>1. Total(h, k - 1) = Total(f, k - 1)
      BY <1>2, <2>3
    <3>2. Total(h, k) + f[j] = Total(f, k) + h[j]
      BY <2>1, <2>3, <3>1
    <3> QED BY <2>3, <3>2
  <2>4. CASE k > j
    <3>1. Total(h, k - 1) + f[j] = Total(f, k - 1) + h[j] /\ h[k] = f[k]
      BY <1>2, <2>4
    <3>2. (Total(h, k - 1) + f[k]) + f[j] = (Total(f, k - 1) + f[k]) + h[j]
      <4> DEFINE a == Total(h, k - 1)
      <4> DEFINE b == Total(f, k - 1)
      <4> DEFINE c == f[k]
      <4> DEFINE x == f[j]
      <4> DEFINE y == h[j]
      <4>1. a \in Nat /\ b \in Nat /\ c \in Nat /\ x \in Nat /\ y \in Nat
        BY <2>1
      <4>2. a + x = b + y
        BY <3>1
      <4> HIDE DEF a, b, c, x, y
      <4>3. (a + c) + x = (b + c) + y
        BY <4>1, <4>2
      <4> QED BY <4>3 DEF a, b, c, x, y
    <3>3. Total(h, k) + f[j] = Total(f, k) + h[j]
      BY <2>1, <3>1, <3>2
    <3> QED BY <2>4, <3>3
  <2> QED BY <2>2, <2>3, <2>4
<1>3. \A k \in 0 .. N : k \in T
  <2> HIDE DEF T
  <2> QED BY <1>1, <1>2, BoundedInduction
<1>4. N \in T /\ ~(N < j)
  <2> HIDE DEF T
  <2> QED BY <1>3
<1> QED BY <1>4

(* Sums of numbers that together stay below others.                        *)
LEMMA TotalBelow ==
  ASSUME NEW N \in Nat, NEW f \in [1 .. N -> Nat], NEW g \in [1 .. N -> Nat],
         NEW h \in [1 .. N -> Nat], \A k \in 1 .. N : f[k] + g[k] <= h[k]
  PROVE  Total(f, N) + Total(g, N) <= Total(h, N)
<1> DEFINE T == {k \in Nat : Total(f, k) + Total(g, k) <= Total(h, k)}
<1>1. 0 \in T
  <2>1. Total(f, 0) = 0
    BY TotalFacts
  <2>2. Total(g, 0) = 0
    BY TotalFacts
  <2>3. Total(h, 0) = 0
    BY TotalFacts
  <2> QED BY <2>1, <2>2, <2>3
<1>2. ASSUME NEW k \in 1 .. N, k - 1 \in T PROVE k \in T
  <2>1. /\ Total(f, k) = Total(f, k - 1) + f[k]
        /\ Total(f, k) \in Nat /\ Total(f, k - 1) \in Nat /\ f[k] \in Nat
    BY TotalStep
  <2>2. /\ Total(g, k) = Total(g, k - 1) + g[k]
        /\ Total(g, k) \in Nat /\ Total(g, k - 1) \in Nat /\ g[k] \in Nat
    BY TotalStep
  <2>3. /\ Total(h, k) = Total(h, k - 1) + h[k]
        /\ Total(h, k) \in Nat /\ Total(h, k - 1) \in Nat /\ h[k] \in Nat
    BY TotalStep
  <2>4. Total(f, k - 1) + Total(g, k - 1) <= Total(h, k - 1) /\ f[k] + g[k] <= h[k]
    BY <1>2
  <2>5. Total(f, k) + Total(g, k) <= Total(h, k)
    <3>1. (Total(f, k - 1) + f[k]) + (Total(g, k - 1) + g[k]) <= Total(h, k - 1) + h[k]
      BY <2>1, <2>2, <2>3, <2>4, AddBelow
    <3> QED BY <2>1, <2>2, <2>3, <3>1
  <2> QED BY <2>5
<1>3. \A k \in 0 .. N : k \in T
  <2> HIDE DEF T
  <2> QED BY <1>1, <1>2, BoundedInduction
<1>4. N \in T
  <2> HIDE DEF T
  <2> QED BY <1>3
<1> QED BY <1>4

(* Nothing adds up to nothing.                                             *)
LEMMA TotalZero ==
  ASSUME NEW N \in Nat, NEW f \in [1 .. N -> Nat], \A k \in 1 .. N : f[k] = 0
  PROVE  Total(f, N) = 0
<1> DEFINE T == {k \in Nat : Total(f, k) = 0}
<1>1. 0 \in T
  BY TotalFacts
<1>2. ASSUME NEW k \in 1 .. N, k - 1 \in T PROVE k \in T
  <2>1. Total(f, k) = Total(f, k - 1) + f[k] /\ f[k] = 0 /\ Total(f, k - 1) = 0
    BY <1>2, TotalFacts
  <2> QED BY <2>1
<1>3. \A k \in 0 .. N : k \in T
  <2> HIDE DEF T
  <2> QED BY <1>1, <1>2, BoundedInduction
<1>4. N \in T
  <2> HIDE DEF T
  <2> QED BY <1>3
<1> QED BY <1>4

----------------------------------------------------------------------------
(* Slices.                                                                 *)

LEMMA TimesMonotone ==
  ASSUME NEW a \in Nat, NEW b \in Nat, NEW c \in Nat, a <= b
  PROVE  a * c <= b * c
OBVIOUS

LEMMA SourceFacts ==
  ASSUME source \in Sources
  PROVE  /\ source.partSize \in Nat \ {0} /\ source.concurrency \in Nat \ {0}
         /\ source.bytes \in Seq(Byte) /\ Size \in Nat \ {0}
         /\ Count \in Nat \ {0}
         /\ (Count - 1) * source.partSize < Size /\ Size <= Count * source.partSize
<1>1. /\ source.partSize \in Nat \ {0} /\ source.concurrency \in Nat \ {0}
      /\ source.bytes \in Seq(SUBSET (0 .. 7)) /\ source.bytes # <<>>
  BY SdkAssumption
<1>2. source.bytes \in Seq(Byte)
  BY <1>1 DEF Byte
<1>3. Size \in Nat \ {0}
  BY <1>1 DEF Size
<1> DEFINE p == source.partSize
<1> DEFINE n == Size + p - 1
<1> DEFINE q == Count
<1>4. p \in Nat \ {0} /\ n \in Nat /\ n >= p /\ q = n \div p
  BY <1>1, <1>3 DEF Count
<1>5. Size = n - p + 1
  BY <1>1, <1>3
<1> HIDE DEF p, n, q
<1>6. q \in Int /\ p * q <= n /\ n < p * q + p
  BY <1>4
<1>7. q \in Nat \ {0}
  BY <1>4, <1>6
<1>8. (q - 1) * p < n - p + 1 /\ n - p + 1 <= q * p
  BY <1>4, <1>6, <1>7
<1> QED BY <1>1, <1>2, <1>3, <1>5, <1>7, <1>8 DEF p, q

(* Where part k ends.                                                      *)
End(k) == Smallest(k * source.partSize, Size)

LEMMA EndFacts ==
  ASSUME source \in Sources
  PROVE  /\ End(0) = 0 /\ End(Count) = Size
         /\ \A n \in 1 .. Count : /\ End(n - 1) = (n - 1) * source.partSize
                                  /\ End(n - 1) \in Nat /\ End(n) \in Nat
                                  /\ End(n - 1) < End(n) /\ End(n) <= Size
                                  /\ n < Count => End(n) - End(n - 1) = source.partSize
                                  /\ End(n) - End(n - 1) <= source.partSize
<1> DEFINE p == source.partSize
<1>1. /\ p \in Nat \ {0} /\ Size \in Nat \ {0} /\ Count \in Nat \ {0}
      /\ (Count - 1) * p < Size /\ Size <= Count * p
  BY SourceFacts
<1> HIDE DEF p
<1>2. ASSUME NEW n \in 1 .. Count
      PROVE  (n - 1) * p \in Nat /\ (n - 1) * p < Size /\ n * p = (n - 1) * p + p
  <2>1. n - 1 \in Nat /\ Count - 1 \in Nat /\ n - 1 <= Count - 1
    BY <1>1
  <2>2. (n - 1) * p <= (Count - 1) * p
    BY <1>1, <2>1, TimesMonotone
  <2> QED BY <1>1, <2>1, <2>2
<1>3. ASSUME NEW n \in 1 .. Count, n < Count PROVE n * p < Size
  <2>1. n \in Nat /\ Count - 1 \in Nat /\ n <= Count - 1
    BY <1>1, <1>3
  <2>2. n * p <= (Count - 1) * p
    BY <1>1, <2>1, TimesMonotone
  <2> QED BY <1>1, <2>1, <2>2
<1>4. End(0) = 0
  BY <1>1 DEF End, Smallest, p
<1>5. End(Count) = Size
  BY <1>1 DEF End, Smallest, p
<1>6. ASSUME NEW n \in 1 .. Count
      PROVE  /\ End(n - 1) = (n - 1) * p
             /\ End(n - 1) \in Nat /\ End(n) \in Nat
             /\ End(n - 1) < End(n) /\ End(n) <= Size
             /\ n < Count => End(n) - End(n - 1) = p
             /\ End(n) - End(n - 1) <= p
  <2> DEFINE x == (n - 1) * p
  <2>1. x \in Nat /\ x < Size /\ n * p = x + p
    BY <1>2
  <2>2. n < Count => x + p < Size
    BY <1>3, <2>1
  <2>3. End(n - 1) = Smallest(x, Size) /\ End(n) = Smallest(x + p, Size)
    BY <2>1 DEF End, p
  <2> HIDE DEF x
  <2> QED BY <1>1, <2>1, <2>2, <2>3 DEF Smallest, x
<1> QED BY <1>4, <1>5, <1>6 DEF p

LEMMA SliceFacts ==
  ASSUME source \in Sources, NEW n \in 1 .. Count
  PROVE  /\ Slice(source, n) \in Seq(Byte)
         /\ Len(Slice(source, n)) = End(n) - End(n - 1) /\ Len(Slice(source, n)) \in Nat \ {0}
         /\ Slice(source, n) = SubSeq(source.bytes, End(n - 1) + 1, End(n))
         /\ \A i \in 1 .. Len(Slice(source, n)) :
              Slice(source, n)[i] = source.bytes[End(n - 1) + i]
         /\ Sum[Slice(source, n)] = Crc(Slice(source, n))
         /\ Offset(n) = End(n - 1)
<1>1. /\ source.bytes \in Seq(Byte) /\ Size = Len(source.bytes)
      /\ Size \in Nat \ {0} /\ Count \in Nat \ {0} /\ source.partSize \in Nat \ {0}
  BY SourceFacts DEF Size
<1>2. /\ End(n - 1) = (n - 1) * source.partSize /\ End(n - 1) \in Nat /\ End(n) \in Nat
      /\ End(n - 1) < End(n) /\ End(n) <= Size
  BY EndFacts
<1>3. Slice(source, n) = SubSeq(source.bytes, End(n - 1) + 1, End(n))
  BY <1>2 DEF Slice, End, Size
<1> DEFINE a == End(n - 1)
<1> DEFINE b == End(n)
<1> DEFINE s == source.bytes
<1>4. s \in Seq(Byte) /\ a \in Nat /\ b \in Nat /\ a < b /\ b <= Len(s)
  BY <1>1, <1>2
<1> HIDE DEF a, b, s
<1>5. /\ SubSeq(s, a + 1, b) \in Seq(Byte) /\ Len(SubSeq(s, a + 1, b)) = b - a
      /\ \A i \in 1 .. b - a : SubSeq(s, a + 1, b)[i] = s[a + i]
  BY <1>4
<1>6. Slice(source, n) = SubSeq(s, a + 1, b)
  BY <1>3 DEF a, b, s
<1>7. Slice(source, n) \in UNION {{Slice(t, k) : k \in 1 .. Len(t.bytes)} : t \in Sources}
  <2>1. Count <= Size
    <3>1. Count \in Nat /\ source.partSize \in Nat \ {0} /\ (Count - 1) * source.partSize < Size
      BY SourceFacts
    <3>2. Count - 1 <= (Count - 1) * source.partSize
      BY <1>1, <3>1
    <3> QED BY <1>1, <3>1, <3>2
  <2>2. n \in 1 .. Len(source.bytes)
    BY <1>1, <2>1
  <2> QED BY <2>2
<1>8. Sum[Slice(source, n)] = Crc(Slice(source, n))
  BY <1>7 DEF Sum
<1>9. Offset(n) = a
  BY <1>2 DEF Offset, a
<1> QED BY <1>3, <1>4, <1>5, <1>6, <1>8, <1>9 DEF a, b, s

(* The slices are the source.                                              *)
SliceLength == [n \in 1 .. Count |-> Len(Slice(source, n))]

LEMMA SlicesAddUp ==
  ASSUME source \in Sources
  PROVE  SliceLength \in [1 .. Count -> Nat] /\ Total(SliceLength, Count) = Size
<1>1. Count \in Nat /\ SliceLength \in [1 .. Count -> Nat]
  BY SourceFacts, SliceFacts DEF SliceLength
<1> DEFINE T == {k \in Nat : Total(SliceLength, k) = End(k)}
<1>2. 0 \in T
  BY <1>1, TotalFacts, EndFacts
<1>3. ASSUME NEW k \in 1 .. Count, k - 1 \in T PROVE k \in T
  <2>1. Total(SliceLength, k) = Total(SliceLength, k - 1) + SliceLength[k]
    BY <1>1, TotalStep
  <2>2. SliceLength[k] = End(k) - End(k - 1)
    BY SliceFacts DEF SliceLength
  <2>3. End(k) \in Nat /\ End(k - 1) \in Nat
    BY EndFacts
  <2>4. Total(SliceLength, k - 1) = End(k - 1)
    BY <1>3
  <2>5. Total(SliceLength, k) = End(k)
    BY <2>1, <2>2, <2>3, <2>4
  <2> QED BY <2>5
<1>4. \A k \in 0 .. Count : k \in T
  <2> HIDE DEF T
  <2> QED BY <1>1, <1>2, <1>3, BoundedInduction
<1>5. Count \in T
  <2> HIDE DEF T
  <2> QED BY <1>1, <1>4
<1> QED BY <1>1, <1>5, EndFacts

(* The first k parts.                                                      *)
Prefix(k) == SubSeq(source.bytes, 1, End(k))

LEMMA PrefixFacts ==
  ASSUME source \in Sources
  PROVE  /\ \A k \in 1 .. Count : Prefix(k) \in Seq(Byte)
         /\ Prefix(1) = Slice(source, 1) /\ Prefix(Count) = source.bytes
         /\ \A k \in 2 .. Count : Prefix(k) = Prefix(k - 1) \o Slice(source, k)
<1>1. /\ source.bytes \in Seq(Byte) /\ Size = Len(source.bytes)
      /\ Size \in Nat \ {0} /\ Count \in Nat \ {0}
  BY SourceFacts DEF Size
<1>2. \A k \in 1 .. Count : Prefix(k) \in Seq(Byte)
  <2> SUFFICES ASSUME NEW k \in 1 .. Count PROVE Prefix(k) \in Seq(Byte)
    OBVIOUS
  <2>1. End(k) \in Nat /\ End(k) <= Size
    BY EndFacts
  <2> QED BY <1>1, <2>1 DEF Prefix
<1>3. Prefix(1) = Slice(source, 1)
  <2>1. 1 \in 1 .. Count /\ 1 - 1 = 0
    BY <1>1
  <2>2. Slice(source, 1) = SubSeq(source.bytes, End(0) + 1, End(1))
    BY <2>1, SliceFacts
  <2>3. End(0) + 1 = 1
    BY EndFacts
  <2> QED BY <2>2, <2>3 DEF Prefix
<1>4. Prefix(Count) = source.bytes
  <2>1. Prefix(Count) = SubSeq(source.bytes, 1, Len(source.bytes))
    BY <1>1, EndFacts DEF Prefix
  <2> QED BY <1>1, <2>1
<1>5. ASSUME NEW k \in 2 .. Count PROVE Prefix(k) = Prefix(k - 1) \o Slice(source, k)
  <2> DEFINE a == End(k - 1)
  <2> DEFINE b == End(k)
  <2> DEFINE s == source.bytes
  <2>1. k \in 1 .. Count
    BY <1>1
  <2>2. s \in Seq(Byte) /\ a \in Nat /\ b \in Nat /\ a < b /\ b <= Len(s)
    BY <1>1, <2>1, EndFacts
  <2>3. Prefix(k) = SubSeq(s, 1, b) /\ Prefix(k - 1) = SubSeq(s, 1, a)
    BY DEF Prefix
  <2>4. Slice(source, k) = SubSeq(s, a + 1, b)
    BY <2>1, SliceFacts
  <2> HIDE DEF a, b, s
  <2>5. SubSeq(s, 1, b) = SubSeq(s, 1, a) \o SubSeq(s, a + 1, b)
    BY <2>2
  <2> QED BY <2>3, <2>4, <2>5
<1> QED BY <1>2, <1>3, <1>4, <1>5

(* The row of a part that was received.                                    *)
RowOf(n) == [size |-> Len(Slice(source, n)), sum |-> Sum[Slice(source, n)]]

(* complete folds the rows of all parts into the row of the source.        *)
LEMMA FoldIsWhole ==
  ASSUME source \in Sources
  PROVE  FoldParts([n \in 1 .. Count |-> RowOf(n)]) = [size |-> Size, sum |-> Crc(source.bytes)]
<1> DEFINE row == [n \in 1 .. Count |-> RowOf(n)]
<1> DEFINE Fold(acc, r) == [size |-> acc.size + r.size, sum |-> Combine(acc.sum, r.sum, r.size)]
<1> DEFINE folded[i \in 0 .. Count - 1] ==
             IF i = 0 THEN row[1] ELSE Fold(folded[i - 1], row[i + 1])
<1> DEFINE G == [i \in 0 .. Count - 1 |-> [size |-> End(i + 1), sum |-> Crc(Prefix(i + 1))]]
<1>1. Count \in Nat \ {0}
  BY SourceFacts
<1>2. row[1] = G[0]
  <2>1. 1 \in 1 .. Count /\ 0 \in 0 .. Count - 1 /\ 1 - 1 = 0 /\ 0 + 1 = 1
    BY <1>1
  <2>2. row[1] = [size |-> Len(Slice(source, 1)), sum |-> Sum[Slice(source, 1)]]
    BY <2>1 DEF RowOf
  <2>3. G[0] = [size |-> End(1), sum |-> Crc(Prefix(1))]
    BY <2>1
  <2>4. Len(Slice(source, 1)) = End(1) - End(0) /\ Sum[Slice(source, 1)] = Crc(Slice(source, 1))
    BY <2>1, SliceFacts
  <2>5. End(0) = 0 /\ End(1) \in Nat
    BY <2>1, EndFacts
  <2>6. Len(Slice(source, 1)) = End(1)
    BY <2>4, <2>5
  <2>7. Prefix(1) = Slice(source, 1)
    BY PrefixFacts
  <2> QED BY <2>2, <2>3, <2>4, <2>6, <2>7
<1>3. ASSUME NEW i \in 1 .. Count - 1 PROVE Fold(G[i - 1], row[i + 1]) = G[i]
  <2> DEFINE n == i + 1
  <2>1. n \in 2 .. Count /\ n \in 1 .. Count /\ n - 1 = i /\ n - 1 \in 1 .. Count /\ (i - 1) + 1 = i
    BY <1>1
  <2>2. G[i] = [size |-> End(n), sum |-> Crc(Prefix(n))]
    BY <1>1
  <2>3. G[i - 1] = [size |-> End(n - 1), sum |-> Crc(Prefix(n - 1))]
    <3>1. i - 1 \in 0 .. Count - 1
      BY <1>1
    <3>2. G[i - 1] = [size |-> End((i - 1) + 1), sum |-> Crc(Prefix((i - 1) + 1))]
      BY <3>1
    <3> QED BY <2>1, <3>2
  <2>4. row[n] = RowOf(n)
    BY <2>1
  <2> HIDE DEF n, row, G
  <2>5. RowOf(n).size = Len(Slice(source, n)) /\ RowOf(n).sum = Crc(Slice(source, n))
    BY <2>1, SliceFacts DEF RowOf
  <2>6. End(n - 1) + Len(Slice(source, n)) = End(n)
    <3>1. Len(Slice(source, n)) = End(n) - End(n - 1)
      BY <2>1, SliceFacts
    <3>2. End(n) \in Nat /\ End(n - 1) \in Nat
      BY <2>1, EndFacts
    <3> QED BY <3>1, <3>2
  <2>7. Combine(Crc(Prefix(n - 1)), Crc(Slice(source, n)), Len(Slice(source, n))) = Crc(Prefix(n))
    <3>1. Prefix(n - 1) \in Seq(Byte) /\ Prefix(n) = Prefix(n - 1) \o Slice(source, n)
      BY <2>1, PrefixFacts
    <3>2. Slice(source, n) \in Seq(Byte)
      BY <2>1, SliceFacts
    <3> QED BY <3>1, <3>2, CombineIsCrc
  <2>8. G[i - 1].size = End(n - 1) /\ G[i - 1].sum = Crc(Prefix(n - 1))
    BY <2>3
  <2>9. Fold(G[i - 1], row[n]) = [size |-> End(n), sum |-> Crc(Prefix(n))]
    BY <2>4, <2>5, <2>6, <2>7, <2>8
  <2> QED BY <2>2, <2>9 DEF n
<1> HIDE DEF row
<1>4. G = [i \in 0 .. Count - 1 |-> IF i = 0 THEN row[1] ELSE Fold(G[i - 1], row[i + 1])]
  <2>1. G = [i \in 0 .. Count - 1 |-> G[i]]
    OBVIOUS
  <2> HIDE DEF G, Fold
  <2>2. \A i \in 0 .. Count - 1 : G[i] = IF i = 0 THEN row[1] ELSE Fold(G[i - 1], row[i + 1])
    BY <1>1, <1>2, <1>3
  <2> QED BY <2>1, <2>2
<1>5. folded = [i \in 0 .. Count - 1 |-> IF i = 0 THEN row[1] ELSE Fold(folded[i - 1], row[i + 1])]
  <2> HIDE DEF G, Fold
  <2> QED BY <1>4
<1>6. FoldParts(row) = folded[Count - 1]
  BY DEF FoldParts, folded
<1> HIDE DEF folded, G, Fold
<1>7. folded[0] = row[1] /\ \A i \in 1 .. Count - 1 : folded[i] = Fold(folded[i - 1], row[i + 1])
  BY <1>1, <1>5
<1> DEFINE T == {i \in Nat : folded[i] = G[i]}
<1>8. 0 \in T
  BY <1>2, <1>7
<1>9. \A i \in 1 .. Count - 1 : i - 1 \in T => i \in T
  BY <1>3, <1>7
<1>10. \A i \in 0 .. Count - 1 : i \in T
  <2> HIDE DEF T
  <2>1. Count - 1 \in Nat
    BY <1>1
  <2> QED BY <1>8, <1>9, <2>1, BoundedInduction
<1>11. folded[Count - 1] = G[Count - 1]
  BY <1>1, <1>10
<1>12. G[Count - 1] = [size |-> End(Count), sum |-> Crc(Prefix(Count))]
  <2>1. Count - 1 \in 0 .. Count - 1 /\ (Count - 1) + 1 = Count
    BY <1>1
  <2>2. G[Count - 1] = [size |-> End((Count - 1) + 1), sum |-> Crc(Prefix((Count - 1) + 1))]
    BY <2>1 DEF G
  <2> QED BY <2>1, <2>2
<1>13. FoldParts(row) = [size |-> Size, sum |-> Crc(source.bytes)]
  BY <1>6, <1>11, <1>12, EndFacts, PrefixFacts
<1> QED BY <1>13 DEF row

----------------------------------------------------------------------------
(* What each action changes, field by field.                               *)

LEMMA SameSource ==
  ASSUME UNCHANGED source
  PROVE  Size' = Size /\ Count' = Count /\ Worker' = Worker
BY DEF Size, Count, Worker

SamePhase == client'.phase = client.phase

SameWork ==
  client'.next = client.next /\ client'.aborted = client.aborted /\ client'.unread = client.unread

SameLedger ==
  /\ client'.done = client.done /\ client'.reported = client.reported
  /\ client'.inFlight = client.inFlight /\ client'.sums = client.sums

SameCall == client'.cancelled = client.cancelled /\ client'.acked = client.acked

LEMMA ClientUnchanged ==
  ASSUME UNCHANGED client
  PROVE  SamePhase /\ SameWork /\ SameLedger /\ SameCall
BY DEF SamePhase, SameWork, SameLedger, SameCall

(* A client that differs only in the named fields.                         *)
LEMMA ClientTypes ==
  ASSUME Shape
  PROVE  /\ client.phase \in {"create", "parts", "complete", "abort", "resolved", "rejected"}
         /\ client.next \in Nat \ {0} /\ client.done \in Nat /\ client.reported \in Nat
         /\ client.aborted \in BOOLEAN /\ client.cancelled \in BOOLEAN
         /\ client.unread \in BOOLEAN /\ client.acked \in BOOLEAN
         /\ client.inFlight \in [1 .. Count -> Nat]
         /\ client.sums \in [1 .. Count -> SUBSET SUBSET Bits]
BY DEF Shape, ClientShape, Clients, Settled

LEMMA WorkerTypes ==
  ASSUME Shape, NEW w \in Worker
  PROVE  /\ worker[w] \in [at : Working \cup {"idle", "returned", "threw"},
                           n : 0 .. Count, try : 0 .. Tries, ahead : 0 .. Count]
         /\ worker[w].at \in {"idle", "reading", "sending", "returned", "threw"}
         /\ worker[w].n \in 0 .. Count /\ worker[w].try \in 0 .. Tries
         /\ worker[w].ahead \in 0 .. Count
BY DEF Shape, WorkersShape, Working

LEMMA CountFacts ==
  ASSUME Shape
  PROVE  Count \in Nat \ {0} /\ Size \in Nat \ {0} /\ Tries \in Nat \ {0}
BY SourceFacts, SdkAssumption DEF Shape

LEMMA CardinalityWorker ==
  ASSUME Shape
  PROVE  /\ Cardinality(Worker) \in 1 .. Count /\ Cardinality(Worker) <= source.concurrency
         /\ Worker = 1 .. Cardinality(Worker) /\ IsFiniteSet(Worker)
<1> DEFINE c == Smallest(source.concurrency, Count)
<1>1. source.concurrency \in Nat \ {0} /\ Count \in Nat \ {0}
  BY SourceFacts DEF Shape
<1>2. c \in 1 .. Count /\ c <= source.concurrency /\ Worker = 1 .. c
  BY <1>1 DEF Smallest, Worker
<1> HIDE DEF c
<1>3. IsFiniteSet(1 .. c) /\ Cardinality(1 .. c) = c
  <2>1. 1 \in Int /\ c \in Int /\ c >= 1
    BY <1>1, <1>2
  <2>2. IsFiniteSet(1 .. c) /\ Cardinality(1 .. c) = IF 1 > c THEN 0 ELSE c - 1 + 1
    BY <2>1, FS_Interval
  <2> QED BY <2>1, <2>2
<1> QED BY <1>2, <1>3

LEMMA CreateAnsweredEffect ==
  ASSUME Shape, CreateAnswered
  PROVE  /\ client'.phase = "parts" /\ client'.next = Cardinality(Worker) + 1
         /\ client'.aborted = client.aborted /\ client'.unread = client.unread
         /\ SameLedger /\ SameCall /\ ClientShape'
<1>1. Count' = Count
  BY SameSource DEF CreateAnswered
<1>2. Cardinality(Worker) + 1 \in Nat \ {0}
  BY CardinalityWorker, CountFacts
<1> QED BY <1>1, <1>2 DEF Shape, ClientShape, Clients, CreateAnswered, SameLedger, SameCall

LEMMA PhaseEffect ==
  ASSUME Shape, UNCHANGED source,
         NEW p \in {"create", "parts", "complete", "abort"} \cup Settled,
         client' = [client EXCEPT !.phase = p]
  PROVE  client'.phase = p /\ SameWork /\ SameLedger /\ SameCall /\ ClientShape'
BY SameSource DEF Shape, ClientShape, Clients, SameWork, SameLedger, SameCall

LEMMA RejectEffect ==
  ASSUME Shape, Reject
  PROVE  /\ client'.phase = "rejected" /\ SameWork /\ SameLedger
         /\ client'.cancelled = client.cancelled
         /\ client'.acked => request.abort \in {"ok", "refused", "orphaned"}
         /\ ClientShape'
<1>1. PICK acked \in {FALSE, request.abort \in {"ok", "refused", "orphaned"}} :
        client' = [client EXCEPT !.phase = "rejected", !.acked = acked]
  BY DEF Reject
<1>2. acked \in BOOLEAN
  <2>1. (request.abort \in {"ok", "refused", "orphaned"}) \in BOOLEAN
    OBVIOUS
  <2> QED BY <2>1, Zenon
<1>3. Count' = Count
  BY SameSource DEF Reject
<1>4. client'.acked = acked /\ client'.phase = "rejected" /\ client'.cancelled = client.cancelled
  BY <1>1 DEF Shape, ClientShape, Clients
<1>5. ClientShape' /\ SameWork /\ SameLedger
  BY <1>1, <1>2, <1>3 DEF Shape, ClientShape, Clients, SameWork, SameLedger, Settled
<1> QED BY <1>1, <1>4, <1>5

LEMMA CancelEffect ==
  ASSUME Shape, Cancel
  PROVE  SamePhase /\ SameWork /\ SameLedger /\ client'.acked = client.acked /\ ClientShape'
BY SameSource DEF Cancel, Shape, ClientShape, Clients, SamePhase, SameWork, SameLedger

LEMMA ReadFailsEffect ==
  ASSUME Shape, NEW w \in Worker, ReadFails(w)
  PROVE  /\ SamePhase /\ SameLedger /\ SameCall /\ ClientShape'
         /\ client'.next = client.next /\ client'.aborted = client.aborted
         /\ client'.unread = TRUE
BY SameSource DEF ReadFails, Shape, ClientShape, Clients, SamePhase, SameLedger, SameCall

LEMMA ThrowEffect ==
  ASSUME Shape, UNCHANGED source, client' = Throw(client)
  PROVE  /\ SamePhase /\ SameLedger /\ SameCall /\ ClientShape'
         /\ client'.next = client.next /\ client'.unread = client.unread
         /\ client'.aborted = TRUE
BY SameSource DEF Throw, Shape, ClientShape, Clients, SamePhase, SameLedger, SameCall

(* The entry of a part in flight starts over.                              *)
LEMMA ResetEffect ==
  ASSUME Shape, UNCHANGED source, NEW n \in 1 .. Count, NEW k \in Nat \ {0},
         client' = [client EXCEPT !.next = k, !.inFlight[n] = 0]
  PROVE  /\ SamePhase /\ SameCall /\ ClientShape'
         /\ client'.next = k /\ client'.aborted = client.aborted
         /\ client'.unread = client.unread /\ client'.done = client.done
         /\ client'.reported = client.reported /\ client'.sums = client.sums
         /\ client'.inFlight = [client.inFlight EXCEPT ![n] = 0]
BY SameSource DEF Shape, ClientShape, Clients, SamePhase, SameCall

LEMMA ReportEffect ==
  ASSUME NEW c \in Clients, Count \in Nat
  PROVE  LET current == c.done + Total(c.inFlight, Count)
         IN  /\ current \in Nat /\ Report(c) \in Clients
             /\ Report(c).phase = c.phase /\ Report(c).next = c.next
             /\ Report(c).aborted = c.aborted /\ Report(c).unread = c.unread
             /\ Report(c).cancelled = c.cancelled /\ Report(c).acked = c.acked
             /\ Report(c).done = c.done /\ Report(c).inFlight = c.inFlight
             /\ Report(c).sums = c.sums
             /\ Report(c).reported = IF current > c.reported THEN current ELSE c.reported
<1> DEFINE current == c.done + Total(c.inFlight, Count)
<1>1. c.inFlight \in [1 .. Count -> Nat] /\ c.done \in Nat /\ c.reported \in Nat
  BY DEF Clients
<1>2. Total(c.inFlight, Count) \in Nat
  <2>1. Count \in 0 .. Count
    OBVIOUS
  <2> QED BY <1>1, <2>1, TotalFacts
<1>3. current \in Nat
  BY <1>1, <1>2
<1> DEFINE top == IF current > c.reported THEN current ELSE c.reported
<1>4. top \in Nat
  BY <1>1, <1>3
<1>5. Report(c) = [c EXCEPT !.reported = top]
  BY DEF Report
<1> HIDE DEF top, current
<1>6. /\ Report(c) \in Clients
      /\ Report(c).phase = c.phase /\ Report(c).next = c.next
      /\ Report(c).aborted = c.aborted /\ Report(c).unread = c.unread
      /\ Report(c).cancelled = c.cancelled /\ Report(c).acked = c.acked
      /\ Report(c).done = c.done /\ Report(c).inFlight = c.inFlight
      /\ Report(c).sums = c.sums /\ Report(c).reported = top
  BY <1>4, <1>5 DEF Clients
<1> QED BY <1>3, <1>6 DEF top, current

(* What is reported next.                                                  *)
Reported(current) ==
  client'.reported = IF current > client.reported THEN current ELSE client.reported

LEMMA ProgressEffect ==
  ASSUME Shape, WorkerShape, NEW w \in Worker, Progress(w)
  PROVE  LET n == worker[w].n
         IN  /\ n \in 1 .. Count /\ SamePhase /\ SameWork /\ SameCall /\ ClientShape'
             /\ client'.done = client.done /\ client'.sums = client.sums
             /\ client'.inFlight = [client.inFlight EXCEPT ![n] = Len(Slice(source, n))]
             /\ client.done + Total(client'.inFlight, Count) \in Nat
             /\ Reported(client.done + Total(client'.inFlight, Count))
<1> DEFINE n == worker[w].n
<1> DEFINE c == [client EXCEPT !.inFlight[n] = Len(Slice(source, n))]
<1>1. n \in 1 .. Count /\ Count \in Nat
  BY WorkerTypes, CountFacts DEF WorkerShape, Working, Progress
<1>2. Len(Slice(source, n)) \in Nat
  BY <1>1, SliceFacts DEF Shape
<1>3. client' = Report(c) /\ Count' = Count
  BY SameSource DEF Progress
<1> HIDE DEF n
<1>4. /\ c \in Clients /\ c.phase = client.phase /\ c.next = client.next
      /\ c.aborted = client.aborted /\ c.unread = client.unread
      /\ c.cancelled = client.cancelled /\ c.acked = client.acked
      /\ c.done = client.done /\ c.reported = client.reported /\ c.sums = client.sums
      /\ c.inFlight = [client.inFlight EXCEPT ![n] = Len(Slice(source, n))]
  BY <1>1, <1>2 DEF Shape, ClientShape, Clients
<1> HIDE DEF c
<1>5. /\ client' \in Clients /\ client'.phase = c.phase /\ client'.next = c.next
      /\ client'.aborted = c.aborted /\ client'.unread = c.unread
      /\ client'.cancelled = c.cancelled /\ client'.acked = c.acked
      /\ client'.done = c.done /\ client'.inFlight = c.inFlight /\ client'.sums = c.sums
      /\ c.done + Total(c.inFlight, Count) \in Nat
      /\ client'.reported = IF c.done + Total(c.inFlight, Count) > c.reported
                            THEN c.done + Total(c.inFlight, Count) ELSE c.reported
  BY <1>1, <1>3, <1>4, ReportEffect
<1>6. ClientShape'
  BY <1>3, <1>5 DEF ClientShape, Clients
<1>7. SamePhase /\ SameWork /\ SameCall
  BY <1>4, <1>5 DEF SamePhase, SameWork, SameCall
<1>8. /\ client.done + Total(client'.inFlight, Count) \in Nat
      /\ Reported(client.done + Total(client'.inFlight, Count))
  BY <1>4, <1>5 DEF Reported
<1> QED BY <1>1, <1>4, <1>5, <1>6, <1>7, <1>8 DEF n

LEMMA CountPartEffect ==
  ASSUME Shape, NEW n \in 1 .. Count, UNCHANGED source, client' = CountPart(n)
  PROVE  /\ SamePhase /\ SameWork /\ SameCall /\ ClientShape'
         /\ client'.done = client.done + Len(Slice(source, n))
         /\ client'.sums = [client.sums EXCEPT ![n] = {Sum[Slice(source, n)]}]
         /\ client'.inFlight = [client.inFlight EXCEPT ![n] = 0]
         /\ client'.done + Total(client'.inFlight, Count) \in Nat
         /\ Reported(client'.done + Total(client'.inFlight, Count))
<1> DEFINE c == [client EXCEPT !.done = @ + Len(Slice(source, n)), !.inFlight[n] = 0,
                               !.sums[n] = {Sum[Slice(source, n)]}]
<1>1. Count \in Nat
  BY CountFacts
<1>2. Len(Slice(source, n)) \in Nat /\ Sum[Slice(source, n)] \in SUBSET Bits
  <2>1. source \in Sources
    BY DEF Shape
  <2>2. Len(Slice(source, n)) \in Nat /\ Slice(source, n) \in Seq(Byte)
        /\ Sum[Slice(source, n)] = Crc(Slice(source, n))
    BY <2>1, SliceFacts
  <2> QED BY <2>2, CrcRun DEF Word
<1>3. client' = Report(c) /\ Count' = Count
  BY SameSource DEF CountPart
<1>4. /\ c \in Clients /\ c.phase = client.phase /\ c.next = client.next
      /\ c.aborted = client.aborted /\ c.unread = client.unread
      /\ c.cancelled = client.cancelled /\ c.acked = client.acked
      /\ c.done = client.done + Len(Slice(source, n)) /\ c.reported = client.reported
      /\ c.sums = [client.sums EXCEPT ![n] = {Sum[Slice(source, n)]}]
      /\ c.inFlight = [client.inFlight EXCEPT ![n] = 0]
  <2> DEFINE done == client.done + Len(Slice(source, n))
  <2> DEFINE inFlight == [client.inFlight EXCEPT ![n] = 0]
  <2> DEFINE sums == [client.sums EXCEPT ![n] = {Sum[Slice(source, n)]}]
  <2>1. /\ client \in Clients /\ client.done \in Nat
        /\ client.inFlight \in [1 .. Count -> Nat]
        /\ client.sums \in [1 .. Count -> SUBSET SUBSET Bits]
    BY DEF Shape, ClientShape, Clients
  <2>2. done \in Nat
    BY <1>2, <2>1
  <2>3. inFlight \in [1 .. Count -> Nat]
    BY <2>1
  <2>4. sums \in [1 .. Count -> SUBSET SUBSET Bits]
    BY <1>2, <2>1
  <2>5. c = [client EXCEPT !.done = done, !.inFlight = inFlight, !.sums = sums]
    BY <2>1 DEF Clients
  <2> HIDE DEF c, done, inFlight, sums
  <2>6. c \in Clients
    BY <2>1, <2>2, <2>3, <2>4, <2>5 DEF Clients
  <2>7. /\ c.phase = client.phase /\ c.next = client.next
        /\ c.aborted = client.aborted /\ c.unread = client.unread
        /\ c.cancelled = client.cancelled /\ c.acked = client.acked
        /\ c.done = done /\ c.reported = client.reported
        /\ c.sums = sums /\ c.inFlight = inFlight
    BY <2>1, <2>5 DEF Clients
  <2> QED BY <2>6, <2>7 DEF done, inFlight, sums
<1> HIDE DEF c
<1>5. /\ client' \in Clients /\ client'.phase = c.phase /\ client'.next = c.next
      /\ client'.aborted = c.aborted /\ client'.unread = c.unread
      /\ client'.cancelled = c.cancelled /\ client'.acked = c.acked
      /\ client'.done = c.done /\ client'.inFlight = c.inFlight /\ client'.sums = c.sums
      /\ c.done + Total(c.inFlight, Count) \in Nat
      /\ client'.reported = IF c.done + Total(c.inFlight, Count) > c.reported
                            THEN c.done + Total(c.inFlight, Count) ELSE c.reported
  BY <1>1, <1>3, <1>4, ReportEffect
<1>6. ClientShape'
  BY <1>3, <1>5 DEF ClientShape, Clients
<1>7. SamePhase /\ SameWork /\ SameCall
  BY <1>4, <1>5 DEF SamePhase, SameWork, SameCall
<1>8. /\ client'.done + Total(client'.inFlight, Count) \in Nat
      /\ Reported(client'.done + Total(client'.inFlight, Count))
  BY <1>4, <1>5 DEF Reported
<1> QED BY <1>4, <1>5, <1>6, <1>7, <1>8

(* What a step of one worker does to the workers.                          *)
Workers == [at : Working \cup {"idle", "returned", "threw"},
            n : 0 .. Count, try : 0 .. Tries, ahead : 0 .. Count]

Others(w) == \A v \in Worker : v # w => worker'[v] = worker[v]

LEMMA WorkerPut ==
  ASSUME Shape, UNCHANGED source, NEW w \in Worker, NEW r \in Workers,
         worker' = [worker EXCEPT ![w] = r]
  PROVE  WorkersShape' /\ Others(w) /\ worker'[w] = r
<1>1. Count' = Count /\ Worker' = Worker
  BY SameSource
<1>2. worker \in [Worker -> Workers]
  BY DEF Shape, WorkersShape, Workers
<1>3. worker' \in [Worker -> Workers]
  BY <1>2
<1>4. WorkersShape'
  BY <1>1, <1>3 DEF WorkersShape, Workers
<1> QED BY <1>2, <1>4 DEF Others

LEMMA WorkerAt ==
  ASSUME Shape, UNCHANGED source, NEW w \in Worker,
         NEW x \in Working \cup {"idle", "returned", "threw"},
         worker' = [worker EXCEPT ![w].at = x]
  PROVE  /\ WorkersShape' /\ Others(w) /\ worker'[w].at = x
         /\ worker'[w].n = worker[w].n /\ worker'[w].ahead = worker[w].ahead
         /\ worker'[w].try = worker[w].try
<1> DEFINE r == [worker[w] EXCEPT !.at = x]
<1>1. worker[w] \in Workers
  BY WorkerTypes DEF Workers
<1>2. /\ r \in Workers /\ r.at = x /\ r.n = worker[w].n /\ r.ahead = worker[w].ahead
      /\ r.try = worker[w].try
  BY <1>1 DEF Workers
<1>3. worker' = [worker EXCEPT ![w] = r]
  OBVIOUS
<1> HIDE DEF r
<1>4. WorkersShape' /\ Others(w) /\ worker'[w] = r
  BY <1>2, <1>3, WorkerPut
<1> QED BY <1>2, <1>4

(* Parts leave, or come as they were sent.                                 *)
PartsOnly(new) == parts' \subseteq parts \cup new

LEMMA PartsOnlyShape ==
  ASSUME Shape, UNCHANGED source, NEW new, PartsOnly(new),
         new \subseteq [n : 1 .. Count, try : 1 .. Tries, at : {"sent"}]
  PROVE  PartsShape'
<1>1. Count' = Count
  BY SameSource
<1>2. \A m \in [n : 1 .. Count, try : 1 .. Tries, at : {"sent"}] :
        m \in [n : 1 .. Count, try : 1 .. Tries,
               at : {"sent", "open", "written", "ok", "refused"}]
  OBVIOUS
<1> QED BY <1>1, <1>2 DEF Shape, PartsShape, PartsOnly

LEMMA SendEffect ==
  ASSUME Shape, WorkerShape, NEW w \in Worker, Send(w)
  PROVE  LET n == worker[w].n
         IN  /\ worker[w].at = "reading" /\ n \in 1 .. Count
             /\ Others(w) /\ worker'[w].n = n
             /\ ClientShape' /\ WorkersShape' /\ PartsShape'
             /\ UNCHANGED <<source, request, server>> /\ SamePhase /\ SameCall
             /\ client'.aborted = client.aborted /\ client'.unread = client.unread
             /\ client'.done = client.done /\ client'.reported = client.reported
             /\ client'.sums = client.sums
             /\ PartsOnly({[n |-> n, try |-> 1, at |-> "sent"]})
             /\ \/ /\ client.aborted /\ UNCHANGED <<client, parts>>
                   /\ worker'[w].at = "returned" /\ worker'[w].ahead = worker[w].ahead
                \/ /\ ~client.aborted /\ client'.next = client.next + 1
                   /\ client'.inFlight = [client.inFlight EXCEPT ![n] = 0]
                   /\ worker'[w].at = "sending" /\ worker'[w].try = 1
                   /\ worker'[w].ahead = Claim(client.next)
<1> DEFINE n == worker[w].n
<1>1. worker[w].at = "reading" /\ UNCHANGED <<source, request, server>>
  BY DEF Send
<1>2. n \in 1 .. Count /\ Count \in Nat
  BY <1>1, WorkerTypes, CountFacts DEF WorkerShape, Working
<1>3. Count' = Count /\ 1 \in 1 .. Tries
  BY <1>1, SameSource, CountFacts
<1>4. CASE client.aborted
  <2>1. worker' = [worker EXCEPT ![w].at = "returned"] /\ UNCHANGED <<client, parts>>
    BY <1>4 DEF Send
  <2>2. /\ WorkersShape' /\ Others(w) /\ worker'[w].at = "returned"
        /\ worker'[w].n = worker[w].n /\ worker'[w].ahead = worker[w].ahead
    BY <1>1, <2>1, WorkerAt
  <2>3. ClientShape' /\ PartsShape'
    BY <1>3, <2>1 DEF Shape, ClientShape, Clients, PartsShape
  <2>4. PartsOnly({[n |-> n, try |-> 1, at |-> "sent"]})
    BY <2>1 DEF PartsOnly
  <2> QED BY <1>1, <1>2, <1>4, <2>1, <2>2, <2>3, <2>4 DEF SamePhase, SameCall
<1>5. CASE ~client.aborted
  <2> DEFINE r == [at |-> "sending", n |-> n, try |-> 1, ahead |-> Claim(client.next)]
  <2>1. /\ worker' = [worker EXCEPT ![w] = r]
        /\ client' = [client EXCEPT !.next = client.next + 1, !.inFlight[n] = 0]
        /\ parts' \subseteq parts \cup {[n |-> n, try |-> 1, at |-> "sent"]}
    BY <1>5 DEF Send
  <2>2. Claim(client.next) \in 0 .. Count /\ client.next + 1 \in Nat \ {0}
    BY <1>2, ClientTypes DEF Claim
  <2>3. r \in Workers
    BY <1>2, <1>3, <2>2 DEF Workers, Working
  <2>4. r.at = "sending" /\ r.n = n /\ r.try = 1 /\ r.ahead = Claim(client.next)
    OBVIOUS
  <2> HIDE DEF n, r
  <2>5. WorkersShape' /\ Others(w) /\ worker'[w] = r
    BY <1>1, <2>1, <2>3, WorkerPut
  <2>6. /\ SamePhase /\ SameCall /\ ClientShape'
        /\ client'.next = client.next + 1 /\ client'.aborted = client.aborted
        /\ client'.unread = client.unread /\ client'.done = client.done
        /\ client'.reported = client.reported /\ client'.sums = client.sums
        /\ client'.inFlight = [client.inFlight EXCEPT ![n] = 0]
    BY <1>1, <1>2, <2>1, <2>2, ResetEffect
  <2>7. PartsOnly({[n |-> n, try |-> 1, at |-> "sent"]})
    BY <2>1 DEF PartsOnly
  <2>8. PartsShape'
    <3>1. {[n |-> n, try |-> 1, at |-> "sent"]}
            \subseteq [n : 1 .. Count, try : 1 .. Tries, at : {"sent"}]
      BY <1>2, <1>3
    <3> QED BY <1>1, <2>7, <3>1, PartsOnlyShape
  <2> QED BY <1>1, <1>2, <1>5, <2>4, <2>5, <2>6, <2>7, <2>8 DEF n
<1> QED BY <1>4, <1>5

LEMMA FailedReadEffect ==
  ASSUME Shape, NEW w \in Worker, ReadFails(w)
  PROVE  /\ worker[w].at = "reading" /\ worker'[w].at = "threw"
         /\ worker'[w].n = worker[w].n /\ worker'[w].ahead = worker[w].ahead
         /\ Others(w) /\ WorkersShape' /\ UNCHANGED <<source, parts, request, server>>
<1>1. /\ worker[w].at = "reading" /\ UNCHANGED <<source, parts, request, server>>
      /\ worker' = [worker EXCEPT ![w].at = "threw"]
  BY DEF ReadFails
<1> QED BY <1>1, WorkerAt

LEMMA PartAnsweredEffect ==
  ASSUME Shape, WorkerShape, NEW w \in Worker, PartAnswered(w)
  PROVE  LET n == worker[w].n
         IN  /\ worker[w].at = "sending" /\ n \in 1 .. Count
             /\ client' = CountPart(n) /\ UNCHANGED <<source, request, server>>
             /\ Others(w) /\ WorkersShape' /\ PartsShape' /\ PartsOnly({})
             /\ worker'[w].at = IF worker[w].ahead = 0 THEN "returned" ELSE "reading"
             /\ worker'[w].n = worker[w].ahead /\ worker'[w].ahead = 0
<1>1. /\ worker[w].at = "sending" /\ client' = CountPart(worker[w].n)
      /\ UNCHANGED <<source, request, server>>
  BY DEF PartAnswered
<1>2. worker[w].n \in 1 .. Count /\ worker[w].ahead \in 0 .. Count
  BY <1>1, WorkerTypes, CountFacts DEF WorkerShape, Working
<1> DEFINE x == IF worker[w].ahead = 0 THEN "returned" ELSE "reading"
<1> DEFINE r == [at |-> x, n |-> worker[w].ahead, try |-> 0, ahead |-> 0]
<1>3. worker' = [worker EXCEPT ![w] = r]
  BY DEF PartAnswered
<1>4. r \in Workers /\ r.at = x /\ r.n = worker[w].ahead /\ r.ahead = 0
  BY <1>2, CountFacts DEF Workers, Working
<1> HIDE DEF r
<1>5. WorkersShape' /\ Others(w) /\ worker'[w] = r
  BY <1>1, <1>3, <1>4, WorkerPut
<1>6. PartsOnly({})
  BY DEF PartAnswered, PartsOnly
<1>7. PartsShape'
  BY <1>1, <1>6, PartsOnlyShape
<1> QED BY <1>1, <1>2, <1>4, <1>5, <1>6, <1>7

LEMMA AbandonEffect ==
  ASSUME Shape, NEW w \in Worker, Abandon(w)
  PROVE  /\ worker[w].at = "sending" /\ worker'[w].at = "threw"
         /\ worker'[w].n = worker[w].n /\ worker'[w].ahead = worker[w].ahead
         /\ client' = Throw(client)
         /\ Others(w) /\ WorkersShape' /\ PartsShape' /\ PartsOnly({})
         /\ UNCHANGED <<source, request, server>>
<1>1. /\ worker[w].at = "sending" /\ UNCHANGED <<source, request, server>>
      /\ worker' = [worker EXCEPT ![w].at = "threw"] /\ client' = Throw(client)
  BY DEF Abandon
<1>2. PartsOnly({})
  BY DEF Abandon, PartsOnly
<1>3. PartsShape'
  BY <1>1, <1>2, PartsOnlyShape
<1>4. /\ WorkersShape' /\ Others(w) /\ worker'[w].at = "threw"
      /\ worker'[w].n = worker[w].n /\ worker'[w].ahead = worker[w].ahead
  BY <1>1, WorkerAt
<1> QED BY <1>1, <1>2, <1>3, <1>4

LEMMA TransportFailsEffect ==
  ASSUME Shape, WorkerShape, NEW w \in Worker, TransportFails(w)
  PROVE  LET n == worker[w].n
         IN  /\ worker[w].at = "sending" /\ n \in 1 .. Count /\ ~client.aborted
             /\ worker'[w].n = worker[w].n /\ worker'[w].ahead = worker[w].ahead
             /\ Others(w) /\ WorkersShape' /\ PartsShape'
             /\ UNCHANGED <<source, request, server>>
             /\ PartsOnly({[n |-> n, try |-> NextTry(w), at |-> "sent"]})
             /\ \/ /\ worker'[w].at = "sending" /\ worker'[w].try # 0
                   /\ client' = [client EXCEPT !.next = client.next, !.inFlight[n] = 0]
                \/ /\ worker'[w].at = "threw" /\ client' = Throw(client)
<1> DEFINE n == worker[w].n
<1> DEFINE new == [n |-> n, try |-> NextTry(w), at |-> "sent"]
<1>1. /\ worker[w].at = "sending" /\ UNCHANGED <<source, request, server>>
      /\ ~client.aborted
  BY DEF TransportFails
<1>2. n \in 1 .. Count /\ worker[w].try \in Nat /\ worker[w] \in Workers
  BY <1>1, WorkerTypes, CountFacts DEF WorkerShape, Working, Workers
<1>3. CASE worker[w].try < Tries
  <2>1. /\ worker' = [worker EXCEPT ![w].try = NextTry(w)]
        /\ client' = [client EXCEPT !.inFlight[n] = 0]
        /\ parts' \subseteq parts \cup {new}
    BY <1>3 DEF TransportFails
  <2>2. NextTry(w) \in 1 .. Tries /\ NextTry(w) # 0
    BY <1>2, <1>3, CountFacts DEF NextTry
  <2> DEFINE r == [worker[w] EXCEPT !.try = NextTry(w)]
  <2>3. /\ r \in Workers /\ r.at = "sending" /\ r.n = n /\ r.ahead = worker[w].ahead
        /\ r.try # 0
    BY <1>1, <1>2, <2>2 DEF Workers
  <2>4. worker' = [worker EXCEPT ![w] = r]
    BY <2>1
  <2> HIDE DEF r
  <2>5. WorkersShape' /\ Others(w) /\ worker'[w] = r
    BY <1>1, <2>3, <2>4, WorkerPut
  <2>6. client' = [client EXCEPT !.next = client.next, !.inFlight[n] = 0]
    BY <2>1 DEF Shape, ClientShape, Clients
  <2>7. PartsOnly({new})
    BY <2>1 DEF PartsOnly
  <2>8. {new} \subseteq [n : 1 .. Count, try : 1 .. Tries, at : {"sent"}]
    BY <1>2, <2>2
  <2> HIDE DEF n, new
  <2>9. PartsShape'
    BY <1>1, <2>7, <2>8, PartsOnlyShape
  <2> QED BY <1>1, <1>2, <2>3, <2>5, <2>6, <2>7, <2>9 DEF n, new
<1>4. CASE ~(worker[w].try < Tries)
  <2>1. /\ worker' = [worker EXCEPT ![w].at = "threw"] /\ client' = Throw(client)
        /\ parts' \subseteq parts
    BY <1>4 DEF TransportFails
  <2>2. /\ WorkersShape' /\ Others(w) /\ worker'[w].at = "threw"
        /\ worker'[w].n = worker[w].n /\ worker'[w].ahead = worker[w].ahead
    BY <1>1, <2>1, WorkerAt
  <2>3. PartsOnly({}) /\ PartsOnly({new})
    BY <2>1 DEF PartsOnly
  <2>4. PartsShape'
    BY <1>1, <2>3, PartsOnlyShape
  <2> QED BY <1>1, <1>2, <2>1, <2>2, <2>3, <2>4
<1> QED BY <1>3, <1>4

(* What a step of the server does.                                         *)
SameClient == UNCHANGED <<source, client, worker>>

LEMMA SameClientShape ==
  ASSUME Shape, UNCHANGED source
  PROVE  /\ UNCHANGED client => ClientShape'
         /\ UNCHANGED worker => WorkersShape'
         /\ UNCHANGED parts => PartsShape'
         /\ UNCHANGED request => RequestShape'
         /\ UNCHANGED server => ServerShape'
<1>1. Count' = Count /\ Worker' = Worker
  BY SameSource
<1>2. ASSUME UNCHANGED client PROVE ClientShape'
  BY <1>1, <1>2 DEF Shape, ClientShape, Clients
<1>3. ASSUME UNCHANGED worker PROVE WorkersShape'
  BY <1>1, <1>3 DEF Shape, WorkersShape
<1>4. ASSUME UNCHANGED parts PROVE PartsShape'
  BY <1>1, <1>4 DEF Shape, PartsShape
<1>5. ASSUME UNCHANGED request PROVE RequestShape'
  BY <1>5, Zenon DEF Shape, RequestShape, Row, Bits
<1>6. ASSUME UNCHANGED server PROVE ServerShape'
  BY <1>1, <1>6 DEF Shape, ServerShape, Row, Bits
<1> QED BY <1>2, <1>3, <1>4, <1>5, <1>6

(* A part request goes on to at, or is gone.                               *)
Moved(m, at) ==
  \A p \in parts' : p \in parts \/ (p.n = m.n /\ p.try = m.try /\ p.at = at)

LEMMA PartTypes ==
  ASSUME Shape, NEW m \in parts
  PROVE  /\ m \in [n : 1 .. Count, try : 1 .. Tries,
                   at : {"sent", "open", "written", "ok", "refused"}]
         /\ m.n \in 1 .. Count /\ m.try \in 1 .. Tries
BY DEF Shape, PartsShape

LEMMA MoveEffect ==
  ASSUME Shape, UNCHANGED source, NEW m \in parts,
         NEW at \in {"sent", "open", "written", "ok", "refused"},
         Move(m, at) \/ Answer(m, at)
  PROVE  PartsShape' /\ Moved(m, at)
<1> DEFINE new == [m EXCEPT !.at = at]
<1>1. parts' \subseteq parts \cup {new}
  BY DEF Move, Answer
<1>2. /\ new \in [n : 1 .. Count, try : 1 .. Tries,
                  at : {"sent", "open", "written", "ok", "refused"}]
      /\ new.n = m.n /\ new.try = m.try /\ new.at = at
  BY PartTypes
<1> HIDE DEF new
<1>3. Count' = Count
  BY SameSource
<1>4. PartsShape'
  BY <1>1, <1>2, <1>3 DEF Shape, PartsShape
<1> QED BY <1>1, <1>2, <1>4 DEF Moved

SameRows == server'.rows = server.rows

LEMMA HandleCreateEffect ==
  ASSUME Shape, HandleCreate
  PROVE  /\ client.phase \in {"create", "rejected"} /\ ~server.session
         /\ server.blob = None /\ request.abort = "unsent"
         /\ server'.session = TRUE /\ server'.blob = {<<>>} /\ SameRows
         /\ server'.object = server.object /\ ServerShape'
         /\ SameClient /\ UNCHANGED <<parts, request>>
<1>1. Count' = Count
  BY SameSource DEF HandleCreate
<1>2. /\ server'.session = TRUE /\ server'.blob = {<<>>} /\ SameRows
      /\ server'.object = server.object
      /\ server' = [session |-> server'.session, rows |-> server'.rows,
                    blob |-> server'.blob, object |-> server'.object]
  BY DEF HandleCreate, Shape, ServerShape, SameRows
<1>3. ServerShape'
  BY <1>1, <1>2 DEF Shape, ServerShape, SameRows, Row, Bits
<1> QED BY <1>2, <1>3 DEF HandleCreate, SameClient

LEMMA LookUpSessionEffect ==
  ASSUME Shape, NEW m \in parts, LookUpSession(m)
  PROVE  /\ SameClient /\ UNCHANGED <<request, server>> /\ PartsShape'
         /\ Moved(m, "open") \/ Moved(m, "refused")
<1>1. SameClient /\ UNCHANGED <<source, request, server>>
  BY DEF LookUpSession, SameClient
<1>2. Move(m, "open") \/ Answer(m, "refused")
  BY DEF LookUpSession
<1> QED BY <1>1, <1>2, MoveEffect

LEMMA WritePartEffect ==
  ASSUME Shape, NEW m \in parts, WritePart(m)
  PROVE  /\ SameClient /\ UNCHANGED request /\ PartsShape' /\ ServerShape'
         /\ \/ Moved(m, "refused") /\ UNCHANGED server
            \/ /\ Moved(m, "written") /\ server.blob # None
               /\ server'.session = server.session /\ SameRows
               /\ server'.object = server.object
               /\ server'.blob = {WriteAt(file, Offset(m.n), Slice(source, m.n)) :
                                    file \in server.blob}
<1>1. SameClient /\ UNCHANGED <<source, request>> /\ Count' = Count
  BY SameSource DEF WritePart, SameClient
<1>2. CASE server.blob = None
  <2>1. Answer(m, "refused") /\ UNCHANGED server
    BY <1>2 DEF WritePart
  <2> QED BY <1>1, <2>1, MoveEffect, SameClientShape
<1>3. CASE server.blob # None
  <2> DEFINE blob == {WriteAt(file, Offset(m.n), Slice(source, m.n)) : file \in server.blob}
  <2>1. Move(m, "written") /\ server' = [server EXCEPT !.blob = blob]
    BY <1>3 DEF WritePart
  <2> HIDE DEF blob
  <2>2. PartsShape' /\ Moved(m, "written")
    BY <1>1, <2>1, MoveEffect
  <2>3. /\ server'.session = server.session /\ SameRows /\ server'.object = server.object
        /\ server'.blob = blob
        /\ server' = [session |-> server'.session, rows |-> server'.rows,
                      blob |-> server'.blob, object |-> server'.object]
    BY <2>1 DEF Shape, ServerShape, SameRows
  <2>4. ServerShape'
    BY <1>1, <2>3 DEF Shape, ServerShape, SameRows, Row, Bits
  <2> QED BY <1>1, <1>3, <2>2, <2>3, <2>4 DEF blob
<1> QED BY <1>2, <1>3

LEMMA RowType ==
  ASSUME source \in Sources, NEW n \in 1 .. Count
  PROVE  RowOf(n) \in Row
<1>1. Slice(source, n) \in Seq(Byte) /\ Len(Slice(source, n)) \in Nat
      /\ Sum[Slice(source, n)] = Crc(Slice(source, n))
  BY SliceFacts
<1>2. Crc(Slice(source, n)) \in SUBSET Bits
  BY <1>1, CrcRun DEF Word
<1> QED BY <1>1, <1>2 DEF RowOf, Row

LEMMA RecordPartEffect ==
  ASSUME Shape, NEW m \in parts, RecordPart(m)
  PROVE  /\ SameClient /\ UNCHANGED request /\ PartsShape' /\ ServerShape'
         /\ m.at = "written"
         /\ \/ Moved(m, "refused") /\ UNCHANGED server
            \/ /\ Moved(m, "ok") /\ server.session
               /\ server'.session = server.session
               /\ server'.object = server.object /\ server'.blob = server.blob
               /\ server'.rows = [server.rows EXCEPT ![m.n] = {RowOf(m.n)}]
<1>1. SameClient /\ UNCHANGED <<source, request>> /\ Count' = Count /\ m.at = "written"
  BY SameSource DEF RecordPart, SameClient
<1>2. CASE ~server.session
  <2>1. Answer(m, "refused") /\ UNCHANGED server
    BY <1>2 DEF RecordPart
  <2> QED BY <1>1, <2>1, MoveEffect, SameClientShape
<1>3. CASE server.session
  <2> DEFINE n == m.n
  <2>1. Answer(m, "ok") /\ server' = [server EXCEPT !.rows[n] = {RowOf(n)}]
    BY <1>3 DEF RecordPart, RowOf
  <2>2. n \in 1 .. Count
    BY PartTypes
  <2>3. RowOf(n) \in Row
    BY <2>2, RowType DEF Shape
  <2> HIDE DEF n
  <2>4. PartsShape' /\ Moved(m, "ok")
    BY <1>1, <2>1, MoveEffect
  <2>5. /\ server'.session = server.session /\ server'.object = server.object
        /\ server'.blob = server.blob
        /\ server'.rows = [server.rows EXCEPT ![n] = {RowOf(n)}]
        /\ server' = [session |-> server'.session, rows |-> server'.rows,
                      blob |-> server'.blob, object |-> server'.object]
    BY <2>1 DEF Shape, ServerShape
  <2>6. server'.rows \in [1 .. Count -> SUBSET Row]
    BY <2>2, <2>3, <2>5 DEF Shape, ServerShape
  <2>7. ServerShape'
    BY <1>1, <2>5, <2>6 DEF Shape, ServerShape, Row, Bits
  <2> QED BY <1>1, <1>3, <2>4, <2>5, <2>7 DEF n
<1> QED BY <1>2, <1>3

(* The row of the whole source.                                            *)
RowOfSource == [size |-> Size, sum |-> Crc(source.bytes)]

RowsRight ==
  \A n \in 1 .. Count : server.rows[n] # None => server.rows[n] = {RowOf(n)}

(* A complete request goes on, with or without what it would make.         *)
LEMMA RequestEffect ==
  ASSUME Shape,
         NEW c \in {"unsent", "sent", "checked", "ok", "refused"},
         NEW a \in AbortStates,
         request' = [request EXCEPT !.complete = c, !.abort = a]
  PROVE  /\ request'.complete = c /\ request'.abort = a
         /\ request'.object = request.object /\ RequestShape'
<1>1. /\ request'.complete = c /\ request'.abort = a /\ request'.object = request.object
      /\ request' \in [complete : {"unsent", "sent", "checked", "ok", "refused"},
                       abort : AbortStates,
                       object : SUBSET Row]
  BY DEF Shape, RequestShape
<1> QED BY <1>1 DEF RequestShape, Row, Bits

LEMMA RequestComplete ==
  ASSUME Shape, NEW c \in {"unsent", "sent", "checked", "ok", "refused"},
         request' = [request EXCEPT !.complete = c]
  PROVE  /\ request'.complete = c /\ request'.abort = request.abort
         /\ request'.object = request.object /\ RequestShape'
<1>1. /\ request.abort \in AbortStates
      /\ request' = [request EXCEPT !.complete = c, !.abort = request.abort]
  BY DEF Shape, RequestShape
<1> QED BY <1>1, RequestEffect

LEMMA RequestAbort ==
  ASSUME Shape, NEW a \in AbortStates,
         request' = [request EXCEPT !.abort = a]
  PROVE  /\ request'.complete = request.complete /\ request'.abort = a
         /\ request'.object = request.object /\ RequestShape'
<1>1. /\ request.complete \in {"unsent", "sent", "checked", "ok", "refused"}
      /\ request' = [request EXCEPT !.complete = request.complete, !.abort = a]
  BY DEF Shape, RequestShape
<1> QED BY <1>1, RequestEffect

LEMMA CheckCompleteEffect ==
  ASSUME Shape, RowsRight, CheckComplete
  PROVE  /\ SameClient /\ UNCHANGED <<parts, server>> /\ RequestShape'
         /\ request.complete = "sent" /\ request'.abort = request.abort
         /\ \/ request'.complete = "refused" /\ request'.object = request.object
            \/ /\ request'.complete = "checked" /\ request'.object = {RowOfSource}
               /\ \A n \in 1 .. Count : server.rows[n] # None
<1> DEFINE row == [n \in 1 .. Count |-> CHOOSE r \in server.rows[n] : TRUE]
<1> DEFINE complete == \A n \in 1 .. Count : server.rows[n] # None
<1> DEFINE right == \A n \in 1 .. Count :
                      /\ n < Count => row[n].size = source.partSize
                      /\ {row[n].sum} = client.sums[n]
<1>1. SameClient /\ UNCHANGED <<source, parts, server>> /\ request.complete = "sent"
  BY DEF CheckComplete, SameClient
<1>2. request' = IF server.session /\ complete /\ right
                   THEN [request EXCEPT !.complete = "checked", !.object = {FoldParts(row)}]
                   ELSE [request EXCEPT !.complete = "refused"]
  BY DEF CheckComplete
<1> HIDE DEF right
<1>3. CASE ~(server.session /\ complete /\ right)
  <2>1. request' = [request EXCEPT !.complete = "refused"]
    BY <1>2, <1>3
  <2> QED BY <1>1, <2>1, RequestComplete
<1>4. CASE server.session /\ complete /\ right
  <2>1. row = [n \in 1 .. Count |-> RowOf(n)]
    <3>1. ASSUME NEW n \in 1 .. Count PROVE (CHOOSE r \in server.rows[n] : TRUE) = RowOf(n)
      <4>1. server.rows[n] = {RowOf(n)}
        BY <1>4 DEF RowsRight
      <4>2. (CHOOSE r \in {RowOf(n)} : TRUE) = RowOf(n)
        OBVIOUS
      <4> QED BY <4>1, <4>2
    <3> QED BY <3>1
  <2> HIDE DEF row
  <2>2. source \in Sources
    BY DEF Shape
  <2>3. FoldParts(row) = RowOfSource
    BY <2>1, <2>2, FoldIsWhole DEF RowOfSource
  <2>4. RowOfSource \in Row
    <3>1. source.bytes \in Seq(Byte) /\ Size \in Nat
      BY <2>2, SourceFacts
    <3>2. Crc(source.bytes) \in SUBSET Bits
      BY <3>1, CrcRun DEF Word
    <3> QED BY <3>1, <3>2 DEF RowOfSource, Row
  <2>5. request' = [request EXCEPT !.complete = "checked", !.object = {RowOfSource}]
    BY <1>2, <1>4, <2>3
  <2>6. /\ request'.complete = "checked" /\ request'.object = {RowOfSource}
        /\ request'.abort = request.abort
        /\ request' \in [complete : {"unsent", "sent", "checked", "ok", "refused"},
                         abort : AbortStates,
                         object : SUBSET Row]
    BY <2>4, <2>5 DEF Shape, RequestShape
  <2>7. RequestShape'
    BY <2>6 DEF RequestShape, Row, Bits
  <2> QED BY <1>1, <1>4, <2>6, <2>7
<1> QED BY <1>3, <1>4

LEMMA CommitCompleteEffect ==
  ASSUME Shape, CommitComplete
  PROVE  /\ SameClient /\ UNCHANGED parts /\ RequestShape' /\ ServerShape'
         /\ request.complete = "checked" /\ request'.abort = request.abort
         /\ request'.object = request.object
         /\ \/ request'.complete = "refused" /\ ~server.session /\ UNCHANGED server
            \/ /\ request'.complete = "ok" /\ server.session /\ server'.session = FALSE
               /\ server'.object = request.object /\ server'.blob = server.blob /\ SameRows
<1> DEFINE c == IF server.session THEN "ok" ELSE "refused"
<1>1. /\ SameClient /\ UNCHANGED <<source, parts>> /\ Count' = Count
      /\ request.complete = "checked"
      /\ request' = [request EXCEPT !.complete = c]
  BY SameSource DEF CommitComplete, SameClient
<1>2. c \in {"unsent", "sent", "checked", "ok", "refused"}
  OBVIOUS
<1>3. /\ request'.complete = c /\ request'.abort = request.abort
      /\ request'.object = request.object /\ RequestShape'
  <2> HIDE DEF c
  <2> QED BY <1>1, <1>2, RequestComplete
<1>4. CASE ~server.session
  <2>1. UNCHANGED server
    BY <1>4 DEF CommitComplete
  <2> QED BY <1>1, <1>3, <1>4, <2>1, SameClientShape
<1>5. CASE server.session
  <2>1. server' = [server EXCEPT !.session = FALSE, !.object = request.object]
    BY <1>5 DEF CommitComplete
  <2>2. /\ server'.session = FALSE /\ server'.object = request.object
        /\ server'.blob = server.blob /\ SameRows
        /\ server' = [session |-> server'.session, rows |-> server'.rows,
                      blob |-> server'.blob, object |-> server'.object]
    BY <2>1 DEF Shape, ServerShape, SameRows
  <2>3. ServerShape'
    BY <1>1, <2>2 DEF Shape, ServerShape, SameRows, Row, Bits
  <2> QED BY <1>1, <1>3, <1>5, <2>2, <2>3
<1> QED BY <1>4, <1>5

LEMMA DropSessionEffect ==
  ASSUME Shape, DropSession
  PROVE  /\ SameClient /\ UNCHANGED parts /\ RequestShape' /\ ServerShape'
         /\ request.abort = "sent" /\ request'.complete = request.complete
         /\ request'.object = request.object
         /\ \/ /\ request'.abort = IF server.session THEN "dropped" ELSE "refused"
               /\ server'.session = FALSE
            \/ request'.abort = "failed" /\ server'.session = server.session
         /\ server'.object = server.object /\ server'.blob = server.blob /\ SameRows
<1> DEFINE a == IF server.session THEN "dropped" ELSE "refused"
<1>1. /\ SameClient /\ UNCHANGED <<source, parts>> /\ Count' = Count
      /\ request.abort = "sent"
  BY SameSource DEF DropSession, SameClient
<1>2. a \in AbortStates /\ "failed" \in AbortStates
  BY DEF AbortStates
<1>3. CASE /\ request' = [request EXCEPT !.abort = a]
           /\ server' = [server EXCEPT !.session = FALSE]
  <2>1. /\ request'.complete = request.complete /\ request'.abort = a
        /\ request'.object = request.object /\ RequestShape'
    <3> HIDE DEF a
    <3> QED BY <1>2, <1>3, RequestAbort
  <2>2. /\ server'.session = FALSE /\ server'.object = server.object
        /\ server'.blob = server.blob /\ SameRows
        /\ server' = [session |-> server'.session, rows |-> server'.rows,
                      blob |-> server'.blob, object |-> server'.object]
    BY <1>1, <1>3 DEF Shape, ServerShape, SameRows
  <2>3. ServerShape'
    BY <1>1, <2>2 DEF Shape, ServerShape, SameRows, Row, Bits
  <2> QED BY <1>1, <2>1, <2>2, <2>3
<1>4. CASE request' = [request EXCEPT !.abort = "failed"] /\ UNCHANGED server
  <2>1. /\ request'.complete = request.complete /\ request'.abort = "failed"
        /\ request'.object = request.object /\ RequestShape'
    BY <1>2, <1>4, RequestAbort
  <2>2. ServerShape' /\ SameRows
    BY <1>1, <1>4 DEF Shape, ServerShape, SameRows, Row, Bits
  <2> QED BY <1>1, <1>4, <2>1, <2>2
<1> QED BY <1>3, <1>4 DEF DropSession

LEMMA RemoveBlobEffect ==
  ASSUME Shape, RemoveBlob
  PROVE  /\ SameClient /\ UNCHANGED parts /\ RequestShape' /\ ServerShape'
         /\ request.abort = "dropped" /\ request'.complete = request.complete
         /\ request'.object = request.object
         /\ \/ request'.abort = "ok" /\ server'.blob = None
            \/ request'.abort = "orphaned" /\ server'.blob = server.blob
         /\ server'.session = server.session /\ server'.object = server.object
         /\ SameRows
<1>1. /\ SameClient /\ UNCHANGED <<source, parts>> /\ Count' = Count
      /\ request.abort = "dropped"
  BY SameSource DEF RemoveBlob, SameClient
<1>2. "ok" \in AbortStates /\ "orphaned" \in AbortStates
  BY DEF AbortStates
<1>3. CASE request' = [request EXCEPT !.abort = "ok"] /\ server' = [server EXCEPT !.blob = None]
  <2>1. /\ request'.complete = request.complete /\ request'.abort = "ok"
        /\ request'.object = request.object /\ RequestShape'
    BY <1>2, <1>3, RequestAbort
  <2>2. /\ server'.session = server.session /\ server'.object = server.object
        /\ server'.blob = None /\ SameRows
        /\ server' = [session |-> server'.session, rows |-> server'.rows,
                      blob |-> server'.blob, object |-> server'.object]
    BY <1>1, <1>3 DEF Shape, ServerShape, SameRows
  <2>3. ServerShape'
    BY <1>1, <2>2 DEF Shape, ServerShape, SameRows, Row, Bits
  <2> QED BY <1>1, <2>1, <2>2, <2>3
<1>4. CASE request' = [request EXCEPT !.abort = "orphaned"] /\ UNCHANGED server
  <2>1. /\ request'.complete = request.complete /\ request'.abort = "orphaned"
        /\ request'.object = request.object /\ RequestShape'
    BY <1>2, <1>4, RequestAbort
  <2>2. ServerShape' /\ SameRows
    BY <1>1, <1>4 DEF Shape, ServerShape, SameRows, Row, Bits
  <2> QED BY <1>1, <1>4, <2>1, <2>2
<1> QED BY <1>3, <1>4 DEF RemoveBlob

(* What the steps of the call between its phases do.                       *)
LEMMA CreateAnsweredWorkers ==
  ASSUME Shape, CreateAnswered
  PROVE  /\ client.phase = "create" /\ server.session
         /\ UNCHANGED <<source, parts, request, server>> /\ WorkersShape'
         /\ \A w \in Worker : /\ worker'[w].at = "reading" /\ worker'[w].n = w
                              /\ worker'[w].try = 0 /\ worker'[w].ahead = 0
<1>1. /\ client.phase = "create" /\ server.session
      /\ UNCHANGED <<source, parts, request, server>>
      /\ worker' = [w \in Worker |-> [at |-> "reading", n |-> w, try |-> 0, ahead |-> 0]]
  BY DEF CreateAnswered
<1>2. ASSUME NEW w \in Worker
      PROVE  [at |-> "reading", n |-> w, try |-> 0, ahead |-> 0] \in Workers
  <2>1. w \in 0 .. Count /\ 0 \in 0 .. Count /\ 0 \in 0 .. Tries
    BY CardinalityWorker, CountFacts
  <2> QED BY <2>1 DEF Workers, Working
<1>3. worker' \in [Worker -> Workers]
  BY <1>1, <1>2
<1>4. Count' = Count /\ Worker' = Worker
  BY <1>1, SameSource
<1>5. WorkersShape'
  BY <1>3, <1>4 DEF WorkersShape, Workers
<1> QED BY <1>1, <1>5

LEMMA CreateFailsEffect ==
  ASSUME Shape, CreateFails
  PROVE  /\ client.phase = "create" /\ client'.phase = "rejected"
         /\ SameWork /\ SameLedger /\ SameCall /\ ClientShape'
         /\ UNCHANGED <<source, worker, parts, request, server>>
BY PhaseEffect DEF CreateFails, Settled

LEMMA SendCompleteEffect ==
  ASSUME Shape, SendComplete
  PROVE  /\ client.phase = "parts" /\ \A w \in Worker : worker[w].at = "returned"
         /\ client'.phase = "complete" /\ SameWork /\ SameLedger /\ SameCall /\ ClientShape'
         /\ UNCHANGED <<source, worker, parts, server>> /\ RequestShape'
         /\ request'.complete \in {"unsent", "sent"} /\ request'.abort = request.abort
         /\ request'.object = request.object
<1> DEFINE c == IF client.cancelled THEN "unsent" ELSE "sent"
<1>1. /\ client.phase = "parts" /\ \A w \in Worker : worker[w].at = "returned"
      /\ UNCHANGED <<source, worker, parts, server>>
      /\ client' = [client EXCEPT !.phase = "complete"]
      /\ request' = [request EXCEPT !.complete = c]
  BY DEF SendComplete
<1>2. c \in {"unsent", "sent"}
  OBVIOUS
<1> HIDE DEF c
<1>3. client'.phase = "complete" /\ SameWork /\ SameLedger /\ SameCall /\ ClientShape'
  BY <1>1, PhaseEffect
<1>4. /\ request'.complete = c /\ request'.abort = request.abort
      /\ request'.object = request.object /\ RequestShape'
  BY <1>1, <1>2, RequestComplete
<1> QED BY <1>1, <1>2, <1>3, <1>4

LEMMA SendAbortEffect ==
  ASSUME Shape, SendAbort
  PROVE  /\ \/ client.phase = "parts" /\ \E w \in Worker : worker[w].at = "threw"
            \/ client.phase = "complete"
         /\ client'.phase = "abort" /\ SameWork /\ SameLedger /\ SameCall /\ ClientShape'
         /\ UNCHANGED <<source, worker, parts, server>> /\ RequestShape'
         /\ request'.complete = request.complete /\ request'.abort = "sent"
         /\ request'.object = request.object
<1>1. /\ \/ client.phase = "parts" /\ \E w \in Worker : worker[w].at = "threw"
         \/ client.phase = "complete"
      /\ UNCHANGED <<source, worker, parts, server>>
      /\ client' = [client EXCEPT !.phase = "abort"]
      /\ request' = [request EXCEPT !.abort = "sent"]
      /\ "sent" \in AbortStates
  BY DEF SendAbort, AbortStates
<1>2. client'.phase = "abort" /\ SameWork /\ SameLedger /\ SameCall /\ ClientShape'
  BY <1>1, PhaseEffect
<1>3. /\ request'.complete = request.complete /\ request'.abort = "sent"
      /\ request'.object = request.object /\ RequestShape'
  BY <1>1, RequestAbort
<1> QED BY <1>1, <1>2, <1>3

LEMMA CompleteAnsweredEffect ==
  ASSUME Shape, CompleteAnswered
  PROVE  /\ client.phase = "complete" /\ request.complete = "ok"
         /\ client'.phase = "resolved" /\ SameWork /\ SameLedger /\ SameCall /\ ClientShape'
         /\ UNCHANGED <<source, worker, parts, request, server>>
BY PhaseEffect DEF CompleteAnswered, Settled

----------------------------------------------------------------------------
(* The state stays well formed.                                            *)

LEMMA ShapeStep ==
  ASSUME Shape, WorkerShape, RowsRight, [SdkNext]_sdkVars
  PROVE  Shape'
<1> USE DEF Shape
<1>1. CASE CreateAnswered
  BY <1>1, CreateAnsweredEffect, CreateAnsweredWorkers, SameClientShape
<1>2. CASE CreateFails
  BY <1>2, CreateFailsEffect, SameClientShape
<1>3. CASE SendComplete
  BY <1>3, SendCompleteEffect, SameClientShape
<1>4. CASE SendAbort
  BY <1>4, SendAbortEffect, SameClientShape
<1>5. CASE CompleteAnswered
  BY <1>5, CompleteAnsweredEffect, SameClientShape
<1>6. CASE Reject
  <2>1. UNCHANGED <<source, worker, parts, request, server>>
    BY <1>6 DEF Reject
  <2> QED BY <1>6, <2>1, RejectEffect, SameClientShape
<1>7. ASSUME NEW w \in Worker, Send(w) PROVE Shape'
  BY <1>7, SendEffect, SameClientShape
<1>8. ASSUME NEW w \in Worker, ReadFails(w) PROVE Shape'
  BY <1>8, ReadFailsEffect, FailedReadEffect, SameClientShape
<1>9. ASSUME NEW w \in Worker, Progress(w) PROVE Shape'
  <2>1. UNCHANGED <<source, worker, parts, request, server>>
    BY <1>9 DEF Progress
  <2> QED BY <1>9, <2>1, ProgressEffect, SameClientShape
<1>10. ASSUME NEW w \in Worker, PartAnswered(w) PROVE Shape'
  <2>1. /\ worker[w].n \in 1 .. Count /\ client' = CountPart(worker[w].n)
        /\ UNCHANGED <<source, request, server>> /\ WorkersShape' /\ PartsShape'
    BY <1>10, PartAnsweredEffect
  <2>2. ClientShape'
    BY <2>1, CountPartEffect
  <2> QED BY <2>1, <2>2, SameClientShape
<1>11. ASSUME NEW w \in Worker, Abandon(w) PROVE Shape'
  <2>1. /\ client' = Throw(client) /\ WorkersShape' /\ PartsShape'
        /\ UNCHANGED <<source, request, server>>
    BY <1>11, AbandonEffect
  <2>2. ClientShape'
    BY <2>1, ThrowEffect
  <2> QED BY <2>1, <2>2, SameClientShape
<1>12. ASSUME NEW w \in Worker, TransportFails(w) PROVE Shape'
  <2>1. /\ worker[w].n \in 1 .. Count /\ WorkersShape' /\ PartsShape'
        /\ UNCHANGED <<source, request, server>>
        /\ \/ client' = [client EXCEPT !.next = client.next, !.inFlight[worker[w].n] = 0]
           \/ client' = Throw(client)
    BY <1>12, TransportFailsEffect
  <2>2. client.next \in Nat \ {0}
    BY ClientTypes
  <2>3. ClientShape'
    BY <2>1, <2>2, ResetEffect, ThrowEffect
  <2> QED BY <2>1, <2>3, SameClientShape
<1>13. CASE HandleCreate
  BY <1>13, HandleCreateEffect, SameClientShape DEF SameClient
<1>14. CASE CheckComplete
  BY <1>14, CheckCompleteEffect, SameClientShape DEF SameClient
<1>15. CASE CommitComplete
  BY <1>15, CommitCompleteEffect, SameClientShape DEF SameClient
<1>16. CASE DropSession
  BY <1>16, DropSessionEffect, SameClientShape DEF SameClient
<1>17. CASE RemoveBlob
  BY <1>17, RemoveBlobEffect, SameClientShape DEF SameClient
<1>18. ASSUME NEW m \in parts, LookUpSession(m) PROVE Shape'
  BY <1>18, LookUpSessionEffect, SameClientShape DEF SameClient
<1>19. ASSUME NEW m \in parts, WritePart(m) PROVE Shape'
  BY <1>19, WritePartEffect, SameClientShape DEF SameClient
<1>20. ASSUME NEW m \in parts, RecordPart(m) PROVE Shape'
  BY <1>20, RecordPartEffect, SameClientShape DEF SameClient
<1>21. CASE Cancel
  <2>1. UNCHANGED <<source, worker, parts, request, server>>
    BY <1>21 DEF Cancel
  <2> QED BY <1>21, <2>1, CancelEffect, SameClientShape
<1>22. CASE UNCHANGED sdkVars
  BY <1>22, SameClientShape DEF sdkVars
<1> QED BY <1>1, <1>2, <1>3, <1>4, <1>5, <1>6, <1>7, <1>8, <1>9, <1>10, <1>11, <1>12,
           <1>13, <1>14, <1>15, <1>16, <1>17, <1>18, <1>19, <1>20, <1>21, <1>22
        DEF SdkNext, ClientNext, ServerNext, Handle

----------------------------------------------------------------------------
(* Workers and the phase of the call.                                      *)

LEMMA WorkingPhase ==
  ASSUME Shape, WorkersInv, NEW w \in Worker, worker[w].at \in Working
  PROVE  /\ client.phase \in {"parts", "abort", "rejected"}
         /\ client.phase # "parts" => client.aborted \/ client.unread
         /\ worker[w].n \in 1 .. Count
<1>1. worker[w].at \notin {"idle", "returned", "threw"}
  BY DEF Working
<1>2. client.phase \notin {"create", "complete", "resolved"}
  BY <1>1 DEF WorkersInv, PhaseOfWorkers
<1>3. client.phase \in {"parts", "abort", "rejected"}
  BY <1>2, ClientTypes
<1>4. client.phase # "parts" => client.aborted \/ client.unread
  BY <1>1, <1>3 DEF WorkersInv, PhaseOfWorkers
<1>5. worker[w].n \in 1 .. Count
  BY WorkerTypes, CountFacts DEF WorkersInv, WorkerShape
<1> QED BY <1>3, <1>4, <1>5

(* One worker that works takes a step.                                     *)
LEMMA WorkerStep ==
  ASSUME Shape, WorkersInv, UNCHANGED source, SamePhase,
         NEW w \in Worker, worker[w].at \in Working, Others(w),
         client.aborted => client'.aborted, client.unread => client'.unread,
         client'.aborted => client.aborted \/ worker'[w].at = "threw",
         worker'[w].at = "threw" => client'.aborted \/ client'.unread,
         worker'[w].at # "idle",
         worker'[w].at \in Working => worker'[w].n # 0,
         worker'[w].at = "sending" => worker'[w].try # 0,
         worker'[w].at \in {"reading", "returned"} => worker'[w].ahead = 0,
         worker'[w].at = "returned" => worker'[w].n = 0 \/ client'.aborted
  PROVE  WorkersInv'
<1>1. Worker' = Worker
  BY SameSource
<1>2. WorkerShape'
  <2>1. ASSUME NEW v \in Worker
        PROVE  /\ worker'[v].at \in Working => worker'[v].n # 0
               /\ worker'[v].at = "sending" => worker'[v].try # 0
               /\ worker'[v].at \in {"idle", "reading", "returned"} => worker'[v].ahead = 0
               /\ worker'[v].at = "idle" => worker'[v].n = 0
    BY DEF WorkersInv, WorkerShape, Others
  <2> QED BY <1>1, <2>1, Zenon DEF WorkerShape, Working
<1>3. PhaseOfWorkers'
  <2>1. /\ client.phase \in {"parts", "abort", "rejected"}
        /\ client.phase # "parts" => client.aborted \/ client.unread
    BY WorkingPhase
  <2>2. client'.phase = "parts" => \A v \in Worker : worker'[v].at # "idle"
    BY <2>1 DEF WorkersInv, PhaseOfWorkers, Others, SamePhase
  <2>3. client'.phase \notin {"create", "complete", "resolved"}
    BY <2>1 DEF SamePhase
  <2>4. client'.phase \in {"abort", "rejected"} => client'.aborted \/ client'.unread
    BY <2>1 DEF SamePhase
  <2> QED BY <1>1, <2>2, <2>3, <2>4 DEF PhaseOfWorkers
<1>4. AbortedByThrow'
  <2>1. ASSUME NEW v \in Worker, worker'[v].at = "threw"
        PROVE  client'.aborted \/ client'.unread
    BY <2>1 DEF WorkersInv, AbortedByThrow, Others
  <2>2. ASSUME client'.aborted PROVE \E v \in Worker : worker'[v].at = "threw"
    <3>1. CASE worker'[w].at = "threw"
      BY <3>1
    <3>2. CASE client.aborted
      <4>1. PICK v \in Worker : worker[v].at = "threw"
        BY <3>2 DEF WorkersInv, AbortedByThrow
      <4>2. v # w
        BY <4>1 DEF Working
      <4> QED BY <4>1, <4>2 DEF Others
    <3> QED BY <2>2, <3>1, <3>2
  <2>3. ASSUME NEW v \in Worker, worker'[v].at = "returned"
        PROVE  worker'[v].n = 0 \/ client'.aborted
    BY <2>3 DEF WorkersInv, AbortedByThrow, Others
  <2> QED BY <1>1, <2>1, <2>2, <2>3 DEF AbortedByThrow
<1> QED BY <1>2, <1>3, <1>4 DEF WorkersInv

(* The workers stand still.                                                *)
LEMMA StillWorkers ==
  ASSUME WorkersInv, UNCHANGED <<source, worker>>, SameWork
  PROVE  WorkerShape' /\ AbortedByThrow' /\ (SamePhase => WorkersInv')
<1>1. Worker' = Worker
  BY SameSource
<1>2. WorkerShape'
  BY <1>1, Zenon DEF WorkersInv, WorkerShape, Working
<1>3. AbortedByThrow'
  BY <1>1 DEF WorkersInv, AbortedByThrow, SameWork
<1>4. SamePhase => PhaseOfWorkers'
  BY <1>1 DEF WorkersInv, PhaseOfWorkers, SamePhase, SameWork
<1> QED BY <1>2, <1>3, <1>4 DEF WorkersInv

(* The steps that leave the client as it is.                               *)
LEMMA ServerLeavesClient ==
  ASSUME ServerNext \/ UNCHANGED sdkVars
  PROVE  SameClient
BY DEF ServerNext, Handle, HandleCreate, CheckComplete, CommitComplete, DropSession,
       RemoveBlob, LookUpSession, WritePart, RecordPart, SameClient, sdkVars

LEMMA WorkersStep ==
  ASSUME Shape, WorkersInv, [SdkNext]_sdkVars
  PROVE  WorkersInv'
<1>0. WorkerShape
  BY DEF WorkersInv
<1>1. CASE CreateAnswered
  <2>1. /\ client'.phase = "parts" /\ UNCHANGED source /\ client'.aborted = client.aborted
        /\ client.phase = "create"
        /\ \A w \in Worker : /\ worker'[w].at = "reading" /\ worker'[w].n = w
                             /\ worker'[w].try = 0 /\ worker'[w].ahead = 0
    BY <1>1, CreateAnsweredEffect, CreateAnsweredWorkers
  <2>2. Worker' = Worker /\ \A w \in Worker : w # 0
    BY <2>1, SameSource, CardinalityWorker
  <2>3. WorkerShape'
    BY <2>1, <2>2 DEF WorkerShape, Working
  <2>4. PhaseOfWorkers'
    BY <2>1, <2>2 DEF PhaseOfWorkers
  <2>5. ~client.aborted
    BY <2>1 DEF WorkersInv, AbortedByThrow, PhaseOfWorkers
  <2>6. AbortedByThrow'
    BY <2>1, <2>2, <2>5 DEF AbortedByThrow
  <2> QED BY <2>3, <2>4, <2>6 DEF WorkersInv
<1>2. CASE CreateFails
  <2>1. /\ client.phase = "create" /\ client'.phase = "rejected" /\ SameWork
        /\ UNCHANGED <<source, worker>>
    BY <1>2, CreateFailsEffect
  <2>2. \A w \in Worker : worker'[w].at = "idle"
    BY <2>1 DEF WorkersInv, PhaseOfWorkers
  <2>3. PhaseOfWorkers'
    BY <2>1, <2>2, SameSource DEF PhaseOfWorkers
  <2> QED BY <2>1, <2>3, StillWorkers DEF WorkersInv
<1>3. CASE SendComplete
  <2>1. /\ \A w \in Worker : worker[w].at = "returned"
        /\ client'.phase = "complete" /\ SameWork /\ UNCHANGED <<source, worker>>
    BY <1>3, SendCompleteEffect
  <2>2. PhaseOfWorkers'
    BY <2>1, SameSource DEF PhaseOfWorkers
  <2> QED BY <2>1, <2>2, StillWorkers DEF WorkersInv
<1>4. CASE SendAbort
  <2>1. /\ \/ client.phase = "parts" /\ \E w \in Worker : worker[w].at = "threw"
           \/ client.phase = "complete"
        /\ client'.phase = "abort" /\ SameWork /\ UNCHANGED <<source, worker>>
    BY <1>4, SendAbortEffect
  <2>2. \/ client.aborted \/ client.unread
        \/ \A w \in Worker : worker[w].at \in {"idle", "returned"}
    BY <2>1 DEF WorkersInv, PhaseOfWorkers, AbortedByThrow
  <2>3. PhaseOfWorkers'
    BY <2>1, <2>2, SameSource DEF PhaseOfWorkers, SameWork
  <2> QED BY <2>1, <2>3, StillWorkers DEF WorkersInv
<1>5. CASE CompleteAnswered
  <2>1. /\ client.phase = "complete" /\ client'.phase = "resolved" /\ SameWork
        /\ UNCHANGED <<source, worker>>
    BY <1>5, CompleteAnsweredEffect
  <2>2. \A w \in Worker : worker[w].at = "returned"
    BY <2>1 DEF WorkersInv, PhaseOfWorkers
  <2>3. PhaseOfWorkers'
    BY <2>1, <2>2, SameSource DEF PhaseOfWorkers
  <2> QED BY <2>1, <2>3, StillWorkers DEF WorkersInv
<1>6. CASE Reject
  <2>1. /\ client.phase = "abort" /\ client'.phase = "rejected" /\ SameWork
        /\ UNCHANGED <<source, worker>>
    BY <1>6, RejectEffect DEF Reject
  <2>2. \/ client.aborted \/ client.unread
        \/ \A w \in Worker : worker[w].at \in {"idle", "returned"}
    BY <2>1 DEF WorkersInv, PhaseOfWorkers
  <2>3. PhaseOfWorkers'
    BY <2>1, <2>2, SameSource DEF PhaseOfWorkers, SameWork
  <2> QED BY <2>1, <2>3, StillWorkers DEF WorkersInv
<1>7. ASSUME NEW w \in Worker, Send(w) PROVE WorkersInv'
  <2>1. /\ worker[w].at = "reading" /\ worker[w].n \in 1 .. Count
        /\ Others(w) /\ worker'[w].n = worker[w].n /\ UNCHANGED source /\ SamePhase
        /\ client'.aborted = client.aborted /\ client'.unread = client.unread
        /\ \/ /\ worker'[w].at = "returned" /\ worker'[w].ahead = worker[w].ahead
              /\ client.aborted
           \/ worker'[w].at = "sending" /\ worker'[w].try = 1
    BY <1>0, <1>7, SendEffect
  <2>2. worker[w].ahead = 0 /\ worker[w].n # 0
    BY <2>1 DEF WorkersInv, WorkerShape, Working
  <2> QED BY <2>1, <2>2, WorkerStep DEF Working
<1>8. ASSUME NEW w \in Worker, ReadFails(w) PROVE WorkersInv'
  <2>1. /\ SamePhase /\ client'.aborted = client.aborted /\ client'.unread = TRUE
        /\ worker[w].at = "reading" /\ worker'[w].at = "threw" /\ Others(w)
        /\ UNCHANGED source
    BY <1>8, ReadFailsEffect, FailedReadEffect
  <2> QED BY <2>1, WorkerStep DEF Working
<1>9. ASSUME NEW w \in Worker, Progress(w) PROVE WorkersInv'
  <2>1. UNCHANGED <<source, worker>> /\ SamePhase /\ SameWork
    BY <1>0, <1>9, ProgressEffect DEF Progress
  <2> QED BY <2>1, StillWorkers
<1>10. ASSUME NEW w \in Worker, PartAnswered(w) PROVE WorkersInv'
  <2>1. /\ worker[w].at = "sending" /\ worker[w].n \in 1 .. Count
        /\ client' = CountPart(worker[w].n) /\ UNCHANGED source /\ Others(w)
        /\ worker'[w].at = IF worker[w].ahead = 0 THEN "returned" ELSE "reading"
        /\ worker'[w].n = worker[w].ahead /\ worker'[w].ahead = 0
    BY <1>0, <1>10, PartAnsweredEffect
  <2>2. SamePhase /\ SameWork
    BY <2>1, CountPartEffect
  <2> QED BY <2>1, <2>2, WorkerStep DEF Working, SameWork
<1>11. ASSUME NEW w \in Worker, Abandon(w) PROVE WorkersInv'
  <2>1. /\ worker[w].at = "sending" /\ worker'[w].at = "threw"
        /\ client' = Throw(client) /\ Others(w) /\ UNCHANGED source
    BY <1>11, AbandonEffect
  <2>2. SamePhase /\ client'.unread = client.unread /\ client'.aborted = TRUE
    BY <2>1, ThrowEffect
  <2> QED BY <2>1, <2>2, WorkerStep DEF Working
<1>12. ASSUME NEW w \in Worker, TransportFails(w) PROVE WorkersInv'
  <2>1. /\ worker[w].at = "sending" /\ worker[w].n \in 1 .. Count
        /\ worker'[w].n = worker[w].n /\ Others(w) /\ UNCHANGED source
        /\ \/ /\ worker'[w].at = "sending" /\ worker'[w].try # 0
              /\ client' = [client EXCEPT !.next = client.next, !.inFlight[worker[w].n] = 0]
           \/ worker'[w].at = "threw" /\ client' = Throw(client)
    BY <1>0, <1>12, TransportFailsEffect
  <2>2. client.next \in Nat \ {0} /\ worker[w].n # 0
    BY <2>1, ClientTypes
  <2>3. CASE /\ worker'[w].at = "sending" /\ worker'[w].try # 0
             /\ client' = [client EXCEPT !.next = client.next, !.inFlight[worker[w].n] = 0]
    <3>1. SamePhase /\ client'.unread = client.unread /\ client'.aborted = client.aborted
      BY <2>1, <2>2, <2>3, ResetEffect
    <3> QED BY <2>1, <2>2, <2>3, <3>1, WorkerStep DEF Working
  <2>4. CASE worker'[w].at = "threw" /\ client' = Throw(client)
    <3>1. SamePhase /\ client'.unread = client.unread /\ client'.aborted = TRUE
      BY <2>1, <2>4, ThrowEffect
    <3> QED BY <2>1, <2>4, <3>1, WorkerStep DEF Working
  <2> QED BY <2>1, <2>3, <2>4
<1>13. CASE Cancel
  <2>1. UNCHANGED <<source, worker>> /\ SamePhase /\ SameWork
    BY <1>13, CancelEffect DEF Cancel
  <2> QED BY <2>1, StillWorkers
<1>14. CASE ServerNext \/ UNCHANGED sdkVars
  <2>1. SameClient
    BY <1>14, ServerLeavesClient
  <2> QED BY <2>1, ClientUnchanged, StillWorkers DEF SameClient
<1> QED BY <1>1, <1>2, <1>3, <1>4, <1>5, <1>6, <1>7, <1>8, <1>9, <1>10, <1>11, <1>12,
           <1>13, <1>14 DEF SdkNext, ClientNext

----------------------------------------------------------------------------
(* Claims.                                                                 *)

LEMMA SpentFacts ==
  ASSUME Shape
  PROVE  /\ Cardinality(Spent) \in Nat /\ Cardinality(Spent) <= Cardinality(Worker)
         /\ IsFiniteSet(Spent)
<1>1. IsFiniteSet(Worker) /\ Spent \subseteq Worker
  BY CardinalityWorker DEF Spent
<1>2. IsFiniteSet(Spent) /\ Cardinality(Spent) <= Cardinality(Worker)
  BY <1>1, FS_Subset
<1> QED BY <1>2, FS_CardinalityType

(* Spent workers stay spent.                                               *)
LEMMA SpentGrows ==
  ASSUME Shape, UNCHANGED source, Spent \subseteq Spent'
  PROVE  /\ Cardinality(Spent) <= Cardinality(Spent') /\ Cardinality(Spent') \in Nat
         /\ IsFiniteSet(Spent')
<1>1. IsFiniteSet(Spent')
  <2>1. Worker' = Worker /\ IsFiniteSet(Worker)
    BY SameSource, CardinalityWorker
  <2>2. Spent' \subseteq Worker
    BY <2>1 DEF Spent
  <2> QED BY <2>1, <2>2, FS_Subset
<1>2. Cardinality(Spent') \in Nat
  BY <1>1, FS_CardinalityType
<1> QED BY <1>1, <1>2, FS_Subset

(* Nobody claims, and no worker gives a part back.                         *)
LEMMA KeptClaims ==
  ASSUME Shape, ClaimsInv, UNCHANGED source,
         client'.next = client.next, client'.sums = client.sums,
         client.aborted => client'.aborted,
         Spent \subseteq Spent',
         \A w \in Worker :
           /\ worker'[w].n = worker[w].n /\ worker'[w].ahead = worker[w].ahead
           /\ worker'[w].at \in {"sending", "returned"} =>
                worker[w].at \in {"sending", "returned"} \/ client'.aborted
  PROVE  ClaimsInv'
<1>1. Count' = Count /\ Worker' = Worker
  BY SameSource
<1>2. \A n \in 1 .. Count : Counted(n)' <=> Counted(n)
  BY DEF Counted, None
<1>3. \A w \in Worker : Held(w)' = Held(w)
  BY DEF Held
<1>4. HeldOnce'
  <2>0. \A w \in Worker : Held(w) \subseteq 1 .. Count
    BY WorkerTypes DEF Held
  <2>1. \A n \in 1 .. Count : Counted(n)' => n < client'.next
    BY <1>2 DEF ClaimsInv, HeldOnce
  <2>2. ASSUME NEW w \in Worker
        PROVE  /\ \A n \in Held(w)' : n < client'.next /\ ~Counted(n)'
               /\ worker'[w].ahead # 0 => worker'[w].ahead # worker'[w].n
    <3>1. \A n \in Held(w) : n \in 1 .. Count /\ n < client.next /\ ~Counted(n)
      BY <2>0 DEF ClaimsInv, HeldOnce
    <3>2. worker[w].ahead # 0 => worker[w].ahead # worker[w].n
      BY DEF ClaimsInv, HeldOnce
    <3> QED BY <1>2, <1>3, <3>1, <3>2
  <2>3. \A v, w \in Worker : v # w => Held(v)' \cap Held(w)' = {}
    BY <1>3 DEF ClaimsInv, HeldOnce
  <2> QED BY <1>1, <2>1, <2>2, <2>3 DEF HeldOnce
<1>5. NoneLost'
  BY <1>1, <1>2, <1>3 DEF ClaimsInv, NoneLost
<1>6. ClaimsBounded'
  <2>1. Cardinality(Spent) <= Cardinality(Spent') /\ Cardinality(Spent') \in Nat
    BY SpentGrows
  <2>2. Cardinality(Spent) \in Nat /\ Count \in Nat /\ client.next \in Nat
    BY SpentFacts, CountFacts, ClientTypes
  <2>3. client.next <= Count + 1 + Cardinality(Spent)
    BY DEF ClaimsInv, ClaimsBounded
  <2>4. client'.next <= Count + 1 + Cardinality(Spent')
    BY <2>1, <2>2, <2>3
  <2> QED BY <1>1, <2>4 DEF ClaimsBounded
<1> QED BY <1>4, <1>5, <1>6 DEF ClaimsInv

(* The workers and what is done stay as they are.                          *)
LEMMA StillClaims ==
  ASSUME Shape, ClaimsInv, UNCHANGED <<source, worker>>, SameWork,
         client'.sums = client.sums
  PROVE  ClaimsInv'
<1>1. Spent \subseteq Spent'
  BY SameSource DEF Spent
<1> QED BY <1>1, KeptClaims DEF SameWork

(* One worker goes on with the parts it has.                               *)
LEMMA KeptByOne ==
  ASSUME Shape, WorkersInv, ClaimsInv, UNCHANGED source,
         client'.next = client.next, client'.sums = client.sums,
         client.aborted => client'.aborted,
         NEW w \in Worker, Others(w), worker[w].at \in Working,
         worker'[w].n = worker[w].n, worker'[w].ahead = worker[w].ahead,
         worker'[w].at \notin {"idle", "reading"},
         worker[w].at = "reading" /\ worker'[w].at \in {"sending", "returned"} => client.aborted
  PROVE  ClaimsInv'
<1>1. Spent \subseteq Spent'
  BY SameSource DEF Spent, Others
<1>2. \A v \in Worker :
        /\ worker'[v].n = worker[v].n /\ worker'[v].ahead = worker[v].ahead
        /\ worker'[v].at \in {"sending", "returned"} =>
             worker[v].at \in {"sending", "returned"} \/ client'.aborted
  BY DEF Others, Working
<1> QED BY <1>1, <1>2, KeptClaims

LEMMA HeldTypes ==
  ASSUME Shape, NEW w \in Worker
  PROVE  Held(w) \subseteq 1 .. Count
BY WorkerTypes DEF Held

(* A worker sends, and claims the next part if there is one.               *)
LEMMA SendClaims ==
  ASSUME Shape, WorkersInv, ClaimsInv, NEW w \in Worker, Send(w), ~client.aborted
  PROVE  ClaimsInv'
<1> DEFINE c == Claim(client.next)
<1>1. /\ worker[w].at = "reading" /\ Others(w) /\ worker'[w].n = worker[w].n
      /\ UNCHANGED source /\ client'.aborted = client.aborted
      /\ client'.sums = client.sums /\ client'.next = client.next + 1
      /\ worker'[w].at = "sending" /\ worker'[w].ahead = c
  <2>1. WorkerShape
    BY DEF WorkersInv
  <2> QED BY <2>1, SendEffect
<1>2. Count' = Count /\ Worker' = Worker
  BY <1>1, SameSource
<1>3. Count \in Nat /\ client.next \in Nat \ {0}
  BY CountFacts, ClientTypes
<1>4. worker[w].ahead = 0 /\ worker[w].n \in 1 .. Count
  BY <1>1, WorkingPhase DEF WorkersInv, WorkerShape, Working
<1>5. \A n \in 1 .. Count : Counted(n)' <=> Counted(n)
  BY <1>1 DEF Counted, None
<1>6. \A v \in Worker : v # w => Held(v)' = Held(v)
  BY <1>1 DEF Held, Others
<1>7. c = IF client.next <= Count THEN client.next ELSE 0
  BY DEF Claim
<1> HIDE DEF c
<1>8. Held(w)' = Held(w) \cup ({c} \ {0})
  BY <1>1, <1>4 DEF Held
<1>9. \A v \in Worker : \A n \in Held(v) : n \in 1 .. Count /\ n < client.next /\ ~Counted(n)
  BY HeldTypes DEF ClaimsInv, HeldOnce
<1>10. c # 0 => c = client.next /\ c \in 1 .. Count /\ ~Counted(c)
  <2>1. ASSUME c # 0 PROVE c = client.next /\ c \in 1 .. Count
    BY <1>3, <1>7, <2>1
  <2>2. ASSUME NEW n \in 1 .. Count, n = client.next PROVE ~Counted(n)
    BY <1>3, <2>2 DEF ClaimsInv, HeldOnce
  <2> QED BY <2>1, <2>2
<1>11. HeldOnce'
  <2>1. \A n \in 1 .. Count : Counted(n)' => n < client'.next
    <3>1. \A n \in 1 .. Count : Counted(n) => n < client.next
      BY DEF ClaimsInv, HeldOnce
    <3> QED BY <1>1, <1>3, <1>5, <3>1
  <2>2. ASSUME NEW v \in Worker
        PROVE  \A n \in Held(v)' : n < client'.next /\ ~Counted(n)'
    <3> SUFFICES ASSUME NEW n \in Held(v)' PROVE n < client'.next /\ ~Counted(n)'
      OBVIOUS
    <3>1. CASE n \in Held(v)
      <4>1. n \in 1 .. Count /\ n < client.next /\ ~Counted(n)
        BY <1>9, <3>1
      <4> QED BY <1>1, <1>3, <1>5, <4>1
    <3>2. CASE n \notin Held(v)
      <4>1. c # 0 /\ n = c
        BY <1>6, <1>8, <3>2
      <4> QED BY <1>1, <1>3, <1>5, <1>10, <4>1
    <3> QED BY <3>1, <3>2
  <2>3. ASSUME NEW v \in Worker
        PROVE  worker'[v].ahead # 0 => worker'[v].ahead # worker'[v].n
    <3>1. CASE v = w
      <4>1. worker[w].n \in Held(w)
        BY <1>4 DEF Held
      <4>2. worker[w].n < client.next
        BY <1>9, <4>1
      <4> QED BY <1>1, <1>3, <1>4, <1>10, <3>1, <4>2
    <3>2. CASE v # w
      BY <1>1, <3>2 DEF ClaimsInv, HeldOnce, Others
    <3> QED BY <3>1, <3>2
  <2>4. ASSUME NEW u \in Worker, NEW v \in Worker, u # v PROVE Held(u)' \cap Held(v)' = {}
    <3>1. Held(u) \cap Held(v) = {}
      BY <2>4 DEF ClaimsInv, HeldOnce
    <3>2. c # 0 => c \notin Held(u) /\ c \notin Held(v)
      <4>1. \A n \in Held(u) \cup Held(v) : n \in Nat /\ n < client.next
        BY <1>9
      <4> QED BY <1>3, <1>10, <4>1
    <3> QED BY <1>6, <1>8, <2>4, <3>1, <3>2
  <2> QED BY <1>2, <2>1, <2>2, <2>3, <2>4 DEF HeldOnce
<1>12. NoneLost'
  <2>1. ASSUME NEW n \in 1 .. Count, n < client'.next
        PROVE  Counted(n)' \/ \E v \in Worker : n \in Held(v)'
    <3>1. CASE n < client.next
      <4>1. Counted(n) \/ \E v \in Worker : n \in Held(v)
        BY <3>1 DEF ClaimsInv, NoneLost
      <4> QED BY <1>5, <1>6, <1>8, <4>1
    <3>2. CASE ~(n < client.next)
      <4>1. n = client.next /\ n = c /\ c # 0
        BY <1>1, <1>3, <1>7, <2>1, <3>2
      <4> QED BY <1>8, <4>1
    <3> QED BY <3>1, <3>2
  <2>2. ASSUME NEW v \in Worker, worker'[v].at \in {"sending", "returned"},
               worker'[v].ahead = 0
        PROVE  client'.next > Count \/ client'.aborted
    <3>1. CASE v = w
      BY <1>1, <1>3, <1>7, <2>2, <3>1
    <3>2. CASE v # w
      <4>1. client.next > Count \/ client.aborted
        BY <1>1, <2>2, <3>2 DEF ClaimsInv, NoneLost, Others
      <4> QED BY <1>1, <1>3, <4>1
    <3> QED BY <3>1, <3>2
  <2> QED BY <1>2, <2>1, <2>2 DEF NoneLost
<1>13. ClaimsBounded'
  <2>1. Spent \subseteq Spent'
    BY <1>1, <1>2 DEF Spent, Others
  <2>2. /\ Cardinality(Spent) <= Cardinality(Spent') /\ Cardinality(Spent') \in Nat
        /\ IsFiniteSet(Spent') /\ Cardinality(Spent) \in Nat /\ IsFiniteSet(Spent)
    BY <1>1, <2>1, SpentGrows, SpentFacts
  <2>3. CASE client.next <= Count
    <3>1. client'.next <= Count + 1 + Cardinality(Spent')
      BY <1>1, <1>3, <2>2, <2>3
    <3> QED BY <1>2, <3>1 DEF ClaimsBounded
  <2>4. CASE ~(client.next <= Count)
    <3>1. w \notin Spent /\ w \in Spent'
      BY <1>1, <1>2, <1>7, <2>4 DEF Spent
    <3>2. Cardinality(Spent \cup {w}) = Cardinality(Spent) + 1
      BY <2>2, <3>1, FS_AddElement
    <3>3. Spent \cup {w} \subseteq Spent'
      BY <2>1, <3>1
    <3>4. Cardinality(Spent \cup {w}) <= Cardinality(Spent')
      BY <2>2, <3>3, FS_Subset
    <3>5. client.next <= Count + 1 + Cardinality(Spent)
      BY DEF ClaimsInv, ClaimsBounded
    <3>6. client'.next <= Count + 1 + Cardinality(Spent')
      BY <1>1, <1>3, <2>2, <3>2, <3>4, <3>5
    <3> QED BY <1>2, <3>6 DEF ClaimsBounded
  <2> QED BY <2>3, <2>4
<1> QED BY <1>11, <1>12, <1>13 DEF ClaimsInv

(* A part is done, and its worker goes on to the one it read ahead.        *)
LEMMA AnsweredClaims ==
  ASSUME Shape, WorkersInv, ClaimsInv, NEW w \in Worker, PartAnswered(w)
  PROVE  ClaimsInv'
<1> DEFINE k == worker[w].n
<1>1. /\ worker[w].at = "sending" /\ k \in 1 .. Count
      /\ client' = CountPart(k) /\ UNCHANGED source /\ Others(w)
      /\ worker'[w].at = IF worker[w].ahead = 0 THEN "returned" ELSE "reading"
      /\ worker'[w].n = worker[w].ahead /\ worker'[w].ahead = 0
  <2>1. WorkerShape
    BY DEF WorkersInv
  <2> QED BY <2>1, PartAnsweredEffect
<1> HIDE DEF k
<1>2. /\ client'.next = client.next /\ client'.aborted = client.aborted
      /\ client'.sums = [client.sums EXCEPT ![k] = {Sum[Slice(source, k)]}]
  BY <1>1, CountPartEffect DEF SameWork
<1>3. Count' = Count /\ Worker' = Worker /\ Count \in Nat /\ client.next \in Nat \ {0}
  BY <1>1, SameSource, CountFacts, ClientTypes
<1>4. \A n \in 1 .. Count : Counted(n)' <=> Counted(n) \/ n = k
  BY <1>1, <1>2, ClientTypes DEF Counted, None
<1>5. \A v \in Worker : v # w => Held(v)' = Held(v)
  BY <1>1 DEF Held, Others
<1>6. Held(w) = Held(w)' \cup {k} /\ k \notin Held(w)'
  <2>1. worker[w].ahead # 0 => worker[w].ahead # k
    BY DEF ClaimsInv, HeldOnce, k
  <2>2. Held(w) = {k, worker[w].ahead} \ {0}
    BY DEF Held, k
  <2>3. Held(w)' = {worker[w].ahead} \ {0}
    BY <1>1 DEF Held
  <2>4. k # 0
    BY <1>1
  <2> QED BY <2>1, <2>2, <2>3, <2>4
<1>7. \A v \in Worker : \A n \in Held(v) : n \in 1 .. Count /\ n < client.next /\ ~Counted(n)
  BY HeldTypes DEF ClaimsInv, HeldOnce
<1>8. HeldOnce'
  <2>1. \A n \in 1 .. Count : Counted(n)' => n < client'.next
    <3>1. \A n \in 1 .. Count : Counted(n) => n < client.next
      BY DEF ClaimsInv, HeldOnce
    <3> QED BY <1>2, <1>4, <1>6, <1>7, <3>1
  <2>2. ASSUME NEW v \in Worker, NEW n \in Held(v)' PROVE n < client'.next /\ ~Counted(n)'
    <3>1. n \in Held(v) /\ n # k
      <4>1. CASE v = w
        BY <1>6, <2>2, <4>1
      <4>2. CASE v # w
        <5>1. Held(v) \cap Held(w) = {} /\ n \in Held(v)
          BY <1>5, <2>2, <4>2 DEF ClaimsInv, HeldOnce
        <5> QED BY <1>6, <5>1
      <4> QED BY <4>1, <4>2
    <3>2. n \in 1 .. Count /\ n < client.next /\ ~Counted(n)
      BY <1>7, <3>1
    <3> QED BY <1>2, <1>4, <3>1, <3>2
  <2>3. ASSUME NEW v \in Worker PROVE worker'[v].ahead # 0 => worker'[v].ahead # worker'[v].n
    BY <1>1 DEF ClaimsInv, HeldOnce, Others
  <2>4. ASSUME NEW u \in Worker, NEW v \in Worker, u # v PROVE Held(u)' \cap Held(v)' = {}
    <3>1. Held(u) \cap Held(v) = {}
      BY <2>4 DEF ClaimsInv, HeldOnce
    <3> QED BY <1>5, <1>6, <2>4, <3>1
  <2> QED BY <1>3, <2>1, <2>2, <2>3, <2>4 DEF HeldOnce
<1>9. NoneLost'
  <2>1. ASSUME NEW n \in 1 .. Count, n < client'.next
        PROVE  Counted(n)' \/ \E v \in Worker : n \in Held(v)'
    <3>1. Counted(n) \/ \E v \in Worker : n \in Held(v)
      BY <1>2, <2>1 DEF ClaimsInv, NoneLost
    <3> QED BY <1>4, <1>5, <1>6, <3>1
  <2>2. ASSUME NEW v \in Worker, worker'[v].at \in {"sending", "returned"},
               worker'[v].ahead = 0
        PROVE  client'.next > Count \/ client'.aborted
    <3>1. worker[v].at \in {"sending", "returned"} /\ worker[v].ahead = 0
      BY <1>1, <2>2 DEF Others
    <3> QED BY <1>2, <3>1 DEF ClaimsInv, NoneLost
  <2> QED BY <1>3, <2>1, <2>2 DEF NoneLost
<1>10. ClaimsBounded'
  <2>1. Spent \subseteq Spent'
    BY <1>1, <1>3 DEF Spent, Others
  <2>2. /\ Cardinality(Spent) <= Cardinality(Spent') /\ Cardinality(Spent') \in Nat
        /\ Cardinality(Spent) \in Nat
    BY <1>1, <2>1, SpentGrows, SpentFacts
  <2>3. client.next <= Count + 1 + Cardinality(Spent)
    BY DEF ClaimsInv, ClaimsBounded
  <2>4. client'.next <= Count + 1 + Cardinality(Spent')
    BY <1>2, <1>3, <2>2, <2>3
  <2> QED BY <1>3, <2>4 DEF ClaimsBounded
<1> QED BY <1>8, <1>9, <1>10 DEF ClaimsInv

(* Every worker claims its first part.                                     *)
LEMMA FirstClaims ==
  ASSUME Shape, WorkersInv, ClaimsInv, CreateAnswered
  PROVE  ClaimsInv'
<1>1. /\ client'.next = Cardinality(Worker) + 1 /\ UNCHANGED source
      /\ client'.sums = client.sums /\ client.phase = "create"
      /\ \A w \in Worker : /\ worker'[w].at = "reading" /\ worker'[w].n = w
                           /\ worker'[w].ahead = 0
  BY CreateAnsweredEffect, CreateAnsweredWorkers DEF SameLedger
<1>2. /\ Count' = Count /\ Worker' = Worker /\ Count \in Nat
      /\ Cardinality(Worker) \in 1 .. Count /\ Worker = 1 .. Cardinality(Worker)
  BY <1>1, SameSource, CountFacts, CardinalityWorker
<1>3. ASSUME NEW n \in 1 .. Count PROVE ~Counted(n)'
  <2>1. client.next = 1
    BY <1>1 DEF WorkersInv, PhaseOfWorkers
  <2>2. ~Counted(n)
    BY <1>2, <2>1 DEF ClaimsInv, HeldOnce
  <2> QED BY <1>1, <2>2 DEF Counted, None
<1>4. \A w \in Worker : Held(w)' = {w}
  <2>1. \A w \in Worker : w # 0
    BY <1>2
  <2> QED BY <1>1, <2>1 DEF Held
<1>5. HeldOnce'
  <2>1. \A n \in 1 .. Count : Counted(n)' => n < client'.next
    BY <1>3
  <2>2. \A w \in Worker : w < client'.next /\ w \in 1 .. Count
    BY <1>1, <1>2
  <2>3. \A w \in Worker :
          /\ \A n \in Held(w)' : n < client'.next /\ ~Counted(n)'
          /\ worker'[w].ahead # 0 => worker'[w].ahead # worker'[w].n
    BY <1>1, <1>3, <1>4, <2>2
  <2>4. \A v, w \in Worker : v # w => Held(v)' \cap Held(w)' = {}
    BY <1>4
  <2> QED BY <1>2, <2>1, <2>3, <2>4 DEF HeldOnce
<1>6. NoneLost'
  <2>1. ASSUME NEW n \in 1 .. Count, n < client'.next PROVE \E w \in Worker : n \in Held(w)'
    <3>1. n \in Worker
      BY <1>1, <1>2, <2>1
    <3>2. n \in Held(n)'
      BY <1>4, <3>1
    <3> QED BY <3>1, <3>2
  <2> QED BY <1>1, <1>2, <2>1 DEF NoneLost
<1>7. ClaimsBounded'
  <2>1. Spent' = {}
    BY <1>1, <1>2 DEF Spent
  <2>2. Cardinality(Spent') = 0
    BY <2>1, FS_EmptySet
  <2>3. client'.next <= Count + 1 + 0
    BY <1>1, <1>2
  <2> QED BY <1>2, <2>2, <2>3 DEF ClaimsBounded
<1> QED BY <1>5, <1>6, <1>7 DEF ClaimsInv

(* The steps of the call that leave its workers and what is done alone.    *)
LEMMA BetweenPhases ==
  ASSUME Shape, CreateFails \/ SendComplete \/ SendAbort \/ CompleteAnswered \/ Reject \/ Cancel
  PROVE  UNCHANGED <<source, worker, parts, server>> /\ SameWork /\ SameLedger
<1>1. CASE CreateFails
  BY <1>1, CreateFailsEffect
<1>2. CASE SendComplete
  BY <1>2, SendCompleteEffect
<1>3. CASE SendAbort
  BY <1>3, SendAbortEffect
<1>4. CASE CompleteAnswered
  BY <1>4, CompleteAnsweredEffect
<1>5. CASE Reject
  BY <1>5, RejectEffect DEF Reject
<1>6. CASE Cancel
  BY <1>6, CancelEffect DEF Cancel
<1> QED BY <1>1, <1>2, <1>3, <1>4, <1>5, <1>6

LEMMA ClaimsStep ==
  ASSUME Shape, WorkersInv, ClaimsInv, [SdkNext]_sdkVars
  PROVE  ClaimsInv'
<1>0. WorkerShape
  BY DEF WorkersInv
<1>1. CASE CreateAnswered
  BY <1>1, FirstClaims
<1>2. CASE CreateFails \/ SendComplete \/ SendAbort \/ CompleteAnswered \/ Reject \/ Cancel
  BY <1>2, BetweenPhases, StillClaims DEF SameLedger
<1>3. ASSUME NEW w \in Worker, Send(w) PROVE ClaimsInv'
  <2>1. CASE client.aborted
    <3>1. /\ worker[w].at = "reading" /\ worker'[w].n = worker[w].n /\ Others(w)
          /\ UNCHANGED <<source, client>> /\ worker'[w].at = "returned"
          /\ worker'[w].ahead = worker[w].ahead
      BY <1>0, <1>3, <2>1, SendEffect
    <3> QED BY <2>1, <3>1, KeptByOne DEF Working
  <2>2. CASE ~client.aborted
    BY <1>3, <2>2, SendClaims
  <2> QED BY <2>1, <2>2
<1>4. ASSUME NEW w \in Worker, ReadFails(w) PROVE ClaimsInv'
  <2>1. /\ worker[w].at = "reading" /\ worker'[w].n = worker[w].n /\ Others(w)
        /\ UNCHANGED source /\ worker'[w].at = "threw"
        /\ worker'[w].ahead = worker[w].ahead
        /\ client'.next = client.next /\ client'.sums = client.sums
        /\ client'.aborted = client.aborted
    BY <1>4, ReadFailsEffect, FailedReadEffect DEF SameLedger
  <2> QED BY <2>1, KeptByOne DEF Working
<1>5. ASSUME NEW w \in Worker, Progress(w) PROVE ClaimsInv'
  <2>1. UNCHANGED <<source, worker>> /\ SameWork /\ client'.sums = client.sums
    BY <1>0, <1>5, ProgressEffect DEF Progress
  <2> QED BY <2>1, StillClaims
<1>6. ASSUME NEW w \in Worker, PartAnswered(w) PROVE ClaimsInv'
  BY <1>6, AnsweredClaims
<1>7. ASSUME NEW w \in Worker, worker[w].at = "sending", worker'[w].n = worker[w].n,
             worker'[w].ahead = worker[w].ahead, Others(w), UNCHANGED source,
             worker'[w].at = "threw", client' = Throw(client)
      PROVE  ClaimsInv'
  <2>1. client'.next = client.next /\ client'.sums = client.sums /\ client'.aborted = TRUE
    BY <1>7, ThrowEffect DEF SameLedger
  <2> QED BY <1>7, <2>1, KeptByOne DEF Working
<1>8. ASSUME NEW w \in Worker, Abandon(w) PROVE ClaimsInv'
  BY <1>7, <1>8, AbandonEffect
<1>9. ASSUME NEW w \in Worker, TransportFails(w) PROVE ClaimsInv'
  <2>1. /\ worker[w].at = "sending" /\ worker[w].n \in 1 .. Count
        /\ worker'[w].n = worker[w].n /\ worker'[w].ahead = worker[w].ahead
        /\ Others(w) /\ UNCHANGED source
        /\ \/ /\ worker'[w].at = "sending"
              /\ client' = [client EXCEPT !.next = client.next, !.inFlight[worker[w].n] = 0]
           \/ worker'[w].at = "threw" /\ client' = Throw(client)
    BY <1>0, <1>9, TransportFailsEffect
  <2>2. CASE /\ worker'[w].at = "sending"
             /\ client' = [client EXCEPT !.next = client.next, !.inFlight[worker[w].n] = 0]
    <3>1. client.next \in Nat \ {0}
      BY ClientTypes
    <3>2. /\ client'.next = client.next /\ client'.sums = client.sums
          /\ client'.aborted = client.aborted
      BY <2>1, <2>2, <3>1, ResetEffect
    <3> QED BY <2>1, <2>2, <3>2, KeptByOne DEF Working
  <2>3. CASE worker'[w].at = "threw" /\ client' = Throw(client)
    BY <1>7, <2>1, <2>3
  <2> QED BY <2>1, <2>2, <2>3
<1>10. CASE ServerNext \/ UNCHANGED sdkVars
  <2>1. SameClient
    BY <1>10, ServerLeavesClient
  <2> QED BY <2>1, ClientUnchanged, StillClaims DEF SameClient, SameLedger
<1> QED BY <1>1, <1>2, <1>3, <1>4, <1>5, <1>6, <1>8, <1>9, <1>10 DEF SdkNext, ClientNext

----------------------------------------------------------------------------
(* Progress.                                                               *)

LEMMA CountedTypes ==
  ASSUME Shape
  PROVE  /\ CountedLength \in [1 .. Count -> Nat]
         /\ \A n \in 1 .. Count : Len(Slice(source, n)) \in Nat
<1>1. \A n \in 1 .. Count : Len(Slice(source, n)) \in Nat
  BY SliceFacts DEF Shape
<1> QED BY <1>1 DEF CountedLength

(* What is done and in flight is never more than there is.                 *)
LEMMA CurrentBelow ==
  ASSUME Shape, NEW f \in [1 .. Count -> Nat], NEW g \in [1 .. Count -> Nat],
         \A n \in 1 .. Count : f[n] + g[n] <= Len(Slice(source, n))
  PROVE  Total(f, Count) + Total(g, Count) <= Size
<1>1. SliceLength \in [1 .. Count -> Nat] /\ Total(SliceLength, Count) = Size /\ Count \in Nat
  BY SlicesAddUp, CountFacts DEF Shape
<1>2. \A n \in 1 .. Count : f[n] + g[n] <= SliceLength[n]
  BY DEF SliceLength
<1>3. Total(f, Count) + Total(g, Count) <= Total(SliceLength, Count)
  BY <1>1, <1>2, TotalBelow
<1> QED BY <1>1, <1>3

LEMMA SameCounted ==
  ASSUME UNCHANGED source, client'.sums = client.sums
  PROVE  /\ CountedLength' = CountedLength
         /\ \A n \in 1 .. Count : Counted(n)' <=> Counted(n)
<1>1. Count' = Count
  BY SameSource
<1>2. \A n \in 1 .. Count : (Counted(n)' <=> Counted(n)) /\ Slice(source, n)' = Slice(source, n)
  BY DEF Counted, None, Slice
<1> QED BY <1>1, <1>2 DEF CountedLength

(* What is reported, after one entry of a part in flight has changed.      *)
LEMMA LedgerKept ==
  ASSUME Shape, Ledger, UNCHANGED source, client'.done = client.done,
         client'.sums = client.sums, client'.inFlight \in [1 .. Count -> Nat],
         \A n \in 1 .. Count :
           /\ client'.inFlight[n] <= Len(Slice(source, n))
           /\ Counted(n) => client'.inFlight[n] = 0,
         \/ client'.reported = client.reported
         \/ Reported(client.done + Total(client'.inFlight, Count))
  PROVE  Ledger'
<1>1. Count' = Count /\ Size' = Size /\ Count \in Nat /\ Size \in Nat
  BY SameSource, CountFacts
<1>2. /\ CountedLength' = CountedLength
      /\ \A n \in 1 .. Count : Counted(n)' <=> Counted(n)
  BY SameCounted
<1>3. \A n \in 1 .. Count : Slice(source, n)' = Slice(source, n) /\ Sum' = Sum
  BY DEF Slice, Sum
<1>4. \A n \in 1 .. Count :
        /\ client'.inFlight[n] <= Len(Slice(source, n))'
        /\ Counted(n)' => client'.inFlight[n] = 0
        /\ Counted(n)' => client'.sums[n] = {Sum[Slice(source, n)]}'
  <2>1. \A n \in 1 .. Count : Counted(n) => client.sums[n] = {Sum[Slice(source, n)]}
    BY DEF Ledger
  <2> QED BY <1>2, <1>3, <2>1
<1>5. /\ client.done = Total(CountedLength, Count)
      /\ client.done <= client.reported /\ client.reported <= Size
  BY DEF Ledger
<1>6. client'.done = Total(CountedLength, Count)'
  <2>1. Total(CountedLength, Count)' = Total(CountedLength, Count)
    BY <1>1, <1>2 DEF Total
  <2> QED BY <1>5, <2>1
<1>7. client'.done <= client'.reported /\ client'.reported <= Size
  <2> DEFINE current == client.done + Total(client'.inFlight, Count)
  <2>1. current <= Size
    <3>1. /\ CountedLength \in [1 .. Count -> Nat]
          /\ \A n \in 1 .. Count : Len(Slice(source, n)) \in Nat
      BY CountedTypes
    <3>2. ASSUME NEW n \in 1 .. Count
          PROVE  CountedLength[n] + client'.inFlight[n] <= Len(Slice(source, n))
      <4>1. CountedLength[n] = IF Counted(n) THEN Len(Slice(source, n)) ELSE 0
        BY DEF CountedLength
      <4>2. Len(Slice(source, n)) \in Nat /\ client'.inFlight[n] \in Nat
        BY <3>1
      <4>3. /\ client'.inFlight[n] <= Len(Slice(source, n))
            /\ Counted(n) => client'.inFlight[n] = 0
        OBVIOUS
      <4> QED BY <4>1, <4>2, <4>3
    <3>3. Total(CountedLength, Count) + Total(client'.inFlight, Count) <= Size
      BY <3>1, <3>2, CurrentBelow
    <3> QED BY <1>5, <3>3
  <2>2. /\ client.done \in Nat /\ client.reported \in Nat
        /\ Total(client'.inFlight, Count) \in Nat
    <3>1. Count \in 0 .. Count
      BY <1>1
    <3> QED BY <1>1, <3>1, ClientTypes, TotalFacts
  <2>3. current \in Nat /\ client.done <= current
    BY <2>2
  <2>4. client'.reported = client.reported \/ Reported(current)
    OBVIOUS
  <2> HIDE DEF current
  <2> QED BY <1>1, <1>5, <2>1, <2>2, <2>3, <2>4 DEF Reported
<1> QED BY <1>1, <1>4, <1>6, <1>7 DEF Ledger

(* A part that was not counted is.                                         *)
LEMMA LedgerCounts ==
  ASSUME Shape, Ledger, UNCHANGED source, NEW k \in 1 .. Count, ~Counted(k),
         client' = CountPart(k)
  PROVE  Ledger'
<1> DEFINE len == Len(Slice(source, k))
<1> DEFINE current == client'.done + Total(client'.inFlight, Count)
<1>1. /\ ClientShape' /\ client'.done = client.done + len
      /\ client'.sums = [client.sums EXCEPT ![k] = {Sum[Slice(source, k)]}]
      /\ client'.inFlight = [client.inFlight EXCEPT ![k] = 0]
      /\ current \in Nat /\ Reported(current)
  BY CountPartEffect
<1>2. /\ Count' = Count /\ Size' = Size /\ Count \in Nat /\ Size \in Nat
      /\ len \in Nat /\ client.done \in Nat /\ client.reported \in Nat
      /\ client.sums \in [1 .. Count -> SUBSET SUBSET Bits]
      /\ client.inFlight \in [1 .. Count -> Nat]
  BY SameSource, CountFacts, CountedTypes, ClientTypes
<1>3. \A n \in 1 .. Count : Slice(source, n)' = Slice(source, n) /\ Sum' = Sum
  BY DEF Slice, Sum
<1>4. \A n \in 1 .. Count : Counted(n)' <=> Counted(n) \/ n = k
  BY <1>1, <1>2 DEF Counted, None
<1>5. ASSUME NEW n \in 1 .. Count
      PROVE  /\ client'.inFlight[n] <= Len(Slice(source, n))
             /\ Counted(n)' => client'.inFlight[n] = 0
             /\ Counted(n)' => client'.sums[n] = {Sum[Slice(source, n)]}
  <2>1. /\ client.inFlight[n] <= Len(Slice(source, n))
        /\ Counted(n) => client.inFlight[n] = 0
        /\ Counted(n) => client.sums[n] = {Sum[Slice(source, n)]}
    BY DEF Ledger
  <2>2. CASE n = k
    BY <1>1, <1>2, <2>2
  <2>3. CASE n # k
    BY <1>1, <1>2, <1>4, <2>1, <2>3
  <2> QED BY <2>2, <2>3
<1> DEFINE f == CountedLength
<1> DEFINE h == [n \in 1 .. Count |-> IF Counted(n)' THEN Len(Slice(source, n)) ELSE 0]
<1>6. CountedLength' = h
  BY <1>2, <1>3 DEF CountedLength
<1>7. f \in [1 .. Count -> Nat] /\ h \in [1 .. Count -> Nat]
  BY CountedTypes
<1>8. f[k] = 0 /\ h[k] = len /\ \A n \in 1 .. Count : n # k => h[n] = f[n]
  BY <1>4 DEF CountedLength
<1>9. \A n \in 1 .. Count : h[n] = IF Counted(n)' THEN Len(Slice(source, n)) ELSE 0
  OBVIOUS
<1> HIDE DEF f, h, len
<1>10. Total(f, Count) \in Nat /\ Total(h, Count) \in Nat
  <2>1. Count \in 0 .. Count
    BY <1>2
  <2>2. Total(f, Count) \in Nat
    BY <1>2, <1>7, <2>1, TotalFacts
  <2>3. Total(h, Count) \in Nat
    BY <1>2, <1>7, <2>1, TotalFacts
  <2> QED BY <2>2, <2>3
<1>11. Total(h, Count) = client'.done
  <2>1. Total(h, Count) + f[k] = Total(f, Count) + h[k]
    BY <1>2, <1>7, <1>8, TotalUpdate
  <2>2. client.done = Total(f, Count)
    BY DEF Ledger, f
  <2> QED BY <1>1, <1>2, <1>8, <1>10, <2>1, <2>2
<1>12. Total(CountedLength, Count)' = Total(h, Count)
  BY <1>2, <1>6 DEF Total
<1>13. client'.inFlight \in [1 .. Count -> Nat] /\ Total(client'.inFlight, Count) \in Nat
  <2>1. client'.inFlight \in [1 .. Count -> Nat] /\ Count \in 0 .. Count
    BY <1>1, <1>2
  <2> QED BY <1>2, <2>1, TotalFacts
<1>14. current <= Size /\ client'.done <= current
  <2>1. ASSUME NEW n \in 1 .. Count
        PROVE  h[n] + client'.inFlight[n] <= Len(Slice(source, n))
    <3>1. Len(Slice(source, n)) \in Nat /\ client'.inFlight[n] \in Nat
      BY <1>13, CountedTypes
    <3> QED BY <1>5, <1>9, <3>1
  <2>2. Total(h, Count) + Total(client'.inFlight, Count) <= Size
    BY <1>7, <1>13, <2>1, CurrentBelow
  <2> QED BY <1>10, <1>11, <1>13, <2>2
<1> HIDE DEF current
<1>15. client'.done <= client'.reported /\ client'.reported <= Size
  <2>1. client.reported <= Size /\ client'.done \in Nat
    BY <1>1, <1>2 DEF Ledger
  <2> QED BY <1>1, <1>2, <1>14, <2>1 DEF Reported
<1> QED BY <1>2, <1>3, <1>5, <1>11, <1>12, <1>15 DEF Ledger

LEMMA LedgerStill ==
  ASSUME Shape, Ledger, UNCHANGED source, SameLedger
  PROVE  Ledger'
<1>1. client.inFlight \in [1 .. Count -> Nat]
  BY ClientTypes
<1> QED BY <1>1, LedgerKept DEF SameLedger, Ledger

LEMMA LedgerReset ==
  ASSUME Shape, Ledger, UNCHANGED source, NEW k \in 1 .. Count, NEW next \in Nat \ {0},
         client' = [client EXCEPT !.next = next, !.inFlight[k] = 0]
  PROVE  Ledger'
<1>1. /\ client'.done = client.done /\ client'.reported = client.reported
      /\ client'.sums = client.sums
      /\ client'.inFlight = [client.inFlight EXCEPT ![k] = 0]
  BY ResetEffect
<1>2. client.inFlight \in [1 .. Count -> Nat]
  BY ClientTypes
<1>3. client'.inFlight \in [1 .. Count -> Nat]
  BY <1>1, <1>2
<1>4. ASSUME NEW n \in 1 .. Count
      PROVE  /\ client'.inFlight[n] <= Len(Slice(source, n))
             /\ Counted(n) => client'.inFlight[n] = 0
  <2>1. /\ client.inFlight[n] <= Len(Slice(source, n)) /\ Len(Slice(source, n)) \in Nat
        /\ Counted(n) => client.inFlight[n] = 0
    BY CountedTypes DEF Ledger
  <2> QED BY <1>1, <1>2, <2>1
<1> QED BY <1>1, <1>3, <1>4, LedgerKept

(* A part that a worker has is not counted.                                *)
LEMMA HeldNotCounted ==
  ASSUME Shape, WorkersInv, ClaimsInv, NEW w \in Worker, worker[w].at \in Working
  PROVE  worker[w].n \in 1 .. Count /\ ~Counted(worker[w].n)
<1>1. worker[w].n \in 1 .. Count
  BY WorkingPhase
<1>2. worker[w].n \in Held(w)
  BY <1>1 DEF Held
<1> QED BY <1>1, <1>2 DEF ClaimsInv, HeldOnce

LEMMA LedgerStep ==
  ASSUME Shape, WorkersInv, ClaimsInv, Ledger, [SdkNext]_sdkVars
  PROVE  Ledger'
<1>0. WorkerShape /\ client.next \in Nat \ {0}
  BY ClientTypes DEF WorkersInv
<1>1. CASE CreateAnswered
  BY <1>1, CreateAnsweredEffect, CreateAnsweredWorkers, LedgerStill
<1>2. CASE CreateFails \/ SendComplete \/ SendAbort \/ CompleteAnswered \/ Reject \/ Cancel
  BY <1>2, BetweenPhases, LedgerStill
<1>3. ASSUME NEW w \in Worker, Send(w) PROVE Ledger'
  <2>1. worker[w].n \in 1 .. Count /\ UNCHANGED source
    BY <1>0, <1>3, SendEffect
  <2>2. CASE client.aborted
    <3>1. UNCHANGED client
      BY <1>3, <2>2 DEF Send
    <3> QED BY <2>1, <3>1, ClientUnchanged, LedgerStill
  <2>3. CASE ~client.aborted
    <3>1. client' = [client EXCEPT !.next = client.next + 1, !.inFlight[worker[w].n] = 0]
      BY <1>3, <2>3 DEF Send
    <3>2. client.next + 1 \in Nat \ {0}
      BY <1>0
    <3> QED BY <2>1, <3>1, <3>2, LedgerReset
  <2> QED BY <2>2, <2>3
<1>4. ASSUME NEW w \in Worker, ReadFails(w) PROVE Ledger'
  BY <1>4, ReadFailsEffect, FailedReadEffect, LedgerStill
<1>5. ASSUME NEW w \in Worker, Progress(w) PROVE Ledger'
  <2> DEFINE k == worker[w].n
  <2>1. /\ k \in 1 .. Count /\ ClientShape'
        /\ client'.done = client.done /\ client'.sums = client.sums
        /\ client'.inFlight = [client.inFlight EXCEPT ![k] = Len(Slice(source, k))]
        /\ Reported(client.done + Total(client'.inFlight, Count))
    BY <1>0, <1>5, ProgressEffect
  <2>2. UNCHANGED source /\ worker[w].at \in Working
    BY <1>5 DEF Progress, Working
  <2>3. ~Counted(k)
    BY <2>2, HeldNotCounted
  <2> HIDE DEF k
  <2>4. client.inFlight \in [1 .. Count -> Nat]
    BY ClientTypes
  <2>5. client'.inFlight \in [1 .. Count -> Nat]
    BY <2>1, <2>4, CountedTypes
  <2>6. ASSUME NEW n \in 1 .. Count
        PROVE  /\ client'.inFlight[n] <= Len(Slice(source, n))
               /\ Counted(n) => client'.inFlight[n] = 0
    <3>1. /\ client.inFlight[n] <= Len(Slice(source, n)) /\ Len(Slice(source, n)) \in Nat
          /\ Counted(n) => client.inFlight[n] = 0
      BY CountedTypes DEF Ledger
    <3>2. CASE n = k
      BY <2>1, <2>3, <2>4, <3>1, <3>2
    <3>3. CASE n # k
      BY <2>1, <2>4, <3>1, <3>3
    <3> QED BY <3>2, <3>3
  <2> QED BY <2>1, <2>2, <2>5, <2>6, LedgerKept
<1>6. ASSUME NEW w \in Worker, PartAnswered(w) PROVE Ledger'
  <2>1. /\ worker[w].at = "sending" /\ worker[w].n \in 1 .. Count
        /\ client' = CountPart(worker[w].n) /\ UNCHANGED source
    BY <1>0, <1>6, PartAnsweredEffect
  <2>2. ~Counted(worker[w].n)
    BY <2>1, HeldNotCounted DEF Working
  <2> QED BY <2>1, <2>2, LedgerCounts
<1>7. ASSUME NEW w \in Worker, Abandon(w) PROVE Ledger'
  BY <1>7, AbandonEffect, ThrowEffect, LedgerStill
<1>8. ASSUME NEW w \in Worker, TransportFails(w) PROVE Ledger'
  <2>1. /\ worker[w].n \in 1 .. Count /\ UNCHANGED source
        /\ \/ client' = [client EXCEPT !.next = client.next, !.inFlight[worker[w].n] = 0]
           \/ client' = Throw(client)
    BY <1>0, <1>8, TransportFailsEffect
  <2> QED BY <1>0, <2>1, LedgerReset, ThrowEffect, LedgerStill
<1>9. CASE ServerNext \/ UNCHANGED sdkVars
  <2>1. SameClient
    BY <1>9, ServerLeavesClient
  <2> QED BY <2>1, ClientUnchanged, LedgerStill DEF SameClient
<1> QED BY <1>1, <1>2, <1>3, <1>4, <1>5, <1>6, <1>7, <1>8, <1>9 DEF SdkNext, ClientNext

----------------------------------------------------------------------------
(* The session.                                                            *)

LEMMA BegunStep ==
  ASSUME Shape, WorkersInv, [SdkNext]_sdkVars
  PROVE  /\ Begun => Begun'
         /\ Begun' => Begun \/ CreateAnswered
<1>0. WorkerShape
  BY DEF WorkersInv
<1>1. ASSUME UNCHANGED <<source, worker>> PROVE Begun' <=> Begun
  BY <1>1, SameSource DEF Begun
<1>2. ASSUME UNCHANGED source, NEW w \in Worker, worker[w].at # "idle", worker'[w].at # "idle"
      PROVE  Begun /\ Begun'
  BY <1>2, SameSource DEF Begun
<1>3. CASE CreateAnswered
  <2>1. UNCHANGED source /\ \A w \in Worker : worker'[w].at = "reading"
    BY <1>3, CreateAnsweredWorkers
  <2>2. 1 \in Worker
    BY CardinalityWorker
  <2>3. Begun'
    BY <2>1, <2>2, SameSource DEF Begun
  <2> QED BY <1>3, <2>3
<1>4. CASE CreateFails \/ SendComplete \/ SendAbort \/ CompleteAnswered \/ Reject \/ Cancel
  BY <1>1, <1>4, BetweenPhases
<1>5. ASSUME NEW w \in Worker, Send(w) PROVE Begun /\ Begun'
  <2>1. UNCHANGED source /\ worker[w].at = "reading" /\ worker'[w].at \in {"returned", "sending"}
    BY <1>0, <1>5, SendEffect
  <2> QED BY <1>2, <2>1
<1>6. ASSUME NEW w \in Worker, ReadFails(w) PROVE Begun /\ Begun'
  BY <1>2, <1>6, FailedReadEffect
<1>7. ASSUME NEW w \in Worker, Progress(w) PROVE Begun' <=> Begun
  BY <1>1, <1>7 DEF Progress
<1>8. ASSUME NEW w \in Worker, PartAnswered(w) PROVE Begun /\ Begun'
  <2>1. UNCHANGED source /\ worker[w].at = "sending" /\ worker'[w].at \in {"returned", "reading"}
    BY <1>0, <1>8, PartAnsweredEffect
  <2> QED BY <1>2, <2>1
<1>9. ASSUME NEW w \in Worker, Abandon(w) PROVE Begun /\ Begun'
  BY <1>2, <1>9, AbandonEffect
<1>10. ASSUME NEW w \in Worker, TransportFails(w) PROVE Begun /\ Begun'
  <2>1. UNCHANGED source /\ worker[w].at = "sending" /\ worker'[w].at \in {"sending", "threw"}
    BY <1>0, <1>10, TransportFailsEffect
  <2> QED BY <1>2, <2>1
<1>11. CASE ServerNext \/ UNCHANGED sdkVars
  <2>1. SameClient
    BY <1>11, ServerLeavesClient
  <2> QED BY <1>1, <2>1 DEF SameClient
<1> QED BY <1>3, <1>4, <1>5, <1>6, <1>7, <1>8, <1>9, <1>10, <1>11 DEF SdkNext, ClientNext

(* The steps of a worker.                                                  *)
WorkerActs(w) ==
  \/ Send(w) \/ ReadFails(w) \/ Progress(w) \/ PartAnswered(w) \/ Abandon(w)
  \/ TransportFails(w)

(* A worker's step leaves the phase of the call, its requests and the      *)
(* session alone.                                                          *)
LEMMA WorkerLeavesCall ==
  ASSUME Shape, WorkersInv, NEW w \in Worker, WorkerActs(w)
  PROVE  UNCHANGED <<source, request, server>> /\ SamePhase /\ SameCall
<1>0. WorkerShape /\ client.next \in Nat \ {0}
  BY ClientTypes DEF WorkersInv
<1>1. CASE Send(w)
  BY <1>0, <1>1, SendEffect
<1>2. CASE ReadFails(w)
  BY <1>2, ReadFailsEffect, FailedReadEffect
<1>3. CASE Progress(w)
  BY <1>0, <1>3, ProgressEffect DEF Progress
<1>4. CASE PartAnswered(w)
  BY <1>0, <1>4, PartAnsweredEffect, CountPartEffect
<1>5. CASE Abandon(w)
  BY <1>5, AbandonEffect, ThrowEffect
<1>6. CASE TransportFails(w)
  <2>1. /\ worker[w].n \in 1 .. Count /\ UNCHANGED <<source, request, server>>
        /\ \/ client' = [client EXCEPT !.next = client.next, !.inFlight[worker[w].n] = 0]
           \/ client' = Throw(client)
    BY <1>0, <1>6, TransportFailsEffect
  <2> QED BY <1>0, <2>1, ResetEffect, ThrowEffect
<1> QED BY <1>1, <1>2, <1>3, <1>4, <1>5, <1>6 DEF WorkerActs

LEMMA FateStep ==
  ASSUME Shape, WorkersInv, SessionFate, CompleteFate, RowsRight, [SdkNext]_sdkVars
  PROVE  SessionFate' /\ CompleteFate'
<1>0. (Begun => Begun') /\ (Begun' => Begun \/ CreateAnswered)
  BY BegunStep
<1> USE DEF SessionFate, CompleteFate, Dropped, None
<1>1. CASE CreateAnswered
  <2>1. /\ client'.phase = "parts" /\ client.phase = "create" /\ client'.acked = client.acked
        /\ server.session /\ UNCHANGED <<request, server>>
    BY <1>1, CreateAnsweredEffect, CreateAnsweredWorkers DEF SameCall
  <2> QED BY <2>1
<1>2. ASSUME ~CreateAnswered, UNCHANGED <<request, server>>, client'.acked = client.acked,
             SamePhase
      PROVE  SessionFate' /\ CompleteFate'
  BY <1>0, <1>2 DEF SamePhase
<1>3. CASE CreateFails
  <2>1. /\ client.phase = "create" /\ client'.phase = "rejected"
        /\ client'.acked = client.acked /\ UNCHANGED <<request, server>>
    BY <1>3, CreateFailsEffect DEF SameCall
  <2>2. ~CreateAnswered
    BY <2>1, CreateAnsweredEffect
  <2> QED BY <1>0, <2>1, <2>2
<1>4. CASE SendComplete
  <2>1. /\ client.phase = "parts" /\ client'.phase = "complete" /\ client'.acked = client.acked
        /\ UNCHANGED server /\ request'.complete \in {"unsent", "sent"}
        /\ request'.abort = request.abort /\ request'.object = request.object
    BY <1>4, SendCompleteEffect DEF SameCall
  <2>2. ~CreateAnswered
    BY <2>1, CreateAnsweredEffect
  <2> QED BY <1>0, <2>1, <2>2
<1>5. CASE SendAbort
  <2>1. /\ client.phase \in {"parts", "complete"} /\ client'.phase = "abort"
        /\ client'.acked = client.acked /\ UNCHANGED server
        /\ request'.complete = request.complete /\ request'.abort = "sent"
        /\ request'.object = request.object
    BY <1>5, SendAbortEffect DEF SameCall
  <2>2. Begun
    <3>1. 1 \in Worker
      BY CardinalityWorker
    <3>2. worker[1].at # "idle"
      BY <2>1, <3>1 DEF WorkersInv, PhaseOfWorkers
    <3> QED BY <3>1, <3>2 DEF Begun
  <2>3. server.session \/ server.object # {}
    BY <2>1, <2>2
  <2>4. ~client.acked /\ request.abort = "unsent"
    BY <2>1
  <2>5. SessionFate'
    BY <2>1, <2>3, <2>4
  <2>6. CompleteFate'
    BY <2>1
  <2> QED BY <2>5, <2>6
<1>6. CASE CompleteAnswered
  <2>1. /\ client.phase = "complete" /\ request.complete = "ok" /\ client'.phase = "resolved"
        /\ client'.acked = client.acked /\ UNCHANGED <<request, server>>
    BY <1>6, CompleteAnsweredEffect DEF SameCall
  <2>2. ~CreateAnswered
    BY <2>1, CreateAnsweredEffect
  <2> QED BY <1>0, <2>1, <2>2
<1>7. CASE Reject
  <2>1. /\ client.phase = "abort" /\ client'.phase = "rejected"
        /\ client'.acked => request.abort \in {"ok", "refused", "orphaned"}
        /\ UNCHANGED <<request, server>>
    BY <1>7, RejectEffect DEF Reject
  <2>2. ~CreateAnswered
    BY <2>1, CreateAnsweredEffect
  <2> QED BY <1>0, <2>1, <2>2
<1>8. ASSUME NEW w \in Worker, WorkerActs(w) PROVE SessionFate' /\ CompleteFate'
  <2>1. UNCHANGED <<request, server>> /\ client'.acked = client.acked /\ SamePhase
    BY <1>8, WorkerLeavesCall DEF SameCall
  <2>2. ~CreateAnswered
    BY <2>1, CreateAnsweredEffect, CreateAnsweredWorkers DEF SamePhase
  <2> QED BY <1>2, <2>1, <2>2
<1>9. CASE Cancel
  <2>1. UNCHANGED <<request, server>> /\ client'.acked = client.acked /\ SamePhase
    BY <1>9, CancelEffect DEF Cancel
  <2>2. ~CreateAnswered
    BY <2>1, CreateAnsweredEffect, CreateAnsweredWorkers DEF SamePhase
  <2> QED BY <1>2, <2>1, <2>2
<1>10. CASE ServerNext \/ UNCHANGED sdkVars
  <2>1. UNCHANGED client
    BY <1>10, ServerLeavesClient DEF SameClient
  <2>2. ~CreateAnswered /\ (Begun' <=> Begun)
    BY <1>0, <2>1, CreateAnsweredEffect, CreateAnsweredWorkers
  <2>3. CASE UNCHANGED <<request, server>>
    BY <1>2, <2>1, <2>2, <2>3 DEF SamePhase
  <2>4. CASE HandleCreate
    <3>1. /\ ~server.session /\ server.blob = {} /\ request.abort = "unsent"
          /\ server'.session = TRUE /\ server'.blob = {<<>>}
          /\ server'.object = server.object /\ UNCHANGED request
      BY <2>4, HandleCreateEffect
    <3> QED BY <2>1, <2>2, <3>1
  <2>5. ASSUME UNCHANGED request, server'.session = server.session,
               server'.object = server.object, server'.blob = {} <=> server.blob = {}
        PROVE  SessionFate' /\ CompleteFate'
    BY <2>1, <2>2, <2>5
  <2>6. ASSUME NEW m \in parts, WritePart(m) PROVE SessionFate' /\ CompleteFate'
    BY <2>3, <2>5, <2>6, WritePartEffect
  <2>7. ASSUME NEW m \in parts, RecordPart(m) PROVE SessionFate' /\ CompleteFate'
    BY <2>3, <2>5, <2>7, RecordPartEffect
  <2>8. ASSUME NEW m \in parts, LookUpSession(m) PROVE SessionFate' /\ CompleteFate'
    BY <2>3, <2>8, LookUpSessionEffect
  <2>9. CASE CheckComplete
    <3>1. /\ UNCHANGED server /\ request.complete = "sent" /\ request'.abort = request.abort
          /\ \/ request'.complete = "refused" /\ request'.object = request.object
             \/ request'.complete = "checked" /\ request'.object # {}
      BY <2>9, CheckCompleteEffect
    <3> QED BY <2>1, <2>2, <3>1
  <2>10. CASE CommitComplete
    <3>1. /\ request.complete = "checked" /\ request'.abort = request.abort
          /\ request'.object = request.object
          /\ \/ request'.complete = "refused" /\ ~server.session /\ UNCHANGED server
             \/ /\ request'.complete = "ok" /\ server.session /\ server'.session = FALSE
                /\ server'.object = request.object /\ server'.blob = server.blob
      BY <2>10, CommitCompleteEffect
    <3>2. request.object # {}
      BY <3>1
    <3>3. SessionFate'
      BY <2>1, <2>2, <3>1, <3>2
    <3>4. CompleteFate'
      BY <2>1, <3>1, <3>2
    <3> QED BY <3>3, <3>4
  <2>11. CASE DropSession
    <3>1. /\ request.abort = "sent" /\ request'.complete = request.complete
          /\ request'.object = request.object
          /\ \/ /\ request'.abort = IF server.session THEN "dropped" ELSE "refused"
                /\ server'.session = FALSE
             \/ request'.abort = "failed" /\ server'.session = server.session
          /\ server'.object = server.object /\ server'.blob = server.blob
      BY <2>11, DropSessionEffect
    <3>2. ~server.session => server.object # {}
      BY <3>1
    <3>3. SessionFate'
      BY <2>1, <2>2, <3>1, <3>2
    <3>4. CompleteFate'
      BY <2>1, <3>1
    <3> QED BY <3>3, <3>4
  <2>12. CASE RemoveBlob
    <3>1. /\ request.abort = "dropped" /\ request'.complete = request.complete
          /\ request'.object = request.object
          /\ \/ request'.abort = "ok" /\ server'.blob = {}
             \/ request'.abort = "orphaned" /\ server'.blob = server.blob
          /\ server'.session = server.session /\ server'.object = server.object
      BY <2>12, RemoveBlobEffect
    <3> QED BY <2>1, <2>2, <3>1
  <2>13. UNCHANGED sdkVars => UNCHANGED <<request, server>>
    BY DEF sdkVars
  <2> QED BY <2>3, <2>4, <2>6, <2>7, <2>8, <2>9, <2>10, <2>11, <2>12, <2>13, <1>10
          DEF ServerNext, Handle
<1> QED BY <1>1, <1>3, <1>4, <1>5, <1>6, <1>7, <1>8, <1>9, <1>10
        DEF SdkNext, ClientNext, WorkerActs

----------------------------------------------------------------------------
(* Bytes.                                                                  *)

LEMMA CellsFacts ==
  ASSUME source \in Sources, NEW n \in 1 .. Count
  PROVE  /\ Cells(n) = End(n - 1) + 1 .. End(n) /\ Cells(n) \subseteq 1 .. Size
<1>1. Len(Slice(source, n)) = End(n) - End(n - 1) /\ Offset(n) = End(n - 1)
  BY SliceFacts
<1>2. End(n - 1) \in Nat /\ End(n) \in Nat /\ End(n) <= Size /\ Size \in Nat
  BY EndFacts, SourceFacts
<1>3. Cells(n) = End(n - 1) + 1 .. End(n)
  BY <1>1, <1>2 DEF Cells
<1> QED BY <1>2, <1>3

(* A part written into a file that has cells of the source adds its own.   *)
LEMMA WriteFills ==
  ASSUME source \in Sources, NEW n \in 1 .. Count, NEW cells \in SUBSET (1 .. Size)
  PROVE  WriteAt(Filled(cells), Offset(n), Slice(source, n)) = Filled(cells \cup Cells(n))
<1> DEFINE a == Offset(n)
<1> DEFINE s == Slice(source, n)
<1>1. /\ a = End(n - 1) /\ a \in Nat /\ Len(s) \in Nat
      /\ \A i \in 1 .. Len(s) : s[i] = source.bytes[a + i]
  BY SliceFacts, EndFacts
<1>2. Cells(n) = a + 1 .. a + Len(s)
  BY DEF Cells
<1>3. WriteAt(Filled(cells), a, s) =
        [i \in DOMAIN Filled(cells) \cup (a + 1 .. a + Len(s)) |->
           IF i > a /\ i <= a + Len(s) THEN s[i - a] ELSE Filled(cells)[i]]
  BY DEF WriteAt
<1>4. DOMAIN Filled(cells) = cells /\ \A i \in cells : Filled(cells)[i] = source.bytes[i]
  BY DEF Filled
<1>5. cells \subseteq Int
  <2>1. Size \in Nat
    BY SourceFacts
  <2> QED BY <2>1
<1> HIDE DEF a, s
<1>6. ASSUME NEW i \in cells \cup (a + 1 .. a + Len(s))
      PROVE  (IF i > a /\ i <= a + Len(s) THEN s[i - a] ELSE Filled(cells)[i]) = source.bytes[i]
  <2>1. i \in Int
    BY <1>1, <1>5
  <2>2. CASE i > a /\ i <= a + Len(s)
    <3>1. i - a \in 1 .. Len(s) /\ a + (i - a) = i
      BY <1>1, <2>1, <2>2
    <3>2. s[i - a] = source.bytes[i]
      BY <1>1, <3>1
    <3> QED BY <2>2, <3>2
  <2>3. CASE ~(i > a /\ i <= a + Len(s))
    <3>1. i \in cells
      BY <1>1, <2>1, <2>3
    <3> QED BY <1>4, <2>3, <3>1
  <2> QED BY <2>2, <2>3
<1>7. WriteAt(Filled(cells), a, s) = [i \in cells \cup (a + 1 .. a + Len(s)) |-> source.bytes[i]]
  BY <1>3, <1>4, <1>6
<1> QED BY <1>2, <1>7 DEF Filled, a, s

(* The cells of all parts are all cells.                                   *)
LEMMA AllCells ==
  ASSUME source \in Sources, NEW cells \in SUBSET (1 .. Size),
         \A n \in 1 .. Count : Cells(n) \subseteq cells
  PROVE  Filled(cells) = source.bytes
<1>1. Count \in Nat /\ Size \in Nat /\ source.bytes \in Seq(Byte) /\ Size = Len(source.bytes)
  BY SourceFacts DEF Size
<1> DEFINE T == {k \in Nat : 1 .. End(k) \subseteq cells}
<1>2. 0 \in T
  <2>1. End(0) = 0
    BY EndFacts
  <2>2. 1 .. 0 = {}
    OBVIOUS
  <2> QED BY <2>1, <2>2
<1>3. ASSUME NEW k \in 1 .. Count, k - 1 \in T PROVE k \in T
  <2>1. End(k - 1) \in Nat /\ End(k) \in Nat
    BY EndFacts
  <2>2. End(k - 1) + 1 .. End(k) \subseteq cells
    BY CellsFacts
  <2>3. 1 .. End(k - 1) \subseteq cells
    BY <1>3
  <2>4. ASSUME NEW i \in 1 .. End(k) PROVE i \in cells
    <3>1. i \in 1 .. End(k - 1) \/ i \in End(k - 1) + 1 .. End(k)
      BY <2>1
    <3> QED BY <2>2, <2>3, <3>1
  <2> QED BY <2>4
<1>4. \A k \in 0 .. Count : k \in T
  <2> HIDE DEF T
  <2> QED BY <1>1, <1>2, <1>3, BoundedInduction
<1>5. 1 .. End(Count) \subseteq cells
  <2>1. Count \in T
    <3> HIDE DEF T
    <3> QED BY <1>1, <1>4
  <2> QED BY <2>1
<1>6. cells = 1 .. Size
  BY <1>5, EndFacts
<1>7. source.bytes = [i \in 1 .. Size |-> source.bytes[i]]
  BY <1>1
<1> QED BY <1>6, <1>7 DEF Filled

(* A new file has no cells.                                                *)
LEMMA EmptyFile == Filled({}) = <<>>
BY DEF Filled

LEMMA SameBytes ==
  ASSUME UNCHANGED source
  PROVE  /\ \A n \in 1 .. Count : Cells(n)' = Cells(n) /\ RowOf(n)' = RowOf(n)
         /\ \A cells \in SUBSET (1 .. Size) : Filled(cells)' = Filled(cells)
         /\ RowOfSource' = RowOfSource
<1>1. \A n \in 1 .. Count : Cells(n)' = Cells(n)
  BY DEF Cells, Offset, Slice
<1>2. \A n \in 1 .. Count : RowOf(n)' = RowOf(n)
  BY DEF RowOf, Sum, Slice
<1>3. \A cells \in SUBSET (1 .. Size) : Filled(cells)' = Filled(cells)
  BY DEF Filled
<1>4. RowOfSource' = RowOfSource
  BY DEF RowOfSource, Size
<1> QED BY <1>1, <1>2, <1>3, <1>4

LEMMA FileIntro ==
  ASSUME UNCHANGED source, \A m \in parts' : m.n \in 1 .. Count,
         \/ server'.blob = None
         \/ \E cells \in SUBSET (1 .. Size) :
              /\ server'.blob = {Filled(cells)}
              /\ \A n \in 1 .. Count : server'.rows[n] # None => Cells(n) \subseteq cells
              /\ \A m \in parts' : m.at = "written" => Cells(m.n) \subseteq cells,
         \A n \in 1 .. Count : server'.rows[n] # None => server'.rows[n] = {RowOf(n)},
         ~Begun' => parts' = {} /\ \A n \in 1 .. Count : server'.rows[n] = None
  PROVE  FileInv' /\ RowsRight'
<1>1. Count' = Count /\ Size' = Size
  BY SameSource
<1>2. /\ \A n \in 1 .. Count : Cells(n)' = Cells(n) /\ RowOf(n)' = RowOf(n)
      /\ \A cells \in SUBSET (1 .. Size) : Filled(cells)' = Filled(cells)
  BY SameBytes
<1>3. RowsRight'
  BY <1>1, <1>2 DEF RowsRight, None
<1>4. (server.blob = None)' \/
        (\E cells \in SUBSET (1 .. Size) :
           /\ server.blob = {Filled(cells)}
           /\ \A n \in 1 .. Count : server.rows[n] # None => Cells(n) \subseteq cells
           /\ \A m \in parts : m.at = "written" => Cells(m.n) \subseteq cells)'
  <2>1. CASE server'.blob = None
    BY <2>1 DEF None
  <2>2. CASE server'.blob # None
    <3>1. PICK cells \in SUBSET (1 .. Size) :
            /\ server'.blob = {Filled(cells)}
            /\ \A n \in 1 .. Count : server'.rows[n] # None => Cells(n) \subseteq cells
            /\ \A m \in parts' : m.at = "written" => Cells(m.n) \subseteq cells
      BY <2>2
    <3>2. server'.blob = {Filled(cells)'}
      BY <1>2, <3>1
    <3>3. \A n \in 1 .. Count : server'.rows[n] # None' => Cells(n)' \subseteq cells
      BY <1>2, <3>1 DEF None
    <3>4. \A m \in parts' : m.at = "written" => Cells(m.n)' \subseteq cells
      BY <1>2, <3>1
    <3> QED BY <1>1, <3>2, <3>3, <3>4
  <2> QED BY <2>1, <2>2
<1>5. (\A n \in 1 .. Count :
         server.rows[n] # None =>
           server.rows[n] = {[size |-> Len(Slice(source, n)), sum |-> Sum[Slice(source, n)]]})'
  BY <1>3 DEF RowsRight, RowOf
<1>6. (~Begun => parts = {} /\ \A n \in 1 .. Count : server.rows[n] = None)'
  BY <1>1 DEF None
<1> QED BY <1>3, <1>4, <1>5, <1>6 DEF FileInv

LEMMA FileFacts ==
  ASSUME FileInv
  PROVE  RowsRight
BY DEF FileInv, RowsRight, RowOf

(* The server stands still, and every part that is being recorded was.     *)
LEMMA FileStill ==
  ASSUME Shape, FileInv, UNCHANGED source, Begun => Begun', PartsShape',
         UNCHANGED server, \A p \in parts' : p.at = "written" => p \in parts,
         parts' # {} => Begun' \/ parts # {}
  PROVE  FileInv' /\ RowsRight'
<1>1. \A m \in parts' : m.n \in 1 .. Count
  BY SameSource DEF PartsShape
<1>2. RowsRight
  BY FileFacts
<1>3. ~Begun' => parts' = {} /\ \A n \in 1 .. Count : server.rows[n] = None
  BY DEF FileInv
<1>4. \/ server.blob = None
      \/ \E cells \in SUBSET (1 .. Size) :
           /\ server.blob = {Filled(cells)}
           /\ \A n \in 1 .. Count : server.rows[n] # None => Cells(n) \subseteq cells
           /\ \A m \in parts' : m.at = "written" => Cells(m.n) \subseteq cells
  BY DEF FileInv
<1> QED BY <1>1, <1>2, <1>3, <1>4, FileIntro DEF RowsRight

(* A worker's step brings only parts that were just sent.                  *)
LEMMA WorkerParts ==
  ASSUME Shape, WorkersInv, NEW w \in Worker, WorkerActs(w)
  PROVE  /\ worker[w].at \in Working /\ PartsShape'
         /\ \A p \in parts' : p \in parts \/ p.at = "sent"
<1>0. WorkerShape
  BY DEF WorkersInv
<1>1. CASE Send(w)
  <2>1. /\ worker[w].at = "reading" /\ PartsShape'
        /\ PartsOnly({[n |-> worker[w].n, try |-> 1, at |-> "sent"]})
    BY <1>0, <1>1, SendEffect
  <2> QED BY <2>1 DEF PartsOnly, Working
<1>2. CASE ReadFails(w)
  BY <1>2, FailedReadEffect, SameClientShape DEF Working
<1>3. CASE Progress(w)
  BY <1>3, SameClientShape DEF Progress, Working
<1>4. CASE PartAnswered(w)
  BY <1>0, <1>4, PartAnsweredEffect DEF PartsOnly, Working
<1>5. CASE Abandon(w)
  BY <1>5, AbandonEffect DEF PartsOnly, Working
<1>6. CASE TransportFails(w)
  <2>1. /\ worker[w].at = "sending" /\ PartsShape'
        /\ PartsOnly({[n |-> worker[w].n, try |-> NextTry(w), at |-> "sent"]})
    BY <1>0, <1>6, TransportFailsEffect
  <2> QED BY <2>1 DEF PartsOnly, Working
<1> QED BY <1>1, <1>2, <1>3, <1>4, <1>5, <1>6 DEF WorkerActs

LEMMA FileStep ==
  ASSUME Shape, WorkersInv, SessionFate, FileInv, [SdkNext]_sdkVars
  PROVE  FileInv' /\ RowsRight'
<1>0. (Begun => Begun') /\ RowsRight /\ source \in Sources
  BY BegunStep, FileFacts DEF Shape
<1>1. CASE CreateAnswered
  BY <1>0, <1>1, CreateAnsweredWorkers, SameClientShape, FileStill
<1>2. CASE CreateFails \/ SendComplete \/ SendAbort \/ CompleteAnswered \/ Reject \/ Cancel
  BY <1>0, <1>2, BetweenPhases, SameClientShape, FileStill
<1>3. ASSUME NEW w \in Worker, WorkerActs(w) PROVE FileInv' /\ RowsRight'
  <2>1. UNCHANGED <<source, server>>
    BY <1>3, WorkerLeavesCall
  <2>2. /\ worker[w].at \in Working /\ PartsShape'
        /\ \A p \in parts' : p \in parts \/ p.at = "sent"
    BY <1>3, WorkerParts
  <2>3. Begun
    BY <2>2 DEF Begun, Working
  <2> QED BY <1>0, <2>1, <2>2, <2>3, FileStill
<1>4. CASE HandleCreate
  <2>1. /\ ~server.session /\ server.blob = None /\ request.abort = "unsent"
        /\ server'.blob = {<<>>} /\ SameRows /\ UNCHANGED <<source, client, worker, parts>>
    BY <1>4, HandleCreateEffect DEF SameClient
  <2>2. ~Begun
    BY <2>1 DEF SessionFate, Dropped
  <2>3. parts = {} /\ \A n \in 1 .. Count : server.rows[n] = None
    BY <2>2 DEF FileInv
  <2>4. parts' = {} /\ \A n \in 1 .. Count : server'.rows[n] = None
    BY <2>1, <2>3 DEF SameRows
  <2>5. {} \in SUBSET (1 .. Size) /\ server'.blob = {Filled({})}
    BY <2>1, EmptyFile
  <2> QED BY <2>1, <2>4, <2>5, FileIntro
<1>5. ASSUME NEW m \in parts, LookUpSession(m) PROVE FileInv' /\ RowsRight'
  <2>1. /\ UNCHANGED <<source, server>> /\ PartsShape'
        /\ \A p \in parts' : p.at = "written" => p \in parts
    BY <1>5, LookUpSessionEffect DEF SameClient, Moved
  <2> QED BY <1>0, <2>1, FileStill
<1>6. ASSUME NEW m \in parts, WritePart(m) PROVE FileInv' /\ RowsRight'
  <2>1. /\ UNCHANGED source /\ PartsShape'
        /\ \/ Moved(m, "refused") /\ UNCHANGED server
           \/ /\ Moved(m, "written") /\ server.blob # None /\ SameRows
              /\ server'.blob = {WriteAt(file, Offset(m.n), Slice(source, m.n)) :
                                   file \in server.blob}
    BY <1>6, WritePartEffect DEF SameClient
  <2>2. CASE Moved(m, "refused") /\ UNCHANGED server
    BY <1>0, <2>1, <2>2, FileStill DEF Moved
  <2>3. CASE /\ Moved(m, "written") /\ server.blob # None /\ SameRows
             /\ server'.blob = {WriteAt(file, Offset(m.n), Slice(source, m.n)) :
                                  file \in server.blob}
    <3>1. PICK cells \in SUBSET (1 .. Size) :
            /\ server.blob = {Filled(cells)}
            /\ \A n \in 1 .. Count : server.rows[n] # None => Cells(n) \subseteq cells
            /\ \A p \in parts : p.at = "written" => Cells(p.n) \subseteq cells
      BY <2>3 DEF FileInv
    <3> DEFINE more == cells \cup Cells(m.n)
    <3>2. m.n \in 1 .. Count
      BY PartTypes
    <3>3. more \in SUBSET (1 .. Size)
      BY <1>0, <3>2, CellsFacts
    <3>4. server'.blob = {Filled(more)}
      <4>1. WriteAt(Filled(cells), Offset(m.n), Slice(source, m.n)) = Filled(more)
        BY <1>0, <3>2, WriteFills
      <4>2. server'.blob = {WriteAt(Filled(cells), Offset(m.n), Slice(source, m.n))}
        BY <2>3, <3>1
      <4> QED BY <4>1, <4>2
    <3>5. \A n \in 1 .. Count : server'.rows[n] # None => Cells(n) \subseteq more
      BY <2>3, <3>1 DEF SameRows
    <3>6. \A p \in parts' : p.at = "written" => Cells(p.n) \subseteq more
      BY <2>3, <3>1 DEF Moved
    <3>7. Begun
      BY DEF FileInv
    <3>8. \A p \in parts' : p.n \in 1 .. Count
      BY <2>1, SameSource DEF PartsShape
    <3>9. \A n \in 1 .. Count : server'.rows[n] # None => server'.rows[n] = {RowOf(n)}
      BY <1>0, <2>3 DEF RowsRight, SameRows
    <3> HIDE DEF more
    <3> QED BY <1>0, <2>1, <3>3, <3>4, <3>5, <3>6, <3>7, <3>8, <3>9, FileIntro
  <2> QED BY <2>1, <2>2, <2>3
<1>7. ASSUME NEW m \in parts, RecordPart(m) PROVE FileInv' /\ RowsRight'
  <2>1. /\ UNCHANGED source /\ PartsShape' /\ m.at = "written"
        /\ \/ Moved(m, "refused") /\ UNCHANGED server
           \/ /\ Moved(m, "ok") /\ server'.blob = server.blob
              /\ server'.rows = [server.rows EXCEPT ![m.n] = {RowOf(m.n)}]
    BY <1>7, RecordPartEffect DEF SameClient
  <2>2. CASE Moved(m, "refused") /\ UNCHANGED server
    BY <1>0, <2>1, <2>2, FileStill DEF Moved
  <2>3. CASE /\ Moved(m, "ok") /\ server'.blob = server.blob
             /\ server'.rows = [server.rows EXCEPT ![m.n] = {RowOf(m.n)}]
    <3>1. m.n \in 1 .. Count /\ server.rows \in [1 .. Count -> SUBSET Row]
      BY PartTypes DEF Shape, ServerShape
    <3>2. \A n \in 1 .. Count : server'.rows[n] # None => server.rows[n] # None \/ n = m.n
      BY <2>3, <3>1
    <3>3. \A n \in 1 .. Count : server'.rows[n] # None => server'.rows[n] = {RowOf(n)}
      BY <1>0, <2>3, <3>1 DEF RowsRight
    <3>4. \/ server'.blob = None
          \/ \E cells \in SUBSET (1 .. Size) :
               /\ server'.blob = {Filled(cells)}
               /\ \A n \in 1 .. Count : server'.rows[n] # None => Cells(n) \subseteq cells
               /\ \A p \in parts' : p.at = "written" => Cells(p.n) \subseteq cells
      <4>1. \A p \in parts' : p.at = "written" => p \in parts
        BY <2>3 DEF Moved
      <4>2. CASE server.blob # None
        <5>1. PICK cells \in SUBSET (1 .. Size) :
                /\ server.blob = {Filled(cells)}
                /\ \A n \in 1 .. Count : server.rows[n] # None => Cells(n) \subseteq cells
                /\ \A p \in parts : p.at = "written" => Cells(p.n) \subseteq cells
          BY <4>2 DEF FileInv
        <5>2. \A n \in 1 .. Count : server'.rows[n] # None => Cells(n) \subseteq cells
          BY <2>1, <3>2, <5>1
        <5> QED BY <2>3, <4>1, <5>1, <5>2
      <4>3. CASE server.blob = None
        BY <2>3, <4>3
      <4> QED BY <4>2, <4>3
    <3>5. Begun /\ \A p \in parts' : p.n \in 1 .. Count
      BY <2>1, SameSource DEF FileInv, PartsShape
    <3> QED BY <1>0, <2>1, <3>3, <3>4, <3>5, FileIntro
  <2> QED BY <2>1, <2>2, <2>3
<1>8. CASE CheckComplete
  <2>1. UNCHANGED <<source, parts, server>>
    BY <1>8 DEF CheckComplete
  <2> QED BY <1>0, <2>1, SameClientShape, FileStill
<1>9. ASSUME UNCHANGED <<source, parts>>, SameRows,
             server'.blob = server.blob \/ server'.blob = None
      PROVE  FileInv' /\ RowsRight'
  <2>1. \A m \in parts' : m.n \in 1 .. Count
    BY <1>9, PartTypes
  <2>2. \/ server'.blob = None
        \/ \E cells \in SUBSET (1 .. Size) :
             /\ server'.blob = {Filled(cells)}
             /\ \A n \in 1 .. Count : server'.rows[n] # None => Cells(n) \subseteq cells
             /\ \A p \in parts' : p.at = "written" => Cells(p.n) \subseteq cells
    BY <1>9 DEF FileInv, SameRows
  <2>3. ~Begun' => parts' = {} /\ \A n \in 1 .. Count : server'.rows[n] = None
    BY <1>0, <1>9 DEF FileInv, SameRows
  <2>4. \A n \in 1 .. Count : server'.rows[n] # None => server'.rows[n] = {RowOf(n)}
    BY <1>0, <1>9 DEF RowsRight, SameRows
  <2> QED BY <1>9, <2>1, <2>2, <2>3, <2>4, FileIntro
<1>10. CASE CommitComplete
  BY <1>9, <1>10, CommitCompleteEffect DEF SameClient, SameRows
<1>11. CASE DropSession
  BY <1>9, <1>11, DropSessionEffect DEF SameClient
<1>12. CASE RemoveBlob
  BY <1>9, <1>12, RemoveBlobEffect DEF SameClient
<1>13. CASE UNCHANGED sdkVars
  BY <1>9, <1>13 DEF sdkVars, SameRows
<1> QED BY <1>1, <1>2, <1>3, <1>4, <1>5, <1>6, <1>7, <1>8, <1>10, <1>11, <1>12, <1>13
        DEF SdkNext, ClientNext, ServerNext, Handle, WorkerActs

LEMMA CheckedStep ==
  ASSUME Shape, WorkersInv, CompleteFate, RowsRight, CheckedInv, [SdkNext]_sdkVars
  PROVE  CheckedInv'
<1>1. CheckedInv <=>
        /\ request.complete \in {"checked", "ok"} => \A n \in 1 .. Count : server.rows[n] # None
        /\ request.object \subseteq {RowOfSource}
        /\ server.object \subseteq request.object
  BY DEF CheckedInv, RowOfSource
<1>2. ASSUME UNCHANGED source,
             request'.complete \in {"checked", "ok"} =>
               \A n \in 1 .. Count : server'.rows[n] # None,
             request'.object \subseteq {RowOfSource}, server'.object \subseteq request'.object
      PROVE  CheckedInv'
  <2>1. Count' = Count /\ RowOfSource' = RowOfSource
    BY <1>2, SameSource, SameBytes
  <2> QED BY <1>2, <2>1, Zenon DEF CheckedInv, RowOfSource, None
<1>3. ASSUME UNCHANGED <<source, server>>, request'.object = request.object,
             request'.complete \in {"checked", "ok"} => request'.complete = request.complete
      PROVE  CheckedInv'
  BY <1>1, <1>2, <1>3
<1>4. CASE CreateAnswered \/ CreateFails \/ CompleteAnswered \/ Reject \/ Cancel
  <2>1. UNCHANGED <<source, request, server>>
    BY <1>4 DEF CreateAnswered, CreateFails, CompleteAnswered, Reject, Cancel
  <2> QED BY <1>3, <2>1
<1>5. CASE SendComplete
  BY <1>3, <1>5, SendCompleteEffect
<1>6. CASE SendAbort
  BY <1>3, <1>6, SendAbortEffect
<1>7. ASSUME NEW w \in Worker, WorkerActs(w) PROVE CheckedInv'
  BY <1>3, <1>7, WorkerLeavesCall
<1>8. ASSUME UNCHANGED <<source, request>>, server'.object = server.object,
             \A n \in 1 .. Count : server.rows[n] # None => server'.rows[n] # None
      PROVE  CheckedInv'
  BY <1>1, <1>2, <1>8
<1>9. CASE HandleCreate
  BY <1>8, <1>9, HandleCreateEffect DEF SameClient, SameRows
<1>10. ASSUME NEW m \in parts, LookUpSession(m) PROVE CheckedInv'
  BY <1>3, <1>10, LookUpSessionEffect DEF SameClient
<1>11. ASSUME NEW m \in parts, WritePart(m) PROVE CheckedInv'
  BY <1>8, <1>11, WritePartEffect DEF SameClient, SameRows
<1>12. ASSUME NEW m \in parts, RecordPart(m) PROVE CheckedInv'
  <2>1. /\ UNCHANGED <<source, request>> /\ server'.object = server.object
        /\ \/ server'.rows = server.rows
           \/ server'.rows = [server.rows EXCEPT ![m.n] = {RowOf(m.n)}]
    BY <1>12, RecordPartEffect DEF SameClient
  <2>2. server.rows \in [1 .. Count -> SUBSET Row]
    BY DEF Shape, ServerShape
  <2>3. \A n \in 1 .. Count : server.rows[n] # None => server'.rows[n] # None
    BY <2>1, <2>2 DEF None
  <2> QED BY <1>8, <2>1, <2>3
<1>13. CASE CheckComplete
  <2>1. /\ UNCHANGED <<source, server>> /\ request.complete = "sent"
        /\ \/ request'.complete = "refused" /\ request'.object = request.object
           \/ /\ request'.complete = "checked" /\ request'.object = {RowOfSource}
              /\ \A n \in 1 .. Count : server.rows[n] # None
    BY <1>13, CheckCompleteEffect DEF SameClient
  <2>2. server.object = None
    BY <2>1 DEF CompleteFate
  <2> QED BY <1>2, <1>3, <2>1, <2>2 DEF None
<1>14. CASE CommitComplete
  <2>1. /\ UNCHANGED source /\ request.complete = "checked" /\ request'.object = request.object
        /\ server'.rows = server.rows
        /\ server'.object \in {server.object, request.object}
    BY <1>14, CommitCompleteEffect DEF SameClient, SameRows
  <2> QED BY <1>1, <1>2, <2>1
<1>15. ASSUME UNCHANGED source, request'.complete = request.complete,
              request'.object = request.object, SameRows, server'.object = server.object
       PROVE  CheckedInv'
  BY <1>1, <1>2, <1>15 DEF SameRows
<1>16. CASE DropSession
  BY <1>15, <1>16, DropSessionEffect DEF SameClient
<1>17. CASE RemoveBlob
  BY <1>15, <1>17, RemoveBlobEffect DEF SameClient
<1>18. CASE UNCHANGED sdkVars
  BY <1>3, <1>18 DEF sdkVars
<1> QED BY <1>4, <1>5, <1>6, <1>7, <1>9, <1>10, <1>11, <1>12, <1>13, <1>14, <1>16, <1>17, <1>18
        DEF SdkNext, ClientNext, ServerNext, Handle, WorkerActs

----------------------------------------------------------------------------
(* The invariant.                                                          *)

LEMMA SdkInitInv == SdkInit => SdkInv
<1> SUFFICES ASSUME SdkInit PROVE SdkInv
  OBVIOUS
<1>1. source \in Sources
  BY DEF SdkInit
<1>2. /\ Count \in Nat \ {0} /\ Size \in Nat \ {0} /\ Tries \in Nat \ {0}
      /\ \A w \in Worker : w \in Nat
  BY <1>1, SourceFacts, SdkAssumption DEF Worker, Smallest
<1>3. /\ client.phase = "create" /\ client.next = 1 /\ ~client.aborted /\ ~client.acked
      /\ client.done = 0 /\ client.reported = 0
      /\ client.inFlight = [n \in 1 .. Count |-> 0]
      /\ client.sums = [n \in 1 .. Count |-> None]
  BY DEF SdkInit
<1>4. \A w \in Worker : /\ worker[w].at = "idle" /\ worker[w].n = 0 /\ worker[w].try = 0
                        /\ worker[w].ahead = 0
  BY DEF SdkInit
<1>5. parts = {} /\ request = [complete |-> "unsent", abort |-> "unsent", object |-> None]
  BY DEF SdkInit
<1>6. /\ server.session = FALSE /\ server.blob = None /\ server.object = None
      /\ server.rows = [n \in 1 .. Count |-> None]
  BY DEF SdkInit
<1>7. Shape
  <2>1. ClientShape
    BY <1>2 DEF SdkInit, ClientShape, Clients, None, Settled
  <2>2. WorkersShape
    BY <1>2 DEF SdkInit, WorkersShape
  <2>3. PartsShape /\ RequestShape
    BY <1>5 DEF PartsShape, RequestShape, AbortStates, None
  <2>4. ServerShape
    BY DEF SdkInit, ServerShape, None
  <2> QED BY <1>1, <2>1, <2>2, <2>3, <2>4 DEF Shape
<1>8. WorkersInv
  <2>1. WorkerShape
    BY <1>4 DEF WorkerShape, Working
  <2>2. PhaseOfWorkers
    BY <1>3, <1>4 DEF PhaseOfWorkers
  <2>3. AbortedByThrow
    BY <1>3, <1>4 DEF AbortedByThrow
  <2> QED BY <2>1, <2>2, <2>3 DEF WorkersInv
<1>9. \A n \in 1 .. Count : ~Counted(n)
  BY <1>3 DEF Counted, None
<1>10. ClaimsInv
  <2>1. \A w \in Worker : Held(w) = {}
    BY <1>4 DEF Held
  <2>2. HeldOnce
    BY <1>4, <1>9, <2>1 DEF HeldOnce
  <2>3. NoneLost
    BY <1>2, <1>3, <1>4 DEF NoneLost
  <2>4. ClaimsBounded
    <3>1. Cardinality(Spent) \in Nat
      BY <1>7, SpentFacts
    <3> QED BY <1>2, <1>3, <3>1 DEF ClaimsBounded
  <2> QED BY <2>2, <2>3, <2>4 DEF ClaimsInv
<1>11. Ledger
  <2>1. /\ CountedLength \in [1 .. Count -> Nat]
        /\ \A n \in 1 .. Count : Len(Slice(source, n)) \in Nat
    BY <1>7, CountedTypes
  <2>2. \A n \in 1 .. Count : CountedLength[n] = 0
    BY <1>9 DEF CountedLength
  <2>3. Total(CountedLength, Count) = 0
    BY <1>2, <2>1, <2>2, TotalZero
  <2>4. \A n \in 1 .. Count : client.inFlight[n] = 0 /\ client.inFlight[n] <= Len(Slice(source, n))
    BY <1>3, <2>1
  <2> QED BY <1>2, <1>3, <1>9, <2>3, <2>4 DEF Ledger
<1>12. ~Begun
  BY <1>4 DEF Begun
<1>13. SessionFate /\ CompleteFate
  BY <1>3, <1>5, <1>6, <1>12 DEF SessionFate, CompleteFate, None
<1>14. FileInv
  BY <1>5, <1>6, <1>12 DEF FileInv, None
<1>15. CheckedInv
  BY <1>5, <1>6 DEF CheckedInv, None
<1> QED BY <1>7, <1>8, <1>10, <1>11, <1>13, <1>14, <1>15 DEF SdkInv

LEMMA SdkNextInv == SdkInv /\ [SdkNext]_sdkVars => SdkInv'
<1> SUFFICES ASSUME SdkInv, [SdkNext]_sdkVars PROVE SdkInv'
  OBVIOUS
<1>1. /\ Shape /\ WorkersInv /\ ClaimsInv /\ Ledger
      /\ SessionFate /\ CompleteFate /\ FileInv /\ CheckedInv
  BY DEF SdkInv
<1>2. WorkerShape /\ RowsRight
  BY <1>1, FileFacts DEF WorkersInv
<1>3. Shape'
  BY <1>1, <1>2, ShapeStep
<1>4. WorkersInv'
  BY <1>1, WorkersStep
<1>5. ClaimsInv'
  BY <1>1, ClaimsStep
<1>6. Ledger'
  BY <1>1, LedgerStep
<1>7. SessionFate' /\ CompleteFate'
  BY <1>1, <1>2, FateStep
<1>8. FileInv'
  BY <1>1, FileStep
<1>9. CheckedInv'
  BY <1>1, <1>2, CheckedStep
<1> QED BY <1>3, <1>4, <1>5, <1>6, <1>7, <1>8, <1>9 DEF SdkInv

(* The invariant of an upload call (client.ts, uploads.go) holds in every  *)
(* state: each part is with one worker, done or not yet claimed; done is   *)
(* the sum of the parts done; the file has bytes of the source only.       *)
THEOREM SdkInvariant == SdkSpec => []SdkInv
BY SdkInitInv, SdkNextInv, PTL DEF SdkSpec

----------------------------------------------------------------------------
(* What follows from it.                                                   *)

(* The client's counters stay within their bounds and every request is     *)
(* well formed: a worker claims at most one part number past the last.     *)
THEOREM SdkTypes == SdkSpec => []SdkTypeOK
<1>1. SdkInv => SdkTypeOK
  <2> SUFFICES ASSUME SdkInv PROVE SdkTypeOK
    OBVIOUS
  <2>1. Shape /\ ClaimsInv /\ Ledger
    BY DEF SdkInv
  <2>2. /\ source \in Sources /\ PartsShape /\ server.session \in BOOLEAN
    BY <2>1 DEF Shape, ServerShape
  <2>3. client.phase \in {"create", "parts", "complete", "abort"} \cup Settled
    BY <2>1, ClientTypes DEF Settled
  <2>4. client.next \in 1 .. Count + 2 * source.concurrency
    <3>1. /\ Cardinality(Spent) \in Nat /\ Cardinality(Spent) <= Cardinality(Worker)
          /\ Cardinality(Worker) \in Nat /\ Cardinality(Worker) <= source.concurrency
      BY <2>1, SpentFacts, CardinalityWorker, CountFacts
    <3>2. source.concurrency \in Nat \ {0} /\ Count \in Nat /\ client.next \in Nat \ {0}
      BY <2>1, <2>2, SourceFacts, ClientTypes
    <3>3. client.next <= Count + 1 + Cardinality(Spent)
      BY <2>1 DEF ClaimsInv, ClaimsBounded
    <3> QED BY <3>1, <3>2, <3>3
  <2>5. {client.done, client.reported} \subseteq 0 .. 2 * Size
    <3>1. client.done \in Nat /\ client.reported \in Nat /\ Size \in Nat
      BY <2>1, ClientTypes, CountFacts
    <3>2. client.done <= client.reported /\ client.reported <= Size
      BY <2>1 DEF Ledger
    <3> QED BY <3>1, <3>2
  <2>6. \A w \in Worker :
          /\ worker[w].at \in {"idle", "reading", "sending", "returned", "threw"}
          /\ worker[w].n \in 0 .. Count /\ worker[w].try \in 0 .. Tries
          /\ worker[w].ahead \in 0 .. Count
    BY <2>1, WorkerTypes
  <2> QED BY <2>2, <2>3, <2>4, <2>5, <2>6 DEF SdkTypeOK, PartsShape
<1> QED BY <1>1, SdkInvariant, PTL

(* What complete commits (uploads.go) is the source: the file byte for     *)
(* byte, its size, and the checksum that folding the parts' gives; and a   *)
(* call that resolves (client.ts) has committed.                           *)
THEOREM SdkObjectIsSource == SdkSpec => []ObjectIsSource
<1>1. SdkInv => ObjectIsSource
  <2> SUFFICES ASSUME SdkInv PROVE ObjectIsSource
    OBVIOUS
  <2>1. /\ source \in Sources /\ SessionFate /\ CompleteFate /\ FileInv /\ CheckedInv
    BY DEF SdkInv, Shape
  <2>2. ASSUME server.object # None
        PROVE  Whole /\ server.object = {[size |-> Size, sum |-> Crc(source.bytes)]}
    <3>1. request.complete = "ok" /\ server.blob # None
      BY <2>1, <2>2 DEF CompleteFate, SessionFate
    <3>2. \A n \in 1 .. Count : server.rows[n] # None
      BY <2>1, <3>1 DEF CheckedInv
    <3>3. PICK cells \in SUBSET (1 .. Size) :
            /\ server.blob = {Filled(cells)}
            /\ \A n \in 1 .. Count : server.rows[n] # None => Cells(n) \subseteq cells
      BY <2>1, <3>1 DEF FileInv
    <3>4. Filled(cells) = source.bytes
      BY <2>1, <3>2, <3>3, AllCells
    <3>5. Whole
      BY <3>3, <3>4 DEF Whole
    <3>6. server.object \subseteq {[size |-> Size, sum |-> Crc(source.bytes)]}
      BY <2>1 DEF CheckedInv
    <3> QED BY <2>2, <3>5, <3>6 DEF None
  <2>3. client.phase = "resolved" => server.object # None
    BY <2>1 DEF CompleteFate
  <2> QED BY <2>2, <2>3 DEF ObjectIsSource
<1> QED BY <1>1, SdkInvariant, PTL

(* Once the abort of a rejected call was answered (client.ts, uploads.go)  *)
(* there is no session, and a file only where complete had won.            *)
THEOREM SdkCleanAfterAbort == SdkSpec => []CleanAfterAbort
<1>1. SdkInv => CleanAfterAbort
  BY DEF SdkInv, SessionFate, CleanAfterAbort
<1> QED BY <1>1, SdkInvariant, PTL

(* onProgress (client.ts) never reports more than there is, and all of it  *)
(* before the call resolves.                                               *)
THEOREM SdkProgressIsHonest == SdkSpec => []ProgressIsHonest
<1>1. SdkInv => ProgressIsHonest
  <2> SUFFICES ASSUME SdkInv PROVE ProgressIsHonest
    OBVIOUS
  <2>1. Shape /\ WorkersInv /\ ClaimsInv /\ Ledger
    BY DEF SdkInv
  <2>2. client.reported <= Size
    BY <2>1 DEF Ledger
  <2>3. ASSUME client.phase = "resolved" PROVE client.reported = Size
    <3>1. \A w \in Worker : worker[w].at = "returned"
      BY <2>1, <2>3 DEF WorkersInv, PhaseOfWorkers
    <3>2. ~client.aborted
      BY <2>1, <3>1 DEF WorkersInv, AbortedByThrow
    <3>3. \A w \in Worker : worker[w].n = 0 /\ worker[w].ahead = 0
      BY <2>1, <3>1, <3>2 DEF WorkersInv, WorkerShape, AbortedByThrow
    <3>4. client.next > Count
      <4>1. 1 \in Worker
        BY <2>1, CardinalityWorker
      <4> QED BY <2>1, <3>1, <3>2, <3>3, <4>1 DEF ClaimsInv, NoneLost
    <3>5. ASSUME NEW n \in 1 .. Count PROVE Counted(n)
      <4>1. n < client.next
        BY <2>1, <3>4, ClientTypes, CountFacts
      <4>2. \A w \in Worker : Held(w) = {}
        BY <3>3 DEF Held
      <4> QED BY <2>1, <4>1, <4>2 DEF ClaimsInv, NoneLost
    <3>6. CountedLength = SliceLength
      BY <3>5 DEF CountedLength, SliceLength
    <3>7. client.done = Size
      BY <2>1, <3>6, SlicesAddUp DEF Ledger, Shape
    <3>8. client.reported \in Nat /\ Size \in Nat /\ client.done <= client.reported
      BY <2>1, ClientTypes, CountFacts DEF Ledger
    <3> QED BY <2>2, <3>7, <3>8
  <2> QED BY <2>2, <2>3 DEF ProgressIsHonest
<1> QED BY <1>1, SdkInvariant, PTL

(* A call that has settled (client.ts) sends no further part, unless one   *)
(* of its parts could not be read.                                         *)
THEOREM SdkQuietOnceSettled == SdkSpec => QuietOnceSettled
<1> DEFINE A == client.phase \in Settled /\ ~client.unread =>
                  \A m \in parts' : \E o \in parts : m.n = o.n /\ m.try = o.try
<1>1. ASSUME SdkInv, [SdkNext]_sdkVars PROVE A
  <2> SUFFICES ASSUME client.phase \in Settled, ~client.unread, NEW m \in parts'
               PROVE  \E o \in parts : m.n = o.n /\ m.try = o.try
    OBVIOUS
  <2>1. Shape /\ WorkersInv
    BY <1>1 DEF SdkInv
  <2>2. CASE UNCHANGED parts
    BY <2>2
  <2>3. ASSUME NEW w \in Worker, WorkerActs(w)
        PROVE  \E o \in parts : m.n = o.n /\ m.try = o.try
    <3>1. worker[w].at \in Working
      BY <2>1, <2>3, WorkerParts
    <3>2. client.aborted
      BY <2>1, <3>1, WorkingPhase DEF Settled
    <3>3. m \in parts
      BY <2>3, <3>2 DEF WorkerActs, Send, ReadFails, Progress, PartAnswered, Abandon,
                        TransportFails
    <3> QED BY <3>3
  <2>4. ASSUME NEW p \in parts, Handle(p)
        PROVE  \E o \in parts : m.n = o.n /\ m.try = o.try
    <3>1. PICK at : Moved(p, at)
      BY <2>1, <2>4, LookUpSessionEffect, WritePartEffect, RecordPartEffect DEF Handle
    <3> QED BY <3>1 DEF Moved
  <2>5. ASSUME \/ CreateAnswered \/ CreateFails \/ SendComplete \/ SendAbort
               \/ CompleteAnswered \/ Reject \/ Cancel \/ HandleCreate \/ CheckComplete
               \/ CommitComplete \/ DropSession \/ RemoveBlob \/ UNCHANGED sdkVars
        PROVE  UNCHANGED parts
    BY <2>5 DEF CreateAnswered, CreateFails, SendComplete, SendAbort, CompleteAnswered, Reject,
                Cancel, HandleCreate, CheckComplete, CommitComplete, DropSession, RemoveBlob,
                sdkVars
  <2> QED BY <1>1, <2>2, <2>3, <2>4, <2>5 DEF SdkNext, ClientNext, ServerNext, WorkerActs
<1>2. SdkInv /\ [SdkNext]_sdkVars => [A]_sdkVars
  BY <1>1
<1> QED BY <1>2, SdkInvariant, PTL DEF SdkSpec, QuietOnceSettled
=============================================================================
