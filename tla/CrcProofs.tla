------------------------------ MODULE CrcProofs ------------------------------
(***************************************************************************)
(* Combine(Crc(a), Crc(b), Len(b)) = Crc(a \o b), for every polynomial and *)
(* all bytes.  A register step is linear over exclusive or; so the         *)
(* register that Crc leaves after b is the one that zeros of b's length    *)
(* leave of a's, exclusive or b's; and squaring the matrix of a zero gives *)
(* the matrices that AppendZeros multiplies by.                            *)
(***************************************************************************)
EXTENDS Crc, FiniteSetTheorems, WellFoundedInduction, TLAPS

----------------------------------------------------------------------------
(* Induction and recursion over numbers, with sets and functions in place  *)
(* of operators.                                                           *)

LessNat == {ss \in Nat \X Nat : ss[1] < ss[2]}

(* A set of numbers with 0 that is closed under successor has all of them. *)
LEMMA Induction ==
  ASSUME NEW T, 0 \in T, \A k \in Nat : k \in T => k + 1 \in T
  PROVE  \A k \in Nat : k \in T
<1> SUFFICES ASSUME NEW n \in Nat, n \notin T PROVE FALSE
  OBVIOUS
<1> DEFINE S == {k \in Nat : k \notin T}
<1>1. S \subseteq Nat /\ n \in S
  OBVIOUS
<1>2. PICK x \in S : \A y \in S : ~ (<<y, x>> \in LessNat)
  <2>1. IsWellFoundedOn(LessNat, Nat)
    BY NatLessThanWellFounded DEF OpToRel, LessNat
  <2> HIDE DEF S
  <2> QED BY <1>1, <2>1, WFMin
<1>3. x \in Nat /\ x \notin T /\ x # 0
  OBVIOUS
<1>4. x - 1 \in Nat /\ <<x - 1, x>> \in LessNat
  BY <1>3 DEF LessNat
<1>5. x - 1 \in T
  BY <1>2, <1>4
<1> QED BY <1>3, <1>4, <1>5

(* The same up to a bound.                                                 *)
LEMMA BoundedInduction ==
  ASSUME NEW N \in Nat, NEW T, 0 \in T, \A k \in 1 .. N : k - 1 \in T => k \in T
  PROVE  \A k \in 0 .. N : k \in T
<1> DEFINE U == {i \in Nat : i <= N => i \in T}
<1>1. 0 \in U
  OBVIOUS
<1>2. ASSUME NEW i \in Nat, i \in U PROVE i + 1 \in U
  <2>1. SUFFICES ASSUME i + 1 <= N PROVE i + 1 \in T
    OBVIOUS
  <2>2. i \in T
    BY <1>2, <2>1
  <2>3. i + 1 \in 1 .. N /\ (i + 1) - 1 = i
    BY <2>1
  <2> QED BY <2>2, <2>3
<1>3. \A i \in Nat : i \in U
  <2> HIDE DEF U
  <2> QED BY <1>1, <1>2, Induction
<1> QED BY <1>3

(* Two functions agree that start and go on alike.                         *)
LEMMA Agree ==
  ASSUME NEW N \in Nat, NEW f, NEW h, f[0] = h[0],
         \A k \in 1 .. N : f[k - 1] = h[k - 1] => f[k] = h[k]
  PROVE  \A k \in 0 .. N : f[k] = h[k]
<1> DEFINE T == {k \in Nat : f[k] = h[k]}
<1>1. 0 \in T
  OBVIOUS
<1>2. \A k \in 1 .. N : k - 1 \in T => k \in T
  OBVIOUS
<1>3. \A k \in 0 .. N : k \in T
  <2> HIDE DEF T
  <2> QED BY <1>1, <1>2, BoundedInduction
<1> QED BY <1>3

(* What a recursive definition does at each number.                        *)
Rules(N, X) == [1 .. N -> [X -> X]]

Follows(f, N, X, x0, g) ==
  f \in [0 .. N -> X] /\ f[0] = x0 /\ \A k \in 1 .. N : f[k] = g[k][f[k - 1]]

(* A recursive definition over an interval defines a function.             *)
LEMMA Recursion ==
  ASSUME NEW N \in Nat, NEW X, NEW x0 \in X, NEW g \in Rules(N, X)
  PROVE  \E f : Follows(f, N, X, x0, g)
<1> DEFINE Good(f, n) == f[0] = x0 /\ \A k \in 1 .. n : f[k] = g[k][f[k - 1]]
<1> DEFINE T == {n \in Nat : \E f \in [0 .. N -> X] : Good(f, n)}
<1>1. 0 \in T
  <2>1. [k \in 0 .. N |-> x0] \in [0 .. N -> X] /\ Good([k \in 0 .. N |-> x0], 0)
    OBVIOUS
  <2> QED BY <2>1
<1>2. ASSUME NEW n \in 1 .. N, n - 1 \in T PROVE n \in T
  <2>2. PICK f \in [0 .. N -> X] : Good(f, n - 1)
    BY <1>2
  <2> DEFINE h == [k \in 0 .. N |-> IF k = n THEN g[n][f[n - 1]] ELSE f[k]]
  <2>3. n \in Nat /\ n - 1 \in 0 .. N /\ f[n - 1] \in X
    OBVIOUS
  <2>4. g[n][f[n - 1]] \in X
    BY <2>3 DEF Rules
  <2>5. h \in [0 .. N -> X]
    BY <2>4
  <2>6. h[0] = x0
    BY <2>2
  <2>7. ASSUME NEW k \in 1 .. n PROVE h[k] = g[k][h[k - 1]]
    <3>1. k - 1 \in 0 .. N /\ k \in 0 .. N /\ k - 1 # n
      OBVIOUS
    <3>2. h[k - 1] = f[k - 1]
      BY <3>1
    <3>3. CASE k = n
      BY <3>1, <3>2, <3>3
    <3>4. CASE k # n
      <4>1. h[k] = f[k] /\ k \in 1 .. n - 1
        BY <3>1, <3>4
      <4>2. f[k] = g[k][f[k - 1]]
        BY <2>2, <4>1
      <4> HIDE DEF h
      <4> QED BY <4>1, <4>2, <3>2
    <3> QED BY <3>3, <3>4
  <2> HIDE DEF h
  <2> QED BY <2>3, <2>5, <2>6, <2>7
<1>3. \A n \in 0 .. N : n \in T
  <2> HIDE DEF T
  <2> QED BY <1>1, <1>2, BoundedInduction
<1>4. N \in T
  <2> HIDE DEF T
  <2> QED BY <1>3
<1> QED BY <1>4 DEF Follows

(* ... and so does one over all numbers.                                   *)
LEMMA NatRecursion ==
  ASSUME NEW X, NEW x0 \in X, NEW g \in [X -> X]
  PROVE  \E f \in [Nat -> X] : f[0] = x0 /\ \A k \in Nat : f[k + 1] = g[f[k]]
<1> DEFINE Good(f, n) == f \in [0 .. n -> X] /\ f[0] = x0 /\ \A k \in 1 .. n : f[k] = g[f[k - 1]]
<1> DEFINE F(n) == CHOOSE f : Good(f, n)
<1>1. ASSUME NEW n \in Nat PROVE Good(F(n), n)
  <2> DEFINE h == [k \in 1 .. n |-> g]
  <2>1. h \in Rules(n, X)
    BY DEF Rules
  <2>2. PICK f : Follows(f, n, X, x0, h)
    <3> HIDE DEF h, F, Good
    <3> QED BY <2>1, Recursion
  <2>3. Good(f, n)
    BY <2>2 DEF Follows
  <2> QED BY <2>3
<1>2. ASSUME NEW n \in Nat PROVE F(n + 1)[n] = F(n)[n] /\ F(n + 1)[n + 1] = g[F(n + 1)[n]]
  <2> HIDE DEF F
  <2>1. Good(F(n), n) /\ Good(F(n + 1), n + 1)
    <3> HIDE DEF Good
    <3> QED BY <1>1
  <2>2. \A k \in 1 .. n : F(n)[k - 1] = F(n + 1)[k - 1] => F(n)[k] = F(n + 1)[k]
    BY <2>1
  <2>3. F(n)[0] = F(n + 1)[0]
    BY <2>1
  <2>4. \A k \in 0 .. n : F(n)[k] = F(n + 1)[k]
    <3> HIDE DEF Good
    <3> QED BY <2>2, <2>3, Agree
  <2> QED BY <2>1, <2>4
<1>3. [n \in Nat |-> F(n)[n]] \in [Nat -> X]
  <2> HIDE DEF F
  <2>1. \A n \in Nat : F(n)[n] \in X
    BY <1>1
  <2> QED BY <2>1
<1>4. F(0)[0] = x0
  <2> HIDE DEF F
  <2> QED BY <1>1
<1> DEFINE f == [n \in Nat |-> F(n)[n]]
<1>5. f[0] = x0 /\ \A k \in Nat : f[k + 1] = g[f[k]]
  <2> HIDE DEF F
  <2> QED BY <1>2, <1>4
<1> QED BY <1>3, <1>5

----------------------------------------------------------------------------
(* Words.                                                                  *)

Word == SUBSET Bits

Byte == SUBSET (0 .. 7)

LEMMA XorMember ==
  ASSUME NEW v, NEW w
  PROVE  \A k : k \in Xor(v, w) <=> (k \in v /\ k \notin w) \/ (k \in w /\ k \notin v)
BY DEF Xor

(* Exclusive or makes a group of the words, each its own inverse.          *)
LEMMA XorGroup ==
  /\ \A v, w \in Word : Xor(v, w) \in Word
  /\ \A v, w : Xor(v, w) = Xor(w, v)
  /\ \A u, v, w : Xor(Xor(u, v), w) = Xor(u, Xor(v, w))
  /\ \A v : Xor(v, v) = {} /\ Xor(v, {}) = v /\ Xor({}, v) = v
<1>1. \A v, w \in Word : Xor(v, w) \in Word
  BY DEF Xor, Word
<1>2. \A v, w : Xor(v, w) = Xor(w, v)
  BY Zenon DEF Xor
<1>3. \A u, v, w : Xor(Xor(u, v), w) = Xor(u, Xor(v, w))
  <2> SUFFICES ASSUME NEW u, NEW v, NEW w, NEW k
               PROVE  k \in Xor(Xor(u, v), w) <=> k \in Xor(u, Xor(v, w))
    OBVIOUS
  <2> QED BY XorMember
<1>4. \A v : Xor(v, v) = {} /\ Xor(v, {}) = v /\ Xor({}, v) = v
  BY DEF Xor
<1> QED BY <1>1, <1>2, <1>3, <1>4

LEMMA WordFacts ==
  Bits \in Word /\ Poly \in Word /\ {} \in Word /\ Byte \subseteq Word /\ Width \in Nat \ {0}
BY CrcAssumption DEF Bits, Word, Byte

LEMMA ShiftRightMember ==
  ASSUME NEW v \in Word
  PROVE  /\ ShiftRight(v) \in Word
         /\ \A k : k \in ShiftRight(v) <=> k \in Nat /\ k + 1 \in v
<1>1. Width \in Nat /\ \A i \in v : i \in 0 .. Width - 1
  BY CrcAssumption DEF Word, Bits
<1>2. ASSUME NEW k PROVE k \in ShiftRight(v) <=> k \in Nat /\ k + 1 \in v
  <2>1. ASSUME k \in ShiftRight(v) PROVE k \in Nat /\ k + 1 \in v
    <3>1. PICK i \in v \ {0} : k = i - 1
      BY <2>1 DEF ShiftRight
    <3> QED BY <1>1, <3>1
  <2>2. ASSUME k \in Nat, k + 1 \in v PROVE k \in ShiftRight(v)
    <3>1. k + 1 \in v \ {0} /\ k = (k + 1) - 1
      BY <2>2
    <3> QED BY <3>1 DEF ShiftRight
  <2> QED BY <2>1, <2>2
<1>3. ASSUME NEW k \in ShiftRight(v) PROVE k \in Bits
  BY <1>1, <1>2 DEF Bits
<1> QED BY <1>2, <1>3 DEF Word

(* A step is linear.                                                       *)
LEMMA StepBitMember ==
  ASSUME NEW v \in Word
  PROVE  /\ StepBit(v) \in Word
         /\ \A k : k \in StepBit(v) <=>
              ~((k \in Nat /\ k + 1 \in v) <=> (0 \in v /\ k \in Poly))
<1>1. ShiftRight(v) \in Word /\ \A k : k \in ShiftRight(v) <=> k \in Nat /\ k + 1 \in v
  BY ShiftRightMember
<1>2. StepBit(v) \in Word
  BY <1>1, XorGroup, WordFacts DEF StepBit
<1>3. ASSUME NEW k
      PROVE k \in StepBit(v) <=> ~((k \in Nat /\ k + 1 \in v) <=> (0 \in v /\ k \in Poly))
  <2>1. CASE 0 \in v
    <3>1. k \in StepBit(v) <=> k \in Xor(ShiftRight(v), Poly)
      BY <2>1 DEF StepBit
    <3> QED BY <2>1, <3>1, <1>1, XorMember
  <2>2. CASE 0 \notin v
    <3>1. k \in StepBit(v) <=> k \in ShiftRight(v)
      BY <2>2 DEF StepBit
    <3> QED BY <2>2, <3>1, <1>1
  <2> QED BY <2>1, <2>2
<1> QED BY <1>2, <1>3

LEMMA StepBitLinear ==
  ASSUME NEW v \in Word, NEW w \in Word
  PROVE  StepBit(Xor(v, w)) = Xor(StepBit(v), StepBit(w))
<1>1. Xor(v, w) \in Word
  BY XorGroup
<1> SUFFICES ASSUME NEW k
             PROVE  k \in StepBit(Xor(v, w)) <=> k \in Xor(StepBit(v), StepBit(w))
  OBVIOUS
<1>2. k \in StepBit(Xor(v, w)) <=>
        ~((k \in Nat /\ k + 1 \in Xor(v, w)) <=> (0 \in Xor(v, w) /\ k \in Poly))
  BY <1>1, StepBitMember
<1>3. k \in StepBit(v) <=> ~((k \in Nat /\ k + 1 \in v) <=> (0 \in v /\ k \in Poly))
  BY StepBitMember
<1>4. k \in StepBit(w) <=> ~((k \in Nat /\ k + 1 \in w) <=> (0 \in w /\ k \in Poly))
  BY StepBitMember
<1>5. k \in Xor(StepBit(v), StepBit(w)) <=> ~(k \in StepBit(v) <=> k \in StepBit(w))
  BY XorMember
<1>6. k + 1 \in Xor(v, w) <=> ~(k + 1 \in v <=> k + 1 \in w)
  BY XorMember
<1>7. 0 \in Xor(v, w) <=> ~(0 \in v <=> 0 \in w)
  BY XorMember
<1> QED BY <1>2, <1>3, <1>4, <1>5, <1>6, <1>7

----------------------------------------------------------------------------
(* Steps.                                                                  *)

Maps == [Word -> Word]

(* After k zero bits.                                                      *)
IsShift(f) ==
  /\ f \in [Nat -> Maps]
  /\ \A v \in Word : f[0][v] = v
  /\ \A k \in Nat, v \in Word : f[k + 1][v] = StepBit(f[k][v])

Shift == CHOOSE f : IsShift(f)

LEMMA ShiftDef == IsShift(Shift)
<1> DEFINE id == [v \in Word |-> v]
<1> DEFINE g == [h \in Maps |-> [v \in Word |-> StepBit(h[v])]]
<1>1. id \in Maps
  BY DEF Maps
<1>2. g \in [Maps -> Maps]
  <2>1. \A h \in Maps, v \in Word : StepBit(h[v]) \in Word
    BY StepBitMember DEF Maps
  <2> QED BY <2>1 DEF Maps
<1>3. PICK f \in [Nat -> Maps] : f[0] = id /\ \A k \in Nat : f[k + 1] = g[f[k]]
  <2> HIDE DEF id, g
  <2> QED BY <1>1, <1>2, NatRecursion
<1>4. ASSUME NEW v \in Word PROVE f[0][v] = v
  BY <1>3
<1>5. ASSUME NEW k \in Nat, NEW v \in Word PROVE f[k + 1][v] = StepBit(f[k][v])
  <2>1. f[k + 1] = g[f[k]] /\ f[k] \in Maps
    BY <1>3
  <2>2. f[k + 1] = [u \in Word |-> StepBit(f[k][u])]
    BY <2>1
  <2> QED BY <2>2
<1>6. IsShift(f)
  <2> HIDE DEF id, g
  <2> QED BY <1>4, <1>5 DEF IsShift
<1> QED BY <1>6 DEF Shift

LEMMA ShiftFacts ==
  /\ \A k \in Nat, v \in Word : Shift[k][v] \in Word
  /\ \A v \in Word : Shift[0][v] = v
  /\ \A k \in Nat, v \in Word : Shift[k + 1][v] = StepBit(Shift[k][v])
BY ShiftDef DEF IsShift, Maps

LEMMA ShiftLinear ==
  ASSUME NEW v \in Word, NEW w \in Word
  PROVE  \A k \in Nat : Shift[k][Xor(v, w)] = Xor(Shift[k][v], Shift[k][w])
<1> DEFINE T == {k \in Nat : Shift[k][Xor(v, w)] = Xor(Shift[k][v], Shift[k][w])}
<1>1. Xor(v, w) \in Word
  BY XorGroup
<1>2. 0 \in T
  BY <1>1, ShiftFacts
<1>3. ASSUME NEW k \in Nat, k \in T PROVE k + 1 \in T
  <2>1. Shift[k + 1][Xor(v, w)] = StepBit(Shift[k][Xor(v, w)])
    BY <1>1, ShiftFacts
  <2>2. Shift[k][Xor(v, w)] = Xor(Shift[k][v], Shift[k][w])
    BY <1>3
  <2>3. Shift[k][v] \in Word /\ Shift[k][w] \in Word
    BY ShiftFacts
  <2>4. StepBit(Xor(Shift[k][v], Shift[k][w])) = Xor(StepBit(Shift[k][v]), StepBit(Shift[k][w]))
    BY <2>3, StepBitLinear
  <2>5. Shift[k + 1][v] = StepBit(Shift[k][v]) /\ Shift[k + 1][w] = StepBit(Shift[k][w])
    BY ShiftFacts
  <2>6. Shift[k + 1][Xor(v, w)] = Xor(Shift[k + 1][v], Shift[k + 1][w])
    BY <2>1, <2>2, <2>4, <2>5
  <2> QED BY <2>6
<1>4. \A k \in Nat : k \in T
  <2> HIDE DEF T
  <2> QED BY <1>2, <1>3, Induction
<1> QED BY <1>4

LEMMA ShiftAdds ==
  ASSUME NEW v \in Word, NEW a \in Nat
  PROVE  \A k \in Nat : Shift[a + k][v] = Shift[k][Shift[a][v]]
<1> DEFINE T == {k \in Nat : Shift[a + k][v] = Shift[k][Shift[a][v]]}
<1>1. Shift[a][v] \in Word
  BY ShiftFacts
<1>2. 0 \in T
  <2>1. a + 0 = a
    OBVIOUS
  <2> QED BY <1>1, <2>1, ShiftFacts
<1>3. ASSUME NEW k \in Nat, k \in T PROVE k + 1 \in T
  <2>1. a + (k + 1) = (a + k) + 1 /\ a + k \in Nat
    OBVIOUS
  <2>2. Shift[(a + k) + 1][v] = StepBit(Shift[a + k][v])
    BY <2>1, ShiftFacts
  <2>3. Shift[k + 1][Shift[a][v]] = StepBit(Shift[k][Shift[a][v]])
    BY <1>1, ShiftFacts
  <2>4. Shift[a + k][v] = Shift[k][Shift[a][v]]
    BY <1>3
  <2>5. Shift[a + (k + 1)][v] = Shift[k + 1][Shift[a][v]]
    BY <2>1, <2>2, <2>3, <2>4
  <2> QED BY <2>5
<1>4. \A k \in Nat : k \in T
  <2> HIDE DEF T
  <2> QED BY <1>2, <1>3, Induction
<1> QED BY <1>4

(* A byte is eight steps.                                                  *)
LEMMA StepByteShift ==
  ASSUME NEW v \in Word, NEW byte \in Byte
  PROVE  StepByte(v, byte) = Shift[8][Xor(v, byte)]
<1> DEFINE x == Xor(v, byte)
<1> DEFINE after[i \in 0 .. 8] == IF i = 0 THEN x ELSE StepBit(after[i - 1])
<1> DEFINE f == [i \in 0 .. 8 |-> Shift[i][x]]
<1>1. x \in Word
  BY XorGroup, WordFacts
<1> HIDE DEF x
<1>2. ASSUME NEW i \in 0 .. 8 PROVE Shift[i][x] = IF i = 0 THEN x ELSE StepBit(Shift[i - 1][x])
  <2>1. CASE i = 0
    BY <2>1, <1>1, ShiftFacts
  <2>2. CASE i # 0
    <3>1. i - 1 \in Nat /\ (i - 1) + 1 = i
      BY <2>2
    <3> QED BY <2>2, <3>1, <1>1, ShiftFacts
  <2> QED BY <2>1, <2>2
<1>3. f = [i \in 0 .. 8 |-> IF i = 0 THEN x ELSE StepBit(f[i - 1])]
  <2>1. \A i \in 0 .. 8 : i # 0 => f[i - 1] = Shift[i - 1][x]
    OBVIOUS
  <2> QED BY <1>2, <2>1
<1>4. after = [i \in 0 .. 8 |-> IF i = 0 THEN x ELSE StepBit(after[i - 1])]
  <2> HIDE DEF f
  <2> QED BY <1>3
<1> HIDE DEF after
<1>5. \A i \in 0 .. 8 : after[i] = Shift[i][x]
  <2> DEFINE T == {i \in Nat : after[i] = Shift[i][x]}
  <2>1. 0 \in T
    BY <1>2, <1>4
  <2>2. ASSUME NEW i \in 1 .. 8, i - 1 \in T PROVE i \in T
    <3>1. after[i] = StepBit(after[i - 1])
      BY <1>4
    <3>2. Shift[i][x] = StepBit(Shift[i - 1][x])
      BY <1>2
    <3> QED BY <2>2, <3>1, <3>2
  <2>3. 8 \in Nat
    OBVIOUS
  <2>4. \A i \in 0 .. 8 : i \in T
    <3> HIDE DEF T
    <3> QED BY <2>1, <2>2, <2>3, BoundedInduction
  <2> QED BY <2>4
<1>6. StepByte(v, byte) = after[8]
  BY DEF StepByte, after, x
<1> QED BY <1>5, <1>6 DEF x

----------------------------------------------------------------------------
(* Checksums.                                                              *)

(* The register after each byte, from a register s.                        *)
Run(s, bytes) ==
  LET crc[i \in 0 .. Len(bytes)] == IF i = 0 THEN s ELSE StepByte(crc[i - 1], bytes[i])
  IN  crc

LEMMA StepByteType ==
  ASSUME NEW v \in Word, NEW byte \in Byte
  PROVE  StepByte(v, byte) \in Word
<1>1. Xor(v, byte) \in Word /\ 8 \in Nat
  BY XorGroup, WordFacts
<1> QED BY <1>1, StepByteShift, ShiftFacts

LEMMA RunFacts ==
  ASSUME NEW s \in Word, NEW bytes \in Seq(Byte)
  PROVE  /\ Run(s, bytes)[0] = s
         /\ \A i \in 1 .. Len(bytes) : Run(s, bytes)[i] = StepByte(Run(s, bytes)[i - 1], bytes[i])
         /\ \A i \in 0 .. Len(bytes) : Run(s, bytes)[i] \in Word
<1> DEFINE N == Len(bytes)
<1> DEFINE g == [i \in 1 .. N |-> [v \in Word |-> StepByte(v, bytes[i])]]
<1> DEFINE crc[i \in 0 .. N] == IF i = 0 THEN s ELSE StepByte(crc[i - 1], bytes[i])
<1>1. N \in Nat /\ \A i \in 1 .. N : bytes[i] \in Byte
  OBVIOUS
<1>2. g \in Rules(N, Word)
  <2>1. \A i \in 1 .. N, v \in Word : StepByte(v, bytes[i]) \in Word
    BY <1>1, StepByteType
  <2> HIDE DEF N
  <2> QED BY <2>1 DEF Rules
<1>3. PICK f : Follows(f, N, Word, s, g)
  <2> HIDE DEF N, g, crc
  <2> QED BY <1>1, <1>2, Recursion
<1> HIDE DEF N
<1>4. f \in [0 .. N -> Word] /\ f[0] = s /\ \A i \in 1 .. N : f[i] = g[i][f[i - 1]]
  <2> HIDE DEF g, crc
  <2> QED BY <1>3 DEF Follows
<1>5. ASSUME NEW i \in 1 .. N PROVE f[i] = StepByte(f[i - 1], bytes[i])
  <2>1. f[i - 1] \in Word /\ f[i] = g[i][f[i - 1]]
    BY <1>1, <1>4
  <2> QED BY <2>1
<1>6. f = [i \in 0 .. N |-> IF i = 0 THEN s ELSE StepByte(f[i - 1], bytes[i])]
  <2> HIDE DEF g
  <2>1. f = [i \in 0 .. N |-> f[i]]
    BY <1>4
  <2>2. \A i \in 0 .. N : f[i] = IF i = 0 THEN s ELSE StepByte(f[i - 1], bytes[i])
    BY <1>1, <1>4, <1>5
  <2> QED BY <2>1, <2>2
<1>7. crc = [i \in 0 .. N |-> IF i = 0 THEN s ELSE StepByte(crc[i - 1], bytes[i])]
  <2> HIDE DEF g
  <2> QED BY <1>6
<1>8. Run(s, bytes) = crc
  BY DEF Run, crc, N
<1> HIDE DEF crc, g
<1>9. crc[0] = s /\ \A i \in 1 .. N : crc[i] = StepByte(crc[i - 1], bytes[i])
  BY <1>1, <1>7
<1>10. \A i \in 0 .. N : f[i] = crc[i]
  <2> DEFINE T == {i \in Nat : f[i] = crc[i]}
  <2>1. 0 \in T
    BY <1>4, <1>9
  <2>2. \A i \in 1 .. N : i - 1 \in T => i \in T
    BY <1>5, <1>9
  <2>3. \A i \in 0 .. N : i \in T
    <3> HIDE DEF T
    <3> QED BY <1>1, <2>1, <2>2, BoundedInduction
  <2> QED BY <2>3
<1>11. \A i \in 0 .. N : crc[i] \in Word
  BY <1>4, <1>10
<1> QED BY <1>8, <1>9, <1>11 DEF N

LEMMA CrcRun ==
  ASSUME NEW bytes \in Seq(Byte)
  PROVE  Crc(bytes) = Xor(Bits, Run(Bits, bytes)[Len(bytes)]) /\ Crc(bytes) \in Word
<1>1. Crc(bytes) = Xor(Bits, Run(Bits, bytes)[Len(bytes)])
  BY DEF Crc, Run
<1>2. Run(Bits, bytes)[Len(bytes)] \in Word
  BY RunFacts, WordFacts
<1> QED BY <1>1, <1>2, XorGroup, WordFacts

(* A difference in the register is shifted along.                          *)
LEMMA RunLinear ==
  ASSUME NEW s \in Word, NEW t \in Word, NEW bytes \in Seq(Byte)
  PROVE  \A i \in 0 .. Len(bytes) :
           Run(Xor(s, t), bytes)[i] = Xor(Shift[8 * i][s], Run(t, bytes)[i])
<1> DEFINE st == Xor(s, t)
<1> DEFINE T == {i \in Nat : Run(st, bytes)[i] = Xor(Shift[8 * i][s], Run(t, bytes)[i])}
<1>1. st \in Word /\ Len(bytes) \in Nat
  BY XorGroup
<1> HIDE DEF st
<1>2. 0 \in T
  <2>1. Run(st, bytes)[0] = st /\ Run(t, bytes)[0] = t /\ Shift[0][s] = s /\ 8 * 0 = 0
    BY <1>1, RunFacts, ShiftFacts
  <2> QED BY <2>1 DEF st
<1>3. ASSUME NEW i \in 1 .. Len(bytes), i - 1 \in T PROVE i \in T
  <2> DEFINE a == Shift[8 * (i - 1)][s]
  <2> DEFINE b == Run(t, bytes)[i - 1]
  <2> DEFINE c == bytes[i]
  <2>1. a \in Word /\ b \in Word /\ c \in Word /\ c \in Byte
    <3>1. 8 * (i - 1) \in Nat /\ i - 1 \in 0 .. Len(bytes) /\ c \in Byte
      OBVIOUS
    <3> QED BY <3>1, ShiftFacts, RunFacts, WordFacts
  <2>2. Run(st, bytes)[i] = StepByte(Xor(a, b), c)
    <3>1. Run(st, bytes)[i - 1] = Xor(a, b)
      BY <1>3
    <3>2. Run(st, bytes)[i] = StepByte(Run(st, bytes)[i - 1], bytes[i])
      BY <1>1, RunFacts
    <3> QED BY <3>1, <3>2
  <2>3. Run(t, bytes)[i] = StepByte(b, c)
    BY RunFacts
  <2>4. Shift[8 * i][s] = Shift[8][a]
    <3>1. 8 * (i - 1) \in Nat /\ 8 \in Nat /\ 8 * (i - 1) + 8 = 8 * i
      OBVIOUS
    <3>2. Shift[8 * (i - 1) + 8][s] = Shift[8][a]
      BY <3>1, ShiftAdds
    <3> QED BY <3>1, <3>2
  <2> HIDE DEF a, b, c
  <2>5. Xor(a, b) \in Word /\ Xor(b, c) \in Word /\ 8 \in Nat
    BY <2>1, XorGroup
  <2>6. StepByte(Xor(a, b), c) = Shift[8][Xor(Xor(a, b), c)]
    BY <2>1, <2>5, StepByteShift
  <2>7. Xor(Xor(a, b), c) = Xor(a, Xor(b, c))
    BY XorGroup
  <2>8. Shift[8][Xor(a, Xor(b, c))] = Xor(Shift[8][a], Shift[8][Xor(b, c)])
    BY <2>1, <2>5, ShiftLinear
  <2>9. StepByte(b, c) = Shift[8][Xor(b, c)]
    BY <2>1, StepByteShift
  <2>10. Run(st, bytes)[i] = Xor(Shift[8 * i][s], Run(t, bytes)[i])
    BY <2>2, <2>3, <2>4, <2>6, <2>7, <2>8, <2>9
  <2> QED BY <2>10
<1>4. \A i \in 0 .. Len(bytes) : i \in T
  <2> HIDE DEF T
  <2> QED BY <1>1, <1>2, <1>3, BoundedInduction
<1> QED BY <1>4 DEF st

(* The register goes on where the first sequence left it.                  *)
LEMMA RunConcat ==
  ASSUME NEW s \in Word, NEW a \in Seq(Byte), NEW b \in Seq(Byte)
  PROVE  Run(s, a \o b)[Len(a \o b)] = Run(Run(s, a)[Len(a)], b)[Len(b)]
<1> DEFINE c == a \o b
<1> DEFINE p == Run(s, a)[Len(a)]
<1>1. /\ c \in Seq(Byte) /\ Len(a) \in Nat /\ Len(b) \in Nat /\ Len(c) = Len(a) + Len(b)
      /\ \A i \in 1 .. Len(a) : c[i] = a[i]
      /\ \A i \in 1 .. Len(b) : c[Len(a) + i] = b[i]
  OBVIOUS
<1>2. p \in Word
  BY <1>1, RunFacts
<1> HIDE DEF c
<1>3. \A i \in 0 .. Len(a) : Run(s, a)[i] = Run(s, c)[i]
  <2> DEFINE T == {i \in Nat : Run(s, a)[i] = Run(s, c)[i]}
  <2>1. 0 \in T
    BY <1>1, RunFacts
  <2>2. ASSUME NEW i \in 1 .. Len(a), i - 1 \in T PROVE i \in T
    <3>1. i \in 1 .. Len(c) /\ c[i] = a[i]
      BY <1>1
    <3>2. Run(s, a)[i] = StepByte(Run(s, a)[i - 1], a[i])
      BY RunFacts
    <3>3. Run(s, c)[i] = StepByte(Run(s, c)[i - 1], c[i])
      BY <1>1, <3>1, RunFacts
    <3> QED BY <2>2, <3>1, <3>2, <3>3
  <2>3. \A i \in 0 .. Len(a) : i \in T
    <3> HIDE DEF T
    <3> QED BY <1>1, <2>1, <2>2, BoundedInduction
  <2> QED BY <2>3
<1>4. Run(s, c)[Len(a)] = p
  BY <1>1, <1>3
<1> HIDE DEF p
<1> DEFINE T == {i \in Nat : Run(p, b)[i] = Run(s, c)[Len(a) + i]}
<1>5. 0 \in T
  <2>1. Run(p, b)[0] = p /\ Len(a) + 0 = Len(a)
    BY <1>1, <1>2, RunFacts
  <2> QED BY <1>4, <2>1
<1>6. ASSUME NEW i \in 1 .. Len(b), i - 1 \in T PROVE i \in T
  <2>1. /\ Len(a) + i \in 1 .. Len(c) /\ c[Len(a) + i] = b[i]
        /\ (Len(a) + i) - 1 = Len(a) + (i - 1)
    BY <1>1
  <2>2. Run(p, b)[i] = StepByte(Run(p, b)[i - 1], b[i])
    BY <1>2, RunFacts
  <2>3. Run(s, c)[Len(a) + i] = StepByte(Run(s, c)[(Len(a) + i) - 1], c[Len(a) + i])
    BY <1>1, <2>1, RunFacts
  <2>4. Run(p, b)[i - 1] = Run(s, c)[Len(a) + (i - 1)]
    BY <1>6
  <2>5. Run(p, b)[i] = Run(s, c)[Len(a) + i]
    BY <2>1, <2>2, <2>3, <2>4
  <2> QED BY <2>5
<1>7. \A i \in 0 .. Len(b) : i \in T
  <2> HIDE DEF T
  <2> QED BY <1>1, <1>5, <1>6, BoundedInduction
<1>8. Run(p, b)[Len(b)] = Run(s, c)[Len(c)]
  BY <1>1, <1>7
<1> QED BY <1>8 DEF p, c

(* Appending bytes shifts a checksum and adds theirs.                      *)
LEMMA CrcConcat ==
  ASSUME NEW a \in Seq(Byte), NEW b \in Seq(Byte)
  PROVE  Crc(a \o b) = Xor(Shift[8 * Len(b)][Crc(a)], Crc(b))
<1> DEFINE p == Run(Bits, a)[Len(a)]
<1> DEFINE q == Run(Bits, b)[Len(b)]
<1> DEFINE d == Shift[8 * Len(b)][Crc(a)]
<1>1. a \o b \in Seq(Byte) /\ Len(a) \in Nat /\ Len(b) \in Nat /\ 8 * Len(b) \in Nat
  OBVIOUS
<1>2. p \in Word /\ q \in Word /\ Bits \in Word
  BY <1>1, RunFacts, WordFacts
<1>3. Crc(a) = Xor(Bits, p) /\ Crc(b) = Xor(Bits, q) /\ Crc(a) \in Word
  BY CrcRun
<1>4. d \in Word
  BY <1>1, <1>3, ShiftFacts
<1>5. Crc(a \o b) = Xor(Bits, Run(p, b)[Len(b)])
  <2>1. Crc(a \o b) = Xor(Bits, Run(Bits, a \o b)[Len(a \o b)])
    BY <1>1, CrcRun
  <2>2. Run(Bits, a \o b)[Len(a \o b)] = Run(p, b)[Len(b)]
    BY <1>2, RunConcat
  <2> QED BY <2>1, <2>2
<1>6. Run(Xor(Crc(a), Bits), b)[Len(b)] = Xor(d, q)
  BY <1>1, <1>2, <1>3, RunLinear
<1> HIDE DEF p, q, d
<1>7. Xor(Crc(a), Bits) = p
  <2>1. Xor(Bits, p) = Xor(p, Bits) /\ Xor(Bits, Bits) = {} /\ Xor(p, {}) = p
    BY XorGroup
  <2>2. Xor(Xor(p, Bits), Bits) = Xor(p, Xor(Bits, Bits))
    BY XorGroup
  <2> QED BY <1>3, <2>1, <2>2
<1>8. Crc(a \o b) = Xor(Bits, Xor(d, q))
  BY <1>5, <1>6, <1>7
<1>9. Xor(Bits, Xor(d, q)) = Xor(d, Xor(Bits, q))
  <2>1. Xor(Bits, Xor(d, q)) = Xor(Xor(d, q), Bits) /\ Xor(q, Bits) = Xor(Bits, q)
    BY XorGroup
  <2>2. Xor(Xor(d, q), Bits) = Xor(d, Xor(q, Bits))
    BY XorGroup
  <2> QED BY <2>1, <2>2
<1> QED BY <1>3, <1>8, <1>9 DEF d

----------------------------------------------------------------------------
(* Matrices.                                                               *)

Matrix == [Bits -> Word]

LEMMA TimesType == \A m \in Matrix, v \in Word : Times(m, v) \in Word
BY DEF Times, Word

LEMMA TimesEmpty == ASSUME NEW m \in Matrix PROVE Times(m, {}) = {}
<1>1. ASSUME NEW k \in Bits PROVE k \notin Times(m, {})
  <2>1. {i \in {} : k \in m[i]} = {}
    OBVIOUS
  <2>2. Cardinality({i \in {} : k \in m[i]}) = 0
    BY <2>1, FS_EmptySet
  <2> QED BY <2>2 DEF Times
<1> QED BY <1>1 DEF Times

(* One bit more in the vector is one column more in the product.           *)
LEMMA TimesAdd ==
  ASSUME NEW m \in Matrix, NEW v \in Word, NEW i \in Bits, i \notin v
  PROVE  Times(m, v \cup {i}) = Xor(Times(m, v), m[i])
<1>1. IsFiniteSet(Bits)
  BY CrcAssumption, FS_Interval DEF Bits
<1>2. ASSUME NEW k \in Bits PROVE k \in Times(m, v \cup {i}) <=> k \in Xor(Times(m, v), m[i])
  <2> DEFINE A == {j \in v : k \in m[j]}
  <2> DEFINE B == {j \in v \cup {i} : k \in m[j]}
  <2>1. IsFiniteSet(A) /\ Cardinality(A) \in Nat
    <3>1. A \subseteq Bits
      BY DEF Word
    <3> HIDE DEF A
    <3> QED BY <1>1, <3>1, FS_Subset, FS_CardinalityType
  <2>2. k \in Times(m, v) <=> Cardinality(A) % 2 = 1
    BY DEF Times
  <2>3. k \in Times(m, v \cup {i}) <=> Cardinality(B) % 2 = 1
    BY DEF Times
  <2>4. CASE k \in m[i]
    <3>1. B = A \cup {i} /\ i \notin A
      BY <2>4
    <3>2. Cardinality(B) = Cardinality(A) + 1
      <4> HIDE DEF A, B
      <4> QED BY <2>1, <3>1, FS_AddElement
    <3> HIDE DEF A, B
    <3>3. Cardinality(B) % 2 = 1 <=> ~(Cardinality(A) % 2 = 1)
      BY <2>1, <3>2
    <3> QED BY <2>2, <2>3, <2>4, <3>3, XorMember
  <2>5. CASE k \notin m[i]
    <3>1. B = A
      BY <2>5
    <3> HIDE DEF A, B
    <3> QED BY <2>2, <2>3, <2>5, <3>1, XorMember
  <2> QED BY <2>4, <2>5
<1>3. v \cup {i} \in Word /\ m[i] \in Word
  BY DEF Word, Matrix
<1>4. Times(m, v \cup {i}) \subseteq Bits /\ Xor(Times(m, v), m[i]) \subseteq Bits
  BY <1>3, TimesType, XorGroup DEF Word
<1> QED BY <1>2, <1>4

(* A matrix whose columns are the words shifted by p is the shift by p.    *)
Shifts(m, p) == m \in Matrix /\ \A i \in Bits : m[i] = Shift[p][{i}]

LEMMA ShiftOfEmpty == \A p \in Nat : Shift[p][{}] = {}
<1> SUFFICES ASSUME NEW p \in Nat PROVE Shift[p][{}] = {}
  OBVIOUS
<1>1. {} \in Word /\ Xor({}, {}) = {}
  BY WordFacts, XorGroup
<1>2. Shift[p][Xor({}, {})] = Xor(Shift[p][{}], Shift[p][{}])
  BY <1>1, ShiftLinear
<1> QED BY <1>1, <1>2, XorGroup

LEMMA TimesShifts ==
  ASSUME NEW m, NEW p \in Nat, Shifts(m, p)
  PROVE  \A v \in Word : Times(m, v) = Shift[p][v]
<1>0. m \in Matrix /\ Width \in Nat
  BY WordFacts DEF Shifts
<1> DEFINE T == {k \in Nat : \A v \in Word : (\A i \in v : i < k) => Times(m, v) = Shift[p][v]}
<1>1. 0 \in T
  <2>1. ASSUME NEW v \in Word, \A i \in v : i < 0 PROVE Times(m, v) = Shift[p][v]
    <3>1. v = {}
      BY <1>0, <2>1 DEF Word, Bits
    <3> QED BY <1>0, <3>1, TimesEmpty, ShiftOfEmpty
  <2> QED BY <2>1
<1>2. ASSUME NEW k \in Nat, k \in T PROVE k + 1 \in T
  <2>1. ASSUME NEW v \in Word, \A i \in v : i < k + 1 PROVE Times(m, v) = Shift[p][v]
    <3> DEFINE u == v \ {k}
    <3>1. u \in Word /\ \A i \in u : i < k
      BY <1>0, <2>1 DEF Word, Bits
    <3>2. Times(m, u) = Shift[p][u]
      BY <1>2, <3>1
    <3>3. CASE k \notin v
      <4>1. u = v
        BY <3>3
      <4> QED BY <3>2, <4>1
    <3>4. CASE k \in v
      <4>1. k \in Bits /\ k \notin u /\ v = u \cup {k} /\ v = Xor(u, {k}) /\ {k} \in Word
        BY <3>4 DEF Word, Xor
      <4> HIDE DEF u
      <4>2. Times(m, v) = Xor(Times(m, u), m[k])
        BY <1>0, <3>1, <4>1, TimesAdd
      <4>3. Shift[p][v] = Xor(Shift[p][u], Shift[p][{k}])
        <5>1. Shift[p][Xor(u, {k})] = Xor(Shift[p][u], Shift[p][{k}])
          <6>1. u \in Word /\ {k} \in Word
            BY <3>1, <4>1
          <6> QED BY <6>1, ShiftLinear
        <5> QED BY <4>1, <5>1, Zenon
      <4>4. m[k] = Shift[p][{k}]
        BY <4>1 DEF Shifts
      <4> QED BY <3>2, <4>2, <4>3, <4>4
    <3> QED BY <3>3, <3>4
  <2> QED BY <2>1
<1>3. \A k \in Nat : k \in T
  <2> HIDE DEF T
  <2> QED BY <1>1, <1>2, Induction
<1>4. Width \in T
  <2> HIDE DEF T
  <2> QED BY <1>0, <1>3
<1>5. \A v \in Word : \A i \in v : i < Width
  BY <1>0 DEF Word, Bits
<1> QED BY <1>4, <1>5

LEMMA SquareShifts ==
  ASSUME NEW m, NEW p \in Nat, Shifts(m, p)
  PROVE  Shifts(Square(m), p + p)
<1>1. m \in Matrix
  BY DEF Shifts
<1>2. \A n \in Bits : m[n] \in Word /\ {n} \in Word
  BY <1>1 DEF Matrix, Word
<1>3. ASSUME NEW n \in Bits PROVE Square(m)[n] = Shift[p + p][{n}]
  <2>1. Square(m)[n] = Times(m, m[n])
    BY DEF Square
  <2>2. Times(m, m[n]) = Shift[p][m[n]]
    BY <1>2, TimesShifts
  <2>3. m[n] = Shift[p][{n}]
    BY DEF Shifts
  <2>4. Shift[p + p][{n}] = Shift[p][Shift[p][{n}]]
    BY <1>2, ShiftAdds
  <2> QED BY <2>1, <2>2, <2>3, <2>4
<1>4. Square(m) \in Matrix
  <2>1. \A n \in Bits : Times(m, m[n]) \in Word
    BY <1>1, <1>2, TimesType
  <2> QED BY <2>1 DEF Square, Matrix
<1> QED BY <1>3, <1>4 DEF Shifts

LEMMA ZeroBitShifts == Shifts(ZeroBit, 1)
<1>1. ZeroBit \in Matrix
  <2>1. \A n \in Bits : n # 0 => {n - 1} \in Word
    BY WordFacts DEF Bits, Word
  <2> QED BY <2>1, WordFacts DEF ZeroBit, Matrix
<1>2. ASSUME NEW n \in Bits PROVE ZeroBit[n] = Shift[1][{n}]
  <2>1. {n} \in Word /\ n \in Nat
    BY WordFacts DEF Word, Bits
  <2>2. Shift[1][{n}] = StepBit({n})
    <3>1. 0 \in Nat /\ 0 + 1 = 1
      OBVIOUS
    <3>2. Shift[0 + 1][{n}] = StepBit(Shift[0][{n}])
      BY <2>1, <3>1, ShiftFacts
    <3>3. Shift[0][{n}] = {n}
      BY <2>1, ShiftFacts
    <3> QED BY <3>1, <3>2, <3>3
  <2>3. CASE n = 0
    <3>1. ZeroBit[n] = Poly
      BY <2>3 DEF ZeroBit
    <3>2. ShiftRight({n}) = {}
      BY <2>3 DEF ShiftRight
    <3>3. StepBit({n}) = Xor({}, Poly)
      BY <2>3, <3>2 DEF StepBit
    <3> QED BY <2>2, <3>1, <3>3, XorGroup
  <2>4. CASE n # 0
    <3>1. ZeroBit[n] = {n - 1}
      BY <2>4 DEF ZeroBit
    <3>2. ShiftRight({n}) = {n - 1}
      BY <2>1, <2>4 DEF ShiftRight
    <3>3. StepBit({n}) = {n - 1}
      BY <2>4, <3>2 DEF StepBit
    <3> QED BY <2>2, <3>1, <3>3
  <2> QED BY <2>3, <2>4
<1> QED BY <1>1, <1>2 DEF Shifts

LEMMA FourZeroBitsShifts == Shifts(FourZeroBits, 4)
<1>1. Shifts(Square(ZeroBit), 2)
  <2>1. 1 \in Nat /\ 1 + 1 = 2
    OBVIOUS
  <2>2. Shifts(Square(ZeroBit), 1 + 1)
    BY <2>1, ZeroBitShifts, SquareShifts
  <2> QED BY <2>1, <2>2
<1>2. Shifts(Square(Square(ZeroBit)), 4)
  <2>1. 2 \in Nat /\ 2 + 2 = 4
    OBVIOUS
  <2>2. Shifts(Square(Square(ZeroBit)), 2 + 2)
    BY <1>1, <2>1, SquareShifts
  <2> QED BY <2>1, <2>2
<1> QED BY <1>2 DEF FourZeroBits

----------------------------------------------------------------------------
(* Combination.                                                            *)

LEMMA Halves ==
  ASSUME NEW n \in Nat
  PROVE  /\ n \div 2 \in Nat
         /\ n # 0 => n \div 2 < n
         /\ n = IF n % 2 = 1 THEN 2 * (n \div 2) + 1 ELSE 2 * (n \div 2)
<1>1. n \div 2 \in Nat /\ (n # 0 => n \div 2 < n)
  OBVIOUS
<1>2. n % 2 = n - 2 * (n \div 2) /\ (n % 2 = 0 \/ n % 2 = 1)
  OBVIOUS
<1> QED BY <1>1, <1>2

Rounds == [matrix : Matrix, left : Nat, crc : Word]

LEMMA RoundType == \A r \in Rounds : Round(r) \in Rounds
<1> SUFFICES ASSUME NEW r \in Rounds PROVE Round(r) \in Rounds
  OBVIOUS
<1>1. r.matrix \in Matrix /\ r.left \in Nat /\ r.crc \in Word
  BY DEF Rounds
<1>2. Square(r.matrix) \in Matrix
  <2>1. \A n \in Bits : r.matrix[n] \in Word
    BY <1>1 DEF Matrix
  <2>2. \A n \in Bits : Times(r.matrix, r.matrix[n]) \in Word
    BY <1>1, <2>1, TimesType
  <2> QED BY <2>2 DEF Square, Matrix
<1>3. Times(Square(r.matrix), r.crc) \in Word
  BY <1>1, <1>2, TimesType
<1>4. r.left \div 2 \in Nat
  BY <1>1
<1> QED BY <1>1, <1>2, <1>3, <1>4 DEF Round, Rounds

(* What a round keeps: the shift that is still due, as twice the matrix    *)
(* says, for each that is left.                                            *)
Due(r, word) ==
  \E p \in Nat : Shifts(r.matrix, p) /\ Shift[2 * p * r.left][r.crc] = word

LEMMA RoundKeeps ==
  ASSUME NEW r \in Rounds, NEW word, Due(r, word)
  PROVE  /\ Due(Round(r), word)
         /\ Round(r).left <= r.left
         /\ r.left # 0 => Round(r).left < r.left
<1> DEFINE s == Round(r)
<1>1. r.matrix \in Matrix /\ r.left \in Nat /\ r.crc \in Word
  BY DEF Rounds
<1>2. CASE r.left = 0
  <2>1. Round(r) = r
    BY <1>2 DEF Round
  <2> QED BY <1>1, <1>2, <2>1
<1>3. CASE r.left # 0
  <2>1. PICK p \in Nat : Shifts(r.matrix, p) /\ Shift[2 * p * r.left][r.crc] = word
    BY DEF Due
  <2> DEFINE h == r.left \div 2
  <2>2. s.matrix = Square(r.matrix) /\ s.left = h
        /\ s.crc = IF r.left % 2 = 1 THEN Times(Square(r.matrix), r.crc) ELSE r.crc
    BY <1>3 DEF Round
  <2>3. h \in Nat /\ h < r.left /\ r.left = IF r.left % 2 = 1 THEN 2 * h + 1 ELSE 2 * h
    BY <1>1, <1>3, Halves
  <2> HIDE DEF h, s
  <2>4. Shifts(s.matrix, p + p) /\ p + p \in Nat
    BY <2>1, <2>2, SquareShifts
  <2>5. Shift[2 * (p + p) * h][s.crc] = word
    <3> DEFINE e == 2 * (p + p) * h
    <3>1. e \in Nat
      BY <2>3
    <3>2. CASE r.left % 2 = 1
      <4>1. s.crc = Shift[p + p][r.crc]
        BY <1>1, <2>2, <2>4, <3>2, TimesShifts
      <4>2. 2 * p * r.left = (p + p) + e
        <5>1. r.left = 2 * h + 1
          BY <2>3, <3>2
        <5> QED BY <2>3, <5>1
      <4> HIDE DEF e
      <4>3. Shift[(p + p) + e][r.crc] = Shift[e][Shift[p + p][r.crc]]
        BY <1>1, <2>4, <3>1, ShiftAdds
      <4> QED BY <2>1, <4>1, <4>2, <4>3 DEF e
    <3>3. CASE r.left % 2 # 1
      <4>1. s.crc = r.crc
        BY <2>2, <3>3
      <4>2. r.left = 2 * h
        BY <2>3, <3>3
      <4>3. 2 * p * r.left = e
        BY <2>3, <4>2
      <4> QED BY <2>1, <4>1, <4>3
    <3> QED BY <3>2, <3>3
  <2>6. Due(s, word)
    BY <2>2, <2>4, <2>5 DEF Due
  <2> QED BY <1>1, <2>2, <2>3, <2>6 DEF s
<1> QED BY <1>2, <1>3

LEMMA AppendZerosShifts ==
  ASSUME NEW crc \in Word, NEW length \in Nat
  PROVE  AppendZeros(crc, length) = Shift[8 * length][crc]
<1> DEFINE first == [matrix |-> FourZeroBits, left |-> length, crc |-> crc]
<1> DEFINE g == [k \in 1 .. length |-> [r \in Rounds |-> Round(r)]]
<1> DEFINE round[k \in 0 .. length] == IF k = 0 THEN first ELSE Round(round[k - 1])
<1>1. first \in Rounds
  BY FourZeroBitsShifts DEF Rounds, Shifts
<1>2. g \in Rules(length, Rounds)
  BY RoundType DEF Rules
<1>3. PICK f : Follows(f, length, Rounds, first, g)
  <2> HIDE DEF first, g, round
  <2> QED BY <1>1, <1>2, Recursion
<1>4. /\ f \in [0 .. length -> Rounds] /\ f[0] = first
      /\ \A k \in 1 .. length : f[k] = g[k][f[k - 1]]
  <2> HIDE DEF first, g, round
  <2> QED BY <1>3 DEF Follows
<1>5. Due(first, Shift[8 * length][crc]) /\ first.left = length
  <2>1. Shifts(first.matrix, 4) /\ 4 \in Nat /\ 2 * 4 * length = 8 * length
    BY FourZeroBitsShifts
  <2>2. first.left = length /\ first.crc = crc
    OBVIOUS
  <2> HIDE DEF first
  <2> QED BY <2>1, <2>2 DEF Due
<1> HIDE DEF first
<1>6. ASSUME NEW k \in 1 .. length PROVE f[k] = Round(f[k - 1])
  <2>1. f[k - 1] \in Rounds /\ f[k] = g[k][f[k - 1]]
    BY <1>4
  <2> QED BY <2>1
<1> HIDE DEF g
<1>7. f = [k \in 0 .. length |-> IF k = 0 THEN first ELSE Round(f[k - 1])]
  <2>1. f = [k \in 0 .. length |-> f[k]]
    BY <1>4
  <2>2. \A k \in 0 .. length : f[k] = IF k = 0 THEN first ELSE Round(f[k - 1])
    BY <1>4, <1>6
  <2> QED BY <2>1, <2>2
<1>8. round = [k \in 0 .. length |-> IF k = 0 THEN first ELSE Round(round[k - 1])]
  BY <1>7
<1>9. AppendZeros(crc, length) = round[length].crc
  BY DEF AppendZeros, round, first
<1> HIDE DEF round
<1>10. round[0] = first /\ \A k \in 1 .. length : round[k] = Round(round[k - 1])
  BY <1>8
<1> DEFINE T == {k \in Nat : /\ round[k] \in Rounds /\ Due(round[k], Shift[8 * length][crc])
                             /\ round[k].left <= length - k}
<1>11. 0 \in T
  BY <1>1, <1>5, <1>10
<1>12. ASSUME NEW k \in 1 .. length, k - 1 \in T PROVE k \in T
  <2> DEFINE r == round[k - 1]
  <2>1. r \in Rounds /\ Due(r, Shift[8 * length][crc]) /\ r.left <= length - (k - 1)
    BY <1>12
  <2>2. round[k] = Round(r)
    BY <1>10
  <2> HIDE DEF r
  <2>3. Round(r) \in Rounds
    BY <2>1, RoundType
  <2>4. /\ Due(Round(r), Shift[8 * length][crc]) /\ Round(r).left <= r.left
        /\ r.left # 0 => Round(r).left < r.left
    BY <2>1, RoundKeeps
  <2>5. r.left \in Nat /\ Round(r).left \in Nat
    BY <2>1, <2>3 DEF Rounds
  <2>6. Round(r).left <= length - k
    BY <2>1, <2>4, <2>5
  <2> QED BY <2>2, <2>3, <2>4, <2>6
<1>13. \A k \in 0 .. length : k \in T
  <2> HIDE DEF T
  <2> QED BY <1>11, <1>12, BoundedInduction
<1> DEFINE r == round[length]
<1>14. r \in Rounds /\ Due(r, Shift[8 * length][crc]) /\ r.left <= length - length
  BY <1>13
<1> HIDE DEF r, T
<1>15. PICK p \in Nat : Shift[2 * p * r.left][r.crc] = Shift[8 * length][crc]
  BY <1>14 DEF Due
<1>16. r.left = 0 /\ r.crc \in Word
  BY <1>14 DEF Rounds
<1>17. 2 * p * r.left = 0
  BY <1>16
<1>18. Shift[0][r.crc] = r.crc
  BY <1>16, ShiftFacts
<1> QED BY <1>9, <1>15, <1>17, <1>18 DEF r

(* CombineCRC32C is right for every length, width and polynomial: the      *)
(* checksums of two sequences and the length of the second give the        *)
(* checksum of the one followed by the other.                              *)
THEOREM CombineIsCrc ==
  \A a, b \in Seq(Byte) : Combine(Crc(a), Crc(b), Len(b)) = Crc(a \o b)
<1> SUFFICES ASSUME NEW a \in Seq(Byte), NEW b \in Seq(Byte)
             PROVE  Combine(Crc(a), Crc(b), Len(b)) = Crc(a \o b)
  OBVIOUS
<1>1. Len(b) \in Nat
  OBVIOUS
<1>2. CASE Len(b) = 0
  <2>1. a \o b = a
    BY <1>2
  <2> QED BY <1>2, <2>1 DEF Combine
<1>3. CASE Len(b) # 0
  <2>1. Combine(Crc(a), Crc(b), Len(b)) = Xor(AppendZeros(Crc(a), Len(b)), Crc(b))
    BY <1>1, <1>3 DEF Combine
  <2>2. Crc(a) \in Word
    BY CrcRun
  <2>3. AppendZeros(Crc(a), Len(b)) = Shift[8 * Len(b)][Crc(a)]
    BY <1>1, <2>2, AppendZerosShifts
  <2> QED BY <2>1, <2>3, CrcConcat
<1> QED BY <1>2, <1>3
=============================================================================
