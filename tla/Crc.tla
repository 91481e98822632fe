-------------------------------- MODULE Crc ---------------------------------
(***************************************************************************)
(* The reflected CRC of sig/combine.go and wire/crc32c.ts, for any width   *)
(* and polynomial.  A word is the set of its bits that are one, so that    *)
(* exclusive or is the symmetric difference; a byte is a word of bits 0    *)
(* to 7.                                                                   *)
(***************************************************************************)
EXTENDS Integers, FiniteSets, Sequences

CONSTANTS Width,  \* bits of a checksum; 32 in the code
          Poly    \* the polynomial, reflected

ASSUME CrcAssumption == Width \in Nat /\ Width >= 8 /\ Poly \subseteq 0 .. Width - 1

Bits == 0 .. Width - 1

Xor(v, w) == (v \ w) \cup (w \ v)

ShiftRight(v) == {i - 1 : i \in v \ {0}}

----------------------------------------------------------------------------
(* crc32c.                                                                 *)

(* One bit more.                                                           *)
StepBit(v) == IF 0 \in v THEN Xor(ShiftRight(v), Poly) ELSE ShiftRight(v)

(* TABLE[(crc ^ b) & 0xff] ^ (crc >>> 8): eight bits at once.              *)
StepByte(v, byte) ==
  LET after[i \in 0 .. 8] == IF i = 0 THEN Xor(v, byte) ELSE StepBit(after[i - 1])
  IN  after[8]

Crc(bytes) ==
  LET crc[i \in 0 .. Len(bytes)] ==
        IF i = 0 THEN Bits ELSE StepByte(crc[i - 1], bytes[i])
  IN  Xor(Bits, crc[Len(bytes)])

----------------------------------------------------------------------------
(* CombineCRC32C.  A matrix is the function of its columns.                *)

(* gf2Times: the exclusive or of the columns that v selects.               *)
Times(m, v) ==
  {k \in Bits : Cardinality({i \in v : k \in m[i]}) % 2 = 1}

(* gf2Square.                                                              *)
Square(m) == [n \in Bits |-> Times(m, m[n])]

(* The operator for one zero bit.                                          *)
ZeroBit == [n \in Bits |-> IF n = 0 THEN Poly ELSE {n - 1}]

(* Mutant: one squaring short.                                             *)
TwoZeroBits == Square(ZeroBit)

FourZeroBits == Square(Square(ZeroBit))

(* The loop: one bit of the length and one squaring each time around, as  *)
(* long as bits of the length are left.                                    *)
Round(r) ==
  LET square == Square(r.matrix)
  IN  IF r.left = 0 THEN r
      ELSE [matrix |-> square, left |-> r.left \div 2,
            crc |-> IF r.left % 2 = 1 THEN Times(square, r.crc) ELSE r.crc]

AppendZeros(crc, length) ==
  LET round[k \in 0 .. length] ==
        IF k = 0 THEN [matrix |-> FourZeroBits, left |-> length, crc |-> crc]
        ELSE Round(round[k - 1])
  IN  round[length].crc

Combine(crc1, crc2, length2) ==
  IF length2 <= 0 THEN crc1
  ELSE Xor(AppendZeros(crc1, length2), crc2)
=============================================================================
