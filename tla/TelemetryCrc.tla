------------------------------ MODULE TelemetryCrc ------------------------------
(***************************************************************************)
(* crc16CcittFalse, the checksum of a telemetry line, on which the reader  *)
(* relies when it takes a line that parses for a frame that was sent.      *)
(* A byte and the 16-bit crc are the sets of the bits that are on.         *)
(***************************************************************************)
EXTENDS Integers, Sequences, FiniteSetsExt

Words == SUBSET (0..15)
Bytes == SUBSET (0..7)

Polynomial == {0, 5, 12}    \* 0x1021

LeftShift(word) == {i + 1 : i \in word \ {15}}

\* A mutation of ShiftBit: the bit that leaves is looked for in the wrong place.
ShiftBitLow(crc) ==
  IF 0 \in crc THEN SymDiff(LeftShift(crc), Polynomial) ELSE LeftShift(crc)

ShiftBit(crc) ==
  IF 15 \in crc THEN SymDiff(LeftShift(crc), Polynomial) ELSE LeftShift(crc)

ShiftByte(crc) ==
  LET Twice(c) == ShiftBit(ShiftBit(c))
      FourTimes(c) == Twice(Twice(c))
  IN  FourTimes(FourTimes(crc))

EatByte(crc, byte) == ShiftByte(SymDiff(crc, {i + 8 : i \in byte}))

\* A mutation of Crc16CcittFalse: the start value is 0, as of other checksums.
Crc16FromZero(bytes) ==
  LET crc[n \in 0..Len(bytes)] ==
        IF n = 0 THEN {} ELSE EatByte(crc[n - 1], bytes[n])
  IN  crc[Len(bytes)]

Crc16CcittFalse(bytes) ==
  LET crc[n \in 0..Len(bytes)] ==
        IF n = 0 THEN 0..15 ELSE EatByte(crc[n - 1], bytes[n])
  IN  crc[Len(bytes)]

(* Two bytes give different checksums whatever they are, and no byte that  *)
(* follows makes two checksums equal again.                                *)
TwoBytesTellApart ==
  /\ Cardinality({Crc16CcittFalse(<<a, b>>) : a \in Bytes, b \in Bytes}) = Cardinality(Bytes \X Bytes)
  /\ Cardinality({EatByte(crc, {}) : crc \in Words}) = Cardinality(Words)

(***************************************************************************)
(* What the checksum is in algebra: the bytes, first bit first, and sixteen *)
(* zeros are a polynomial over {0, 1}; with its first sixteen coefficients  *)
(* turned over it is divided by x^16 + x^12 + x^5 + 1.  A polynomial is the *)
(* set of its exponents.                                                   *)
(***************************************************************************)
Dividend(bytes) ==
  SymDiff(UNION {{16 + 8 * (Len(bytes) - n) + i : i \in bytes[n]} : n \in 1..Len(bytes)},
          {8 * Len(bytes) + i : i \in 0..15})

Cancelled(polynomial, e) ==
  IF e \in polynomial THEN SymDiff(polynomial, {e, e - 4, e - 11, e - 16}) ELSE polynomial

Remainder(bytes) ==
  LET top == 8 * Len(bytes) + 16
      left[e \in 16..top] ==    \* no exponent from e on is left
        IF e = top THEN Dividend(bytes) ELSE Cancelled(left[e + 1], e)
  IN  left[16]

TwoBytesAreRemainders ==
  \A a, b \in Bytes : Crc16CcittFalse(<<a, b>>) = Remainder(<<a, b>>)
=============================================================================
