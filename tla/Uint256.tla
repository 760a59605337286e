------------------------------ MODULE Uint256 ------------------------------
(***************************************************************************)
(* uint256.Int: an unsigned integer of NLimbs limbs of LimbBits bits, the  *)
(* least significant first (4 and 64 in the code), and the EVM's           *)
(* arithmetic on it, limb by limb and bit by bit as uint256/uint256.go     *)
(* does it.  A byte has ByteBits bits (8).  The "or" of numbers that have  *)
(* no bit in common is their sum, and is written so.                       *)
(***************************************************************************)
EXTENDS Integers, Sequences, SequencesExt, Bitwise

CONSTANTS NLimbs, LimbBits, ByteBits

Base == 2^LimbBits               \* values of a limb
Bits == NLimbs * LimbBits        \* bits of a word
NBytes == Bits \div ByteBits
Limb == 1..NLimbs

\* A word as a sequence of limbs.
Word(f) == SubSeq(f, 1, NLimbs)

Clear == [i \in Limb |-> 0]
SetUint64(v) == [Clear EXCEPT ![1] = v]
SetAllOnes == [i \in Limb |-> Base - 1]
IsZero(z) == z = Clear
IsUint64(z) == \A i \in 2..NLimbs : z[i] = 0
IsNegative(z) == z[NLimbs] >= Base \div 2
boolToUint(b) == SetUint64(IF b THEN 1 ELSE 0)

\* Bit i of a word, the first being 0; the word with exactly the bits of a set.
Bit(z, i) == IF i \in 0..(Bits - 1) THEN (z[i \div LimbBits + 1] \div 2^(i % LimbBits)) % 2 ELSE 0
WithBit(z, i) == [z EXCEPT ![i \div LimbBits + 1] = @ + 2^(i % LimbBits)]

RECURSIVE Len64(_)
Len64(v) == IF v = 0 THEN 0 ELSE 1 + Len64(v \div 2)

\* The highest limb that is not zero decides.
BitLen(z) ==
    IF IsZero(z) THEN 0
    ELSE LET i == CHOOSE j \in Limb : z[j] # 0 /\ \A k \in (j + 1)..NLimbs : z[k] = 0
         IN  (i - 1) * LimbBits + Len64(z[i])

RECURSIVE CmpFrom(_, _, _)
CmpFrom(z, x, i) ==
    IF i = 0 THEN 0
    ELSE IF z[i] # x[i] THEN IF z[i] < x[i] THEN -1 ELSE 1
    ELSE CmpFrom(z, x, i - 1)
Cmp(z, x) == CmpFrom(z, x, NLimbs)
Lt(z, x) == Cmp(z, x) < 0
Gt(z, x) == Cmp(z, x) > 0
SLt(z, x) == IF IsNegative(z) # IsNegative(x) THEN IsNegative(z) ELSE Lt(z, x)
SGt(z, x) == IF IsNegative(z) # IsNegative(x) THEN IsNegative(x) ELSE Gt(z, x)
-----------------------------------------------------------------------------
\* The carry into limb i of x + y, and the borrow of x - y.
RECURSIVE Carry(_, _, _)
Carry(x, y, i) == IF i = 1 THEN 0 ELSE (x[i - 1] + y[i - 1] + Carry(x, y, i - 1)) \div Base

RECURSIVE Borrow(_, _, _)
Borrow(x, y, i) ==
    IF i = 1 THEN 0 ELSE IF x[i - 1] < y[i - 1] + Borrow(x, y, i - 1) THEN 1 ELSE 0

Add(x, y) == Word([i \in Limb |-> (x[i] + y[i] + Carry(x, y, i)) % Base])
AddOverflow(x, y) == Carry(x, y, NLimbs + 1) # 0
Sub(x, y) == Word([i \in Limb |-> (x[i] - y[i] - Borrow(x, y, i)) % Base])
Neg(x) == Sub(Clear, x)

NotBits(x) == [i \in Limb |-> Base - 1 - x[i]]
AndBits(x, y) == [i \in Limb |-> x[i] & y[i]]
OrBits(x, y) == [i \in Limb |-> x[i] | y[i]]
XorBits(x, y) == [i \in Limb |-> x[i] ^^ y[i]]

Lsh(x, n) ==
    LET limbs == n \div LimbBits
        bits == n % LimbBits
    IN  IF n >= Bits THEN Clear
        ELSE Word([i \in Limb |->
                IF i <= limbs THEN 0
                ELSE ((x[i - limbs] * 2^bits) % Base)
                     + IF bits > 0 /\ i - limbs > 1 THEN x[i - limbs - 1] \div 2^(LimbBits - bits) ELSE 0])

Rsh(x, n) ==
    LET limbs == n \div LimbBits
        bits == n % LimbBits
    IN  IF n >= Bits THEN Clear
        ELSE Word([i \in Limb |->
                IF i + limbs > NLimbs THEN 0
                ELSE (x[i + limbs] \div 2^bits)
                     + IF bits > 0 /\ i + limbs < NLimbs
                       THEN (x[i + limbs + 1] * 2^(LimbBits - bits)) % Base ELSE 0])

SRsh(x, n) ==
    IF n >= Bits THEN IF IsNegative(x) THEN SetAllOnes ELSE Clear
    ELSE IF IsNegative(x) /\ n > 0 THEN OrBits(Rsh(x, n), Lsh(SetAllOnes, Bits - n))
    ELSE Rsh(x, n)
-----------------------------------------------------------------------------
RECURSIVE AddCarrying(_, _, _)
AddCarrying(out, p, v) ==
    IF v = 0 \/ p > 2 * NLimbs THEN out
    ELSE AddCarrying([out EXCEPT ![p] = (@ + v) % Base], p + 1, (out[p] + v) \div Base)

AddAtOnce(out, p, v) == IF v = 0 \/ p > 2 * NLimbs THEN out ELSE [out EXCEPT ![p] = (@ + v) % Base]

\* One limb of the product is added at position p, and what it carries above it.
AddAt(out, p, v) == AddCarrying(out, p, v)

\* From the k-th pair of limbs on: the low half of its product goes to one
\* position, and the high half with the carry to the next.
RECURSIVE Products(_, _, _, _)
Products(x, y, k, out) ==
    IF k = NLimbs * NLimbs THEN out
    ELSE LET i == (k \div NLimbs) + 1
             j == (k % NLimbs) + 1
             p == i + j - 1
             lo == (x[i] * y[j]) % Base
             hi == (x[i] * y[j]) \div Base
         IN  Products(x, y, k + 1,
                      AddAt([out EXCEPT ![p] = (@ + lo) % Base], p + 1, hi + ((out[p] + lo) \div Base)))

umul(x, y) == Products(x, y, 0, Clear \o Clear)

Mul(x, y) == SubSeq(umul(x, y), 1, NLimbs)

\* Long division by one limb, from limb i down with the remainder so far.
RECURSIVE Div64(_, _, _, _)
Div64(x, d, i, rem) ==
    IF i = 0 THEN [q |-> Clear, r |-> SetUint64(rem)]
    ELSE LET below == Div64(x, d, i - 1, (rem * Base + x[i]) % d)
         IN  [below EXCEPT !.q[i] = (rem * Base + x[i]) \div d]

\* Shift and subtract, from bit i down; Lsh drops what leaves the word.
RECURSIVE ShiftSubtract(_, _, _, _)
ShiftSubtract(x, y, i, s) ==
    IF i < 0 THEN s
    ELSE LET rem == [Lsh(s.r, 1) EXCEPT ![1] = @ + Bit(x, i)]
         IN  ShiftSubtract(x, y, i - 1,
                 IF Cmp(rem, y) >= 0 THEN [q |-> WithBit(s.q, i), r |-> Sub(rem, y)]
                 ELSE [s EXCEPT !.r = rem])

divMod(x, y) ==
    CASE IsZero(y) -> [q |-> Clear, r |-> Clear]
      [] ~IsZero(y) /\ Lt(x, y) -> [q |-> Clear, r |-> x]
      [] ~IsZero(y) /\ ~Lt(x, y) /\ IsUint64(y) -> Div64(x, y[1], NLimbs, 0)
      [] OTHER -> ShiftSubtract(x, y, BitLen(x) - 1, [q |-> Clear, r |-> Clear])

Div(x, y) == divMod(x, y).q
Mod(x, y) == divMod(x, y).r
absOf(x) == IF IsNegative(x) THEN Neg(x) ELSE x

SDiv(x, y) ==
    LET q == Div(absOf(x), absOf(y))
    IN  IF IsZero(y) THEN Clear ELSE IF IsNegative(x) # IsNegative(y) THEN Neg(q) ELSE q

SMod(x, y) ==
    LET r == Mod(absOf(x), absOf(y))
    IN  IF IsZero(y) THEN Clear ELSE IF IsNegative(x) THEN Neg(r) ELSE r

AddMod(x, y, m) ==
    LET xr == Mod(x, m)
        yr == Mod(y, m)
        sum == Add(xr, yr)
    IN  IF IsZero(m) THEN Clear
        ELSE IF AddOverflow(xr, yr) \/ Cmp(sum, m) >= 0 THEN Sub(sum, m) ELSE sum

\* The product is reduced bit by bit from the top, down to bit i.
RECURSIVE Reduce(_, _, _)
Reduce(p, m, i) ==
    IF i = Len(p) * LimbBits THEN Clear
    ELSE LET rem == Reduce(p, m, i + 1)
             next == [Lsh(rem, 1) EXCEPT ![1] = @ + ((p[i \div LimbBits + 1] \div 2^(i % LimbBits)) % 2)]
         IN  IF IsNegative(rem) \/ Cmp(next, m) >= 0 THEN Sub(next, m) ELSE next

MulMod(x, y, m) == IF IsZero(m) THEN Clear ELSE Reduce(umul(x, y), m, 0)

\* Square and multiply, after the lowest i bits of the exponent.
RECURSIVE SquareMultiply(_, _, _)
SquareMultiply(base, exponent, i) ==
    IF i = 0 THEN [b |-> base, result |-> SetUint64(1)]
    ELSE LET s == SquareMultiply(base, exponent, i - 1)
         IN  IF IsZero(s.b) /\ IsZero(s.result) THEN s     \* as they remain
             ELSE
             [b |-> Mul(s.b, s.b),
              result |-> IF Bit(exponent, i - 1) = 1 THEN Mul(s.result, s.b) ELSE s.result]

Exp(base, exponent) == SquareMultiply(base, exponent, BitLen(exponent)).result
-----------------------------------------------------------------------------
\* Bytes32: the bytes from the most significant; SetBytes reads the last NBytes of b,
\* the position from the right telling the limb and the shift.
Bytes32(z) ==
    [k \in 1..NBytes |-> LET pos == (NBytes - k) * ByteBits
                         IN  (z[pos \div LimbBits + 1] \div 2^(pos % LimbBits)) % 2^ByteBits]

RECURSIVE FromBytes(_, _, _)
FromBytes(b, pos, z) ==
    LET perLimb == LimbBits \div ByteBits
    IN  IF pos = Len(b) \/ pos = NBytes THEN z
        ELSE FromBytes(b, pos + 1,
                 [z EXCEPT ![pos \div perLimb + 1] =
                     @ + (b[Len(b) - pos] * 2^(ByteBits * (pos % perLimb)))])

SetBytes(b) == FromBytes(b, 0, Clear)

Byte(x, n) == IF ~IsUint64(n) \/ n[1] >= NBytes THEN Clear ELSE SetUint64(Bytes32(x)[n[1] + 1])

SignExtend(n, x) ==
    LET signBit == n[1] * ByteBits + ByteBits - 1
        mask == Lsh(SetAllOnes, signBit + 1)
    IN  IF ~IsUint64(n) \/ n[1] >= NBytes - 1 THEN x
        ELSE IF Bit(x, signBit) = 1 THEN OrBits(x, mask) ELSE AndBits(x, NotBits(mask))
=============================================================================
