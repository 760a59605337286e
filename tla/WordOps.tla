------------------------------ MODULE WordOps ------------------------------
(***************************************************************************)
(* The instructions of Interpreter.execute that compute a word from the    *)
(* top of the stack, over the limbs of module Uint256: which operand is on *)
(* top, how a shift that is too wide ends, and the arithmetic itself,      *)
(* against the integers.                                                   *)
(***************************************************************************)
EXTENDS Integers, Sequences

CONSTANTS
    Limbs, BitsPerLimb, BitsPerByte,   \* the scale: 2^BitsPerLimb > Limbs * BitsPerLimb, as in the code
    Samples,                           \* bound: the words on the stack
    Moduli                             \* bound: the moduli of ADDMOD and MULMOD

U == INSTANCE Uint256 WITH NLimbs <- Limbs, LimbBits <- BitsPerLimb, ByteBits <- BitsPerByte

VARIABLES operands,   \* the words on the stack, the top first
          operator,   \* the instruction executed, "none" before
          result      \* what it leaves

wordVars == <<operands, operator, result>>

Shift(w) == IF U!IsUint64(w) /\ w[1] < U!Bits THEN w[1] ELSE U!Bits

\* execute: x is popped, y below it is overwritten.
Execute2(op, x, y) ==
    CASE op = "ADD" -> U!Add(x, y)   [] op = "SUB" -> U!Sub(x, y)   [] op = "MUL" -> U!Mul(x, y)
      [] op = "DIV" -> U!Div(x, y)   [] op = "MOD" -> U!Mod(x, y)
      [] op = "SDIV" -> U!SDiv(x, y) [] op = "SMOD" -> U!SMod(x, y)
      [] op = "EXP" -> U!Exp(x, y)   [] op = "SIGNEXTEND" -> U!SignExtend(x, y)
      [] op = "LT" -> U!boolToUint(U!Lt(x, y))   [] op = "GT" -> U!boolToUint(U!Gt(x, y))
      [] op = "SLT" -> U!boolToUint(U!SLt(x, y)) [] op = "SGT" -> U!boolToUint(U!SGt(x, y))
      [] op = "EQ" -> U!boolToUint(x = y)        [] op = "ISZERO" -> U!boolToUint(U!IsZero(x))
      [] op = "AND" -> U!AndBits(x, y) [] op = "OR" -> U!OrBits(x, y) [] op = "XOR" -> U!XorBits(x, y)
      [] op = "NOT" -> U!NotBits(x)    [] op = "BYTE" -> U!Byte(y, x)
      [] op = "SHL" -> U!Lsh(y, Shift(x)) [] op = "SHR" -> U!Rsh(y, Shift(x))
      [] op = "SAR" -> U!SRsh(y, Shift(x))
      [] op = "MSTORE" -> U!SetBytes(U!Bytes32(x))     \* and MLOAD of the same offset

Execute3(op, x, y, m) == IF op = "ADDMOD" THEN U!AddMod(x, y, m) ELSE U!MulMod(x, y, m)

Dyadic == {"ADD", "SUB", "MUL", "DIV", "MOD", "SDIV", "SMOD", "EXP", "SIGNEXTEND", "LT", "GT", "SLT",
           "SGT", "EQ", "ISZERO", "AND", "OR", "XOR", "NOT", "BYTE", "SHL", "SHR", "SAR", "MSTORE"}

WordInit == operands \in Samples \X Samples /\ operator = "none" /\ result = U!Clear

Execute ==
    /\ operator = "none"
    /\ \/ operator' \in Dyadic /\ result' = Execute2(operator', operands[1], operands[2])
          /\ UNCHANGED operands
       \/ \E m \in Moduli, op \in {"ADDMOD", "MULMOD"} :
             /\ operator' = op
             /\ operands' = Append(operands, m)
             /\ result' = Execute3(op, operands[1], operands[2], m)
-----------------------------------------------------------------------------
\* Reference: the integer a word stands for, unsigned and signed, and its bits.
Size == 2^U!Bits
RECURSIVE ValFrom(_, _)
ValFrom(w, i) == IF i > Limbs THEN 0 ELSE w[i] + U!Base * ValFrom(w, i + 1)
Val(w) == ValFrom(w, 1)
Signed(v) == IF v >= Size \div 2 THEN v - Size ELSE v
Abs(n) == IF n < 0 THEN -n ELSE n
Position == 0..(U!Bits - 1)
Truth(b) == IF b THEN 1 ELSE 0
BitOf(v, i) == (v \div 2^i) % 2
RECURSIVE OfBits(_, _)
OfBits(b, i) == IF i = U!Bits THEN 0 ELSE b[i] * 2^i + OfBits(b, i + 1)
RECURSIVE Power(_, _)
Power(b, n) ==
    IF n = 0 THEN 1
    ELSE LET half == Power(b, n \div 2)
             square == (half * half) % Size
         IN  IF n % 2 = 0 THEN square ELSE (b * square) % Size

Reference(op, x, y) ==
    CASE op = "ADD" -> x + y [] op = "SUB" -> x - y [] op = "MUL" -> x * y
      [] op = "DIV" -> IF y = 0 THEN 0 ELSE x \div y
      [] op = "MOD" -> IF y = 0 THEN 0 ELSE x % y
      [] op = "SDIV" -> IF y = 0 THEN 0
                        ELSE LET q == Abs(Signed(x)) \div Abs(Signed(y))
                             IN  IF (Signed(x) < 0) # (Signed(y) < 0) THEN -q ELSE q
      [] op = "SMOD" -> IF y = 0 THEN 0
                        ELSE LET r == Abs(Signed(x)) % Abs(Signed(y)) IN IF Signed(x) < 0 THEN -r ELSE r
      [] op = "EXP" -> Power(x, y)
      [] op = "SIGNEXTEND" -> LET sign == BitsPerByte * (x + 1) - 1
                              IN  IF x >= U!NBytes THEN y
                                  ELSE (y % 2^(sign + 1)) - BitOf(y, sign) * 2^(sign + 1)
      [] op = "LT" -> Truth(x < y) [] op = "GT" -> Truth(x > y)
      [] op = "SLT" -> Truth(Signed(x) < Signed(y)) [] op = "SGT" -> Truth(Signed(x) > Signed(y))
      [] op = "EQ" -> Truth(x = y) [] op = "ISZERO" -> Truth(x = 0)
      [] op = "AND" -> OfBits([k \in Position |-> BitOf(x, k) * BitOf(y, k)], 0)
      [] op = "OR" -> OfBits([k \in Position |-> Truth(BitOf(x, k) + BitOf(y, k) > 0)], 0)
      [] op = "XOR" -> OfBits([k \in Position |-> (BitOf(x, k) + BitOf(y, k)) % 2], 0)
      [] op = "NOT" -> Size - 1 - x
      [] op = "BYTE" -> IF x >= U!NBytes THEN 0
                        ELSE (y \div 2^(BitsPerByte * (U!NBytes - 1 - x))) % 2^BitsPerByte
      [] op = "SHL" -> IF x >= U!Bits THEN 0 ELSE y * 2^x
      [] op = "SHR" -> IF x >= U!Bits THEN 0 ELSE y \div 2^x
      [] op = "SAR" -> IF x >= U!Bits THEN IF Signed(y) < 0 THEN -1 ELSE 0 ELSE Signed(y) \div 2^x
      [] op = "MSTORE" -> x
      [] op = "ADDMOD" -> LET m == Val(operands[3]) IN IF m = 0 THEN 0 ELSE (x + y) % m
      [] op = "MULMOD" -> LET m == Val(operands[3]) IN IF m = 0 THEN 0 ELSE (x * y) % m

(* Every instruction computes what the EVM defines, on every pair of the   *)
(* words: carries and borrows between limbs, products at twice the        *)
(* width, divisors of one limb and of more with their top bit set,         *)
(* division by zero, negative operands and shifts past the width.          *)
ArithmeticIsExact ==
    operator # "none" =>
        Val(result) = Reference(operator, Val(operands[1]), Val(operands[2])) % Size
=============================================================================
