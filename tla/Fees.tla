------------------------------- MODULE Fees --------------------------------
(***************************************************************************)
(* How the gas limit and the base fee of a chain move from block to block  *)
(* (processor/processor.go), with the blocks a builder makes and the ones  *)
(* verifyBlock lets in from others.                                        *)
(***************************************************************************)
EXTENDS Integers

CONSTANTS
    ElasticityMultiplier, BaseFeeChangeDenominator, MinBaseFee,
    GasLimitBoundDivisor, MinGasLimit,
    GenesisLimits, GenesisFees,     \* what a genesis file may ask for
    MaxHeight

VARIABLES height, tip               \* the newest header of one branch

feeVars == <<height, tip>>

Target(parent) == parent.limit \div ElasticityMultiplier

\* Variant with a fault: neither the least rise nor the floor.
CalcBaseFeeUnfloored(parent) ==
    LET target == Target(parent)
        Change(delta) == ((parent.fee * delta) \div target) \div BaseFeeChangeDenominator
    IN  IF parent.used > target THEN parent.fee + Change(parent.used - target)
        ELSE parent.fee - Change(target - parent.used)

CalcBaseFee(parent) ==
    LET target == Target(parent)
        Change(delta) == ((parent.fee * delta) \div target) \div BaseFeeChangeDenominator
        AtLeast(n, floor) == IF n < floor THEN floor ELSE n
    IN  IF parent.fee = 0 THEN MinBaseFee
        ELSE IF target = 0 \/ parent.used = target THEN parent.fee
        ELSE IF parent.used > target THEN parent.fee + AtLeast(Change(parent.used - target), 1)
        ELSE AtLeast(parent.fee - Change(target - parent.used), MinBaseFee)

VerifyGasLimit(parentLimit, limit) ==
    /\ limit >= MinGasLimit
    /\ limit - parentLimit < parentLimit \div GasLimitBoundDivisor
    /\ parentLimit - limit < parentLimit \div GasLimitBoundDivisor

VerifyBaseFee(new, parent) == new.fee = CalcBaseFee(parent)

\* The part of verifyBlock that is about fees.
Accepted(new, parent) ==
    /\ new.used <= new.limit
    /\ VerifyGasLimit(parent.limit, new.limit)
    /\ VerifyBaseFee(new, parent)

FeesInit ==
    /\ height = 0
    /\ tip \in [limit : GenesisLimits, used : {0}, fee : GenesisFees]

\* Gas used: nothing, around the target, or all of it.
Fills(limit) == {0, limit \div ElasticityMultiplier, (limit \div ElasticityMultiplier) + 1, limit}

\* BuildBlock keeps its parent's limit.
BuiltOn(parent, used) == [limit |-> parent.limit, used |-> used, fee |-> CalcBaseFee(parent)]

BuildNext ==
    /\ height < MaxHeight
    /\ \E used \in Fills(tip.limit) :
          /\ Accepted(BuiltOn(tip, used), tip)
          /\ tip' = BuiltOn(tip, used)
    /\ height' = height + 1

\* A block of another implementation, whose limit drifts.
ImportNext ==
    /\ height < MaxHeight
    /\ \E limit \in 0..(2 * tip.limit) : \E used \in Fills(limit) :
          LET new == [limit |-> limit, used |-> used, fee |-> CalcBaseFee(tip)]
          IN  Accepted(new, tip) /\ tip' = new
    /\ height' = height + 1

FeesNext == BuildNext \/ ImportNext
-----------------------------------------------------------------------------
(* Wherever accepted blocks let the limit and the fee drift to, a node of  *)
(* this code can build on: the block it makes passes its own verifyBlock.  *)
BuilderIsAccepted ==
    \A used \in Fills(tip.limit) : Accepted(BuiltOn(tip, used), tip)

(* The fee answers demand: a block over its target makes the next one      *)
(* dearer, whatever the rounding, and no other does; an idle chain settles *)
(* on the floor and never under it; and one block moves the fee by no more *)
(* than its share of the denominator, or by one.                           *)
FeeFollowsDemand ==
    [][LET was == tip.fee
           is == tip'.fee
           over == tip.used - Target(tip)
           span == IF over > Target(tip) THEN over ELSE Target(tip)
       IN  was > 0 =>
             /\ over > 0 => is > was
             /\ was >= MinBaseFee /\ over <= 0 => is <= was
             /\ is < was => is >= MinBaseFee
             /\ was >= MinBaseFee /\ is - was > 1 =>
                  (is - was) * Target(tip) * BaseFeeChangeDenominator <= was * span
             /\ (was - is) * BaseFeeChangeDenominator <= was]_feeVars

(* Both together, over every chain of blocks that verifyBlock accepts.     *)
FeesAreRegular == []BuilderIsAccepted /\ FeeFollowsDemand
=============================================================================
