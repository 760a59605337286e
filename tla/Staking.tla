------------------------------ MODULE Staking ------------------------------
(***************************************************************************)
(* The validator registry and its epoch transition (staking/lifecycle.go,  *)
(* staking/registry.go, staking/params.go), driven by the transactions of  *)
(* a block (processor/staking.go, processor/transition.go) and by the      *)
(* block that opens an epoch.                                              *)
(*                                                                         *)
(* One chain is followed, one transaction at a time.  The block that opens *)
(* epoch e runs its transactions first, already in epoch e, and then the   *)
(* transition of e: between EnterEpoch and ProcessEpoch the model is       *)
(* inside that block.  A rejected call is reverted and changes nothing     *)
(* here.  Amounts are whole increments of stake; every protocol parameter  *)
(* is a constant.  "left", "now", "before", "lastServed", "offended",      *)
(* "recorded" and "stranded" only remember what happened.                  *)
(***************************************************************************)
EXTENDS Integers, Sequences, FiniteSets, FiniteSetsExt

CONSTANTS
    Addresses, Genesis,                     \* all accounts; the sequence staked at genesis
    MinDeposit, MaxEffectiveBalance, EffectiveBalanceIncrement, EjectionBalance,
    MinActivationDelay, WithdrawalDelay, SlashingWindow, CorrelationPenaltyEpochOffset,
    MinChurnLimit, ChurnLimitQuotient, SlashPenaltyQuotient, CorrelationPenaltyMultiplier,
    BaseRewardFactor, ProposerRewardQuotient, InactivityLeakThreshold, InactivityPenaltyQuotient,
    Amounts, Gifts,                         \* values a deposit, any other staking call may carry
    Depositors, Offenders, Leavers,         \* who may deposit, equivocate, ask to leave
    KeyChoices,                             \* whether a deposit carries an attestation key
    Proposers,                              \* validators that propose in every epoch
    MaxEpoch, MaxBalance, MaxStranded       \* bounds of an instance

ASSUME StakingAssumption ==
    /\ IsFiniteSet(Addresses) /\ Genesis \in Seq(Addresses)
    /\ \A i, j \in DOMAIN Genesis : Genesis[i] = Genesis[j] => i = j
    /\ Depositors \subseteq Addresses
    /\ MaxEpoch \in Nat
    /\ MinActivationDelay \in Nat \ {0} /\ WithdrawalDelay \in Nat \ {0}
    /\ MinChurnLimit \in Nat \ {0} /\ ChurnLimitQuotient \in Nat \ {0}

VARIABLES
    registry,      \* the validators in index order
    account,       \* the balance of the staking account
    epochState,    \* EpochState: last, final, exitEpoch, exitCount
    slashedStake,  \* the ring of SlashingWindow tallies
    epoch,         \* the epoch of the block being executed
    now, before,   \* the sets that govern this epoch and the one before it
    lastServed,    \* the last epoch an address was in the set of by its own record, or -1
    left,          \* how an address came to leave: "no", "asked" or "ejected"
    offended,      \* addresses that signed two votes for one height
    recorded,      \* the stake tallied when an address was slashed
    stranded       \* value that came with calls that credit nobody

vars == <<registry, account, epochState, slashedStake, epoch, now, before, lastServed, left,
          offended, recorded, stranded>>
ghosts == <<now, before, lastServed>>

FarFutureEpoch == MaxEpoch + WithdrawalDelay + MaxEpoch + 2

Statuses == {"pending", "active", "exiting", "exited", "slashed", "withdrawn"}

Lesser(a, b) == IF a < b THEN a ELSE b

(* computeEffectiveBalance; Get recomputes it from the balance on every load. *)
computeEffectiveBalance(balance) ==
    IF balance >= MaxEffectiveBalance
    THEN MaxEffectiveBalance
    ELSE (balance \div EffectiveBalanceIncrement) * EffectiveBalanceIncrement

Effective(v) == computeEffectiveBalance(v.balance)

ChurnLimit(count) ==
    IF count \div ChurnLimitQuotient < MinChurnLimit
    THEN MinChurnLimit
    ELSE count \div ChurnLimitQuotient

(* Validator.IsActiveAt *)
IsActiveAt(v, e) ==
    \/ v.status = "active" /\ e >= v.activation
    \/ v.status = "exiting" /\ e >= v.activation /\ e < v.exit

(* ActiveAt, as indices; TotalActiveStake; IndexOf, as a set. *)
ActiveAt(r, e) == {i \in DOMAIN r : IsActiveAt(r[i], e)}
TotalActiveStake(r, e) == MapThenSumSet(LAMBDA i : Effective(r[i]), ActiveAt(r, e))
IndexOf(a) == {i \in DOMAIN registry : registry[i].addr = a}

(* ValidatorsAt for epoch e, read from the state the previous epoch ended in. *)
ValidatorsAt(r, e) ==
    IF ActiveAt(r, e) = {}
    THEN {Genesis[i] : i \in DOMAIN Genesis}
    ELSE {r[i].addr : i \in ActiveAt(r, e)}

NewValidator(a, amount, key) ==
    [addr |-> a, key |-> key, balance |-> amount, status |-> "pending",
     activation |-> FarFutureEpoch, exit |-> FarFutureEpoch,
     withdrawable |-> FarFutureEpoch, slashed |-> 0]

(* Genesis validators are staked and active from the first block. *)
GenesisValidator(a) ==
    [NewValidator(a, MinDeposit, TRUE) EXCEPT !.status = "active", !.activation = 0]

Init ==
    /\ registry = [i \in DOMAIN Genesis |-> GenesisValidator(Genesis[i])]
    /\ account = Len(Genesis) * MinDeposit
    /\ epochState = [last |-> 0, final |-> 0, exitEpoch |-> 0, exitCount |-> 0]
    /\ slashedStake = [s \in 0..(SlashingWindow - 1) |-> 0]
    /\ epoch = 0
    /\ now = {Genesis[i] : i \in DOMAIN Genesis}
    /\ before = {}
    /\ lastServed = [a \in Addresses |-> IF \E i \in DOMAIN Genesis : Genesis[i] = a THEN 0 ELSE -1]
    /\ left = [a \in Addresses |-> "no"]
    /\ offended = {}
    /\ recorded = [a \in Addresses |-> 0]
    /\ stranded = 0

-----------------------------------------------------------------------------
(* Transactions to the staking account: runStakingCall, applyStakingCall. *)

(* The value of a call that is not a deposit stays in the account. *)
Keep(value) == stranded + value <= MaxStranded /\ stranded' = stranded + value

(* DepositWithKey and Deposit.  Only a first key is recorded. *)
Deposit(a, amount, withKey) ==
    /\ \/ \E i \in IndexOf(a) :
            /\ registry[i].status \notin {"exited", "slashed", "withdrawn"}
            /\ registry[i].balance + amount <= MaxBalance
            /\ registry' = [registry EXCEPT ![i].balance = @ + amount,
                                            ![i].key = @ \/ withKey]
       \/ /\ IndexOf(a) = {}
          /\ amount >= MinDeposit
          /\ registry' = Append(registry, NewValidator(a, amount, withKey))
    /\ account' = account + amount
    /\ UNCHANGED <<epochState, slashedStake, epoch, ghosts, left, offended, recorded, stranded>>

\* Variant with a fault: an exit may be given the running epoch.
ScheduleExitNow(es, e, limit, k) ==
    LET fresh == es.exitEpoch < e
        from  == IF fresh THEN e ELSE es.exitEpoch
        ahead == (IF fresh THEN 0 ELSE Lesser(es.exitCount, limit)) + k - 1
    IN  [es EXCEPT !.exitEpoch = from + (ahead \div limit), !.exitCount = (ahead % limit) + 1]

\* Variant with a fault: the queue is never counted as full.
ScheduleExitUncounted(es, e, limit, k) ==
    [es EXCEPT !.exitEpoch = IF @ < e + MinActivationDelay THEN e + MinActivationDelay ELSE @]

(* scheduleExit, called k times in a row: the bookkeeping after the k-th call, *)
(* whose exitEpoch is the epoch that call returns.                             *)
ScheduleExit(es, e, limit, k) ==
    LET earliest == e + MinActivationDelay
        fresh    == es.exitEpoch < earliest
        from     == IF fresh THEN earliest ELSE es.exitEpoch
        ahead    == (IF fresh THEN 0 ELSE Lesser(es.exitCount, limit)) + k - 1
    IN  [es EXCEPT !.exitEpoch = from + (ahead \div limit), !.exitCount = (ahead % limit) + 1]

\* Variant with a fault: the delay runs from the request.
LeavingSinceRequest(v, e, exit) ==
    [v EXCEPT !.status = "exiting", !.exit = exit, !.withdrawable = e + WithdrawalDelay]

(* RequestExit, an active validator given its exit epoch. *)
Leaving(v, e, exit) ==
    [v EXCEPT !.status = "exiting", !.exit = exit, !.withdrawable = exit + WithdrawalDelay]

(* RequestExit by transaction. *)
RequestExit(a, value) ==
    /\ \E i \in IndexOf(a) :
         \/ /\ registry[i].status = "pending"
            /\ registry' = [registry EXCEPT ![i].status = "exited", ![i].exit = epoch,
                                            ![i].withdrawable = epoch + WithdrawalDelay]
            /\ UNCHANGED <<epochState, left>>
         \/ /\ registry[i].status = "active"
            /\ epochState' = ScheduleExit(epochState, epoch,
                                          ChurnLimit(Cardinality(ActiveAt(registry, epoch))), 1)
            /\ registry' = [registry EXCEPT ![i] = Leaving(@, epoch, epochState'.exitEpoch)]
            /\ left' = [left EXCEPT ![a] = "asked"]
    /\ account' = account + value
    /\ Keep(value)
    /\ UNCHANGED <<slashedStake, epoch, ghosts, offended, recorded>>

(* A member of the running set signs two votes for one height; the evidence *)
(* never expires.                                                           *)
Equivocate(a) ==
    /\ a \in now \ offended
    /\ \E i \in IndexOf(a) : registry[i].key
    /\ offended' = offended \cup {a}
    /\ UNCHANGED <<registry, account, epochState, slashedStake, epoch, ghosts, left, recorded, stranded>>

(* The statuses Slash accepts. *)
Slashable(v) == v.status \notin {"slashed", "exited", "withdrawn"}

(* The immediate penalty, a share of the effective balance. *)
SlashPenalty(v) == Lesser(Effective(v) \div SlashPenaltyQuotient, v.balance)

\* Variant with a fault: the account keeps what the offender loses.
SlashKeepsBurned(a, value) ==
    /\ a \in offended
    /\ \E i \in IndexOf(a) :
         /\ Slashable(registry[i])
         /\ registry' = [registry EXCEPT ![i].balance = @ - SlashPenalty(registry[i]),
                                         ![i].status = "slashed", ![i].slashed = epoch,
                                         ![i].exit = epoch,
                                         ![i].withdrawable = epoch + WithdrawalDelay]
         /\ slashedStake' = [slashedStake EXCEPT ![epoch % SlashingWindow] = @ + Effective(registry'[i])]
         /\ recorded' = [recorded EXCEPT ![a] = Effective(registry'[i])]
         /\ account' = account + value
    /\ left' = [left EXCEPT ![a] = "no"]
    /\ Keep(value)
    /\ UNCHANGED <<epochState, epoch, ghosts, offended>>

(* OpSlash: evidence against a, with a's registered key, then Slash. *)
Slash(a, value) ==
    /\ a \in offended
    /\ \E i \in IndexOf(a) :
         /\ Slashable(registry[i])
         /\ registry' = [registry EXCEPT ![i].balance = @ - SlashPenalty(registry[i]),
                                         ![i].status = "slashed", ![i].slashed = epoch,
                                         ![i].exit = epoch,
                                         ![i].withdrawable = epoch + WithdrawalDelay]
         /\ slashedStake' = [slashedStake EXCEPT ![epoch % SlashingWindow] = @ + Effective(registry'[i])]
         /\ recorded' = [recorded EXCEPT ![a] = Effective(registry'[i])]
         /\ account' = account + value - SlashPenalty(registry[i])
    /\ left' = [left EXCEPT ![a] = "no"]
    /\ Keep(value)
    /\ UNCHANGED <<epochState, epoch, ghosts, offended>>

Withdraw(a, value) ==
    /\ \E i \in IndexOf(a) :
         /\ registry[i].status \in {"exited", "slashed"}
         /\ epoch >= registry[i].withdrawable
         /\ registry' = [registry EXCEPT ![i].balance = 0, ![i].status = "withdrawn"]
         /\ account' = account + value - registry[i].balance
    /\ Keep(value)
    /\ UNCHANGED <<epochState, slashedStake, epoch, ghosts, left, offended, recorded>>

-----------------------------------------------------------------------------
(* The epoch transition: ProcessEpochBoundary and ProcessEpoch. *)

(* 1. Exits whose epoch has arrived. *)
FinishExits(r, e) ==
    [i \in DOMAIN r |-> IF r[i].status = "exiting" /\ e >= r[i].exit
                        THEN [r[i] EXCEPT !.status = "exited"]
                        ELSE r[i]]

Sqrt(n) == CHOOSE k \in 0..n : k * k <= n /\ (k + 1) * (k + 1) > n

baseReward(effective, total) ==
    IF total <= 0 THEN 0 ELSE ((effective * BaseRewardFactor) \div Sqrt(total)) \div 4

(* 2. What an active validator gains when it attested, and otherwise loses, *)
(* "total" being the active stake.  "part" says who attested and how many   *)
(* blocks each proposed.                                                    *)
Reward(v, e, part, total) ==
    LET base == baseReward(Effective(v), total)
    IN  IF IsActiveAt(v, e) /\ v.addr \in part.attested
        THEN base + (base \div ProposerRewardQuotient) * part.proposed[v.addr]
        ELSE 0

Absence(v, e, part, finalizedEpoch, total) ==
    LET delay == IF e > finalizedEpoch THEN e - finalizedEpoch ELSE 0
        leak  == IF delay > InactivityLeakThreshold
                 THEN (Effective(v) * delay) \div InactivityPenaltyQuotient
                 ELSE 0
    IN  IF total > 0 /\ IsActiveAt(v, e) /\ v.addr \notin part.attested
        THEN Lesser(baseReward(Effective(v), total) + leak, v.balance)
        ELSE 0

(* CorrelatedSlashedStake: the tallies of epochs e - SlashingWindow to e. *)
CorrelatedSlashedStake(e) ==
    MapThenSumSet(LAMBDA d : slashedStake[d % SlashingWindow],
                  (IF e > SlashingWindow THEN e - SlashingWindow ELSE 0)..e)

(* 3. applyCorrelationPenalties, for a validator whose offence falls due. *)
CorrelationPenalty(v, e, total) ==
    LET scaled == Lesser(Lesser(CorrelatedSlashedStake(e), total) * CorrelationPenaltyMultiplier, total)
    IN  IF total > 0 /\ v.status = "slashed" /\ v.slashed + CorrelationPenaltyEpochOffset = e
        THEN Lesser((Effective(v) * scaled) \div total, v.balance)
        ELSE 0

(* 4. Active validators below the ejection balance leave through the queue. *)
Ejected(r, active) == {i \in active : r[i].status = "active" /\ r[i].balance < EjectionBalance}

Eject(r, e, active) ==
    LET out   == Ejected(r, active)
        limit == ChurnLimit(Cardinality(ActiveAt(r, e)))
        Rank(i) == Cardinality({j \in out : j <= i})
    IN  [i \in DOMAIN r |->
            IF i \in out
            THEN Leaving(r[i], e, ScheduleExit(epochState, e, limit, Rank(i)).exitEpoch)
            ELSE r[i]]

(* 5. Pending deposits, oldest first, up to the churn limit. *)
Activate(r, e) ==
    LET pending == {i \in DOMAIN r : r[i].status = "pending" /\ r[i].balance >= MinDeposit}
        limit   == ChurnLimit(Cardinality(ActiveAt(r, e)))
    IN  [i \in DOMAIN r |->
            IF i \in pending /\ Cardinality({j \in pending : j < i}) < limit
            THEN [r[i] EXCEPT !.status = "active", !.activation = e + MinActivationDelay]
            ELSE r[i]]

Processed == epoch = 0 \/ epochState.last = epoch

\* Variant with a fault: the tally just recorded is cleared.
TalliesAfterSame(e) == [slashedStake EXCEPT ![e % SlashingWindow] = 0]

(* ResetSlashedStake(epoch + 1) *)
TalliesAfter(e) == [slashedStake EXCEPT ![(e + 1) % SlashingWindow] = 0]

(* The record saved at the end is the one loaded at the start, so what the *)
(* ejections did to the exit queue is overwritten.                         *)
ProcessEpoch(part, finalizedEpoch) ==
    LET r1      == FinishExits(registry, epoch)
        total1  == TotalActiveStake(r1, epoch)
        gain    == [i \in DOMAIN r1 |-> Reward(r1[i], epoch, part, total1)]
        loss    == [i \in DOMAIN r1 |-> Absence(r1[i], epoch, part, finalizedEpoch, total1)]
        r2      == [i \in DOMAIN r1 |-> [r1[i] EXCEPT !.balance = @ + gain[i] - loss[i]]]
        total2  == TotalActiveStake(r2, epoch)
        charge  == [i \in DOMAIN r2 |-> CorrelationPenalty(r2[i], epoch, total2)]
        r3      == [i \in DOMAIN r2 |-> [r2[i] EXCEPT !.balance = @ - charge[i]]]
        active  == ActiveAt(r1, epoch)
        issued  == MapThenSumSet(LAMBDA i : gain[i], DOMAIN gain)
        burned  == MapThenSumSet(LAMBDA i : loss[i] + charge[i], DOMAIN loss)
    IN  /\ ~Processed
        /\ registry' = Activate(Eject(r3, epoch, active), epoch)
        /\ account' = account + issued - burned
        /\ slashedStake' = TalliesAfter(epoch)
        /\ epochState' = [epochState EXCEPT !.last = epoch, !.final = finalizedEpoch]
        /\ left' = [a \in Addresses |->
                      IF \E i \in Ejected(r3, active) : r3[i].addr = a
                      THEN "ejected" ELSE left[a]]
        /\ UNCHANGED <<epoch, ghosts, offended, recorded, stranded>>

(* The first block of the next epoch: its set was settled by the last state *)
(* of this one.                                                             *)
EnterEpoch ==
    /\ Processed
    /\ epoch < MaxEpoch
    /\ epoch' = epoch + 1
    /\ before' = now
    /\ now' = ValidatorsAt(registry, epoch + 1)
    /\ lastServed' = [a \in Addresses |->
                        IF \E i \in IndexOf(a) : IsActiveAt(registry[i], epoch + 1)
                        THEN epoch + 1 ELSE lastServed[a]]
    /\ UNCHANGED <<registry, account, epochState, slashedStake, left, offended, recorded, stranded>>

(* EpochParticipation of the epoch that ended: nothing is read for epoch 0, *)
(* and otherwise the epoch's headers held certificates, each with a quorum, *)
(* or none.  A bound: blocks count for a reward only for Proposers, once.   *)
Participations ==
    {[attested |-> s, proposed |-> [a \in Addresses |-> IF a \in Proposers THEN 1 ELSE 0]] :
        s \in {{}} \cup IF epoch = 1 THEN {}
                       ELSE {s \in SUBSET before : Cardinality(s) * 3 > Cardinality(before) * 2}}

Next ==
    \/ \E a \in Depositors, amount \in Amounts, withKey \in KeyChoices : Deposit(a, amount, withKey)
    \/ \E a \in Leavers, value \in Gifts : RequestExit(a, value)
    \/ \E a \in Offenders : Equivocate(a)
    \/ \E a \in Offenders, value \in Gifts : Slash(a, value)
    \/ \E a \in Addresses, value \in Gifts : Withdraw(a, value)
    \/ \E part \in Participations, f \in 0..(epoch - 1) : ProcessEpoch(part, f)
    \/ EnterEpoch

Spec == Init /\ [][Next]_vars

-----------------------------------------------------------------------------

(* The shape of the state; balances never go below zero, so SubBalance in  *)
(* the code never takes the staking account negative.                      *)
TypeOK ==
    /\ registry \in Seq([addr : Addresses, key : BOOLEAN, balance : Nat, status : Statuses,
                         activation : Nat, exit : Nat, withdrawable : Nat, slashed : Nat])
    /\ account \in Nat
    /\ epochState \in [last : Nat, final : Nat, exitEpoch : Nat, exitCount : Nat]
    /\ slashedStake \in [0..(SlashingWindow - 1) -> Nat]
    /\ epoch \in 0..MaxEpoch
    /\ now \subseteq Addresses /\ before \subseteq Addresses
    /\ lastServed \in [Addresses -> -1..MaxEpoch]
    /\ left \in [Addresses -> {"no", "asked", "ejected"}]
    /\ offended \subseteq Addresses
    /\ recorded \in [Addresses -> Nat]
    /\ stranded \in Nat

TotalStaked == MapThenSumSet(LAMBDA i : registry[i].balance, DOMAIN registry)

(* Through deposits, rewards, leaks, both slashing penalties, ejections and *)
(* withdrawals, the staking account holds what the registry says validators *)
(* own, and beyond that only value that came with calls crediting nobody.   *)
AccountCoversRegistry == account = TotalStaked + stranded

(* A member of the running epoch's set can be held to account for it: it is  *)
(* active, serving out its exit, or slashed, never already out and beyond    *)
(* Slash (IsActiveAt: dropping it the moment it asked "would let a validator *)
(* escape responsibility for the epoch it is in").                           *)
MembersAnswerable ==
    \A i \in DOMAIN registry :
        lastServed[registry[i].addr] = epoch
            => registry[i].status \in {"active", "exiting", "slashed"}

(* Stake leaves only WithdrawalDelay epochs after the last epoch whose set *)
(* its owner was in, whichever way the owner left.                         *)
WithdrawalsAreDelayed ==
    [][\A i \in DOMAIN registry :
          registry'[i].status = "withdrawn" /\ registry[i].status # "withdrawn"
              /\ lastServed[registry[i].addr] >= 0
              => epoch >= lastServed[registry[i].addr] + WithdrawalDelay]_vars

LeavingIn(e, ways) ==
    {i \in DOMAIN registry : left[registry[i].addr] \in ways /\ registry[i].exit = e}

(* Exits that validators ask for are spread: no epoch is given more of them *)
(* than the churn limit, ejections and their lost bookkeeping in between.   *)
RequestedExitsAreSpread ==
    \A e \in 0..(2 * MaxEpoch + 1) :
        Cardinality(LeavingIn(e, {"asked"})) <= ChurnLimit(Cardinality(Addresses))

(* Stake slashed in the epochs d to e, as it was tallied. *)
SlashedBetween(d, e) ==
    MapThenSumSet(LAMBDA i : recorded[registry[i].addr],
        {i \in DOMAIN registry : recorded[registry[i].addr] > 0 /\ registry[i].slashed \in d..e})

(* When an epoch is processed, the tally that sizes the correlation penalty *)
(* misses no offence of the window: the ring is never cleared too early.    *)
NoOffenceForgotten ==
    ~Processed => CorrelatedSlashedStake(epoch) >= SlashedBetween(epoch - SlashingWindow + 1, epoch)

=============================================================================
