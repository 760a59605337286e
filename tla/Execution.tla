----------------------------- MODULE Execution -----------------------------
(***************************************************************************)
(* Transactions of a block (processor/transition.go, the transaction loop  *)
(* of processor.Process and miner.BuildBlock): gas is bought, the EVM or   *)
(* the staking contract runs, gas is refunded, the proposer is paid, the   *)
(* state is finalised for the next transaction and committed with the      *)
(* block.  The transactions a block is built from passed the pool, which   *)
(* refuses one that cannot pay its intrinsic gas (txpool.validate).        *)
(***************************************************************************)
EXTENDS Evm

CONSTANTS
    Candidates,      \* lists of transactions: records from, to (None for a
                     \* creation), nonce, value, gas, feeCap, tip
    Coinbase, StakingAddress, BaseFee, GasLimit,
    Genesis          \* the accounts of the first block's state

VARIABLES
    accounts,        \* what the state trie of the last block holds
    tx,              \* the transaction being applied, None between two
    gasPool, usedGas,
    todo,            \* the transactions not tried yet
    blocks,          \* blocks tried
    burned,          \* base fees burned in this block
    destroyed        \* some account self-destructed in this block

vars == <<evmVars, accounts, tx, gasPool, usedGas, todo, blocks, burned, destroyed>>

TxGas == 21000
TxGasContractCreation == 53000
RefundQuotient == 5
GasExit == 30000
GasDeposit == 60000

\* IntrinsicGas, of a transaction without data or access list.
IntrinsicGas(t) == IF t.to = None THEN TxGasContractCreation ELSE TxGas

\* MessageFromTx: what a unit of gas costs the sender.
Price(t) == Min({t.feeCap, BaseFee + t.tip})

Worth(d) == MapThenSumSet(LAMBDA a : GetBalance(d, a), Addresses)

Init ==
    /\ accounts = Genesis
    /\ db = OpenState(Genesis)
    /\ frames = <<>> /\ left = None /\ failed = FALSE /\ ops = 0
    /\ tx = None
    /\ gasPool = GasLimit /\ usedGas = 0
    /\ todo \in Candidates /\ blocks = 0
    /\ burned = 0 /\ destroyed = FALSE
-----------------------------------------------------------------------------
\* preCheck and buyGas, as the guard of a transaction that is applied.
Applicable(t) ==
    /\ GetNonce(db, t.from) = t.nonce
    /\ GetCode(db, t.from) = 0
    /\ t.feeCap >= BaseFee
    /\ GetBalance(db, t.from) >= t.gas * t.feeCap + t.value
    /\ gasPool >= t.gas

\* The builder leaves out a transaction that cannot be applied: its snapshot is
\* reverted, and with it nothing.
Skip ==
    /\ tx = None /\ todo # <<>> /\ ~Applicable(Head(todo))
    /\ todo' = Tail(todo)
    /\ db' = RevertToSnapshot(Snapshot(db), SnapshotID(db))
    /\ UNCHANGED <<frames, left, failed, ops, accounts, tx, gasPool, usedGas, blocks, burned, destroyed>>

\* runStakingCall: the value moves to the staking account, the operation then
\* fails or writes the registry, and a failure is undone but charged for.
RunStakingCall(t, d, gas) ==
    LET n == SetNonce(d, t.from, GetNonce(d, t.from) + 1)
        s == Transfer(Snapshot(n), t.from, StakingAddress, t.value)
    IN  \E k \in Keys, cost \in {GasExit, GasDeposit} :
          LET done == SetState(s, StakingAddress, k, 1)
              undone == RevertToSnapshot(done, SnapshotID(n))
          IN  IF gas < cost THEN Deliver(<<>>, undone, 0, FALSE)
              ELSE \/ Deliver(<<>>, done, gas - cost, TRUE)
                   \/ Deliver(<<>>, undone, gas - cost, FALSE)

\* StateTransition.run, up to the outermost frame.
Begin ==
    /\ tx = None /\ todo # <<>> /\ Applicable(Head(todo))
    /\ todo' = Tail(todo)
    /\ LET t == Head(todo)
           gas == t.gas - IntrinsicGas(t)
           bought == SubBalance(Snapshot(db), t.from, t.gas * t.feeCap)
           d == Prepare(bought, {t.from, Coinbase} \cup Precompiles
                                \cup (IF t.to = None THEN {} ELSE {t.to}))
       IN  IF t.to = StakingAddress THEN RunStakingCall(t, d, gas)
           ELSE IF t.to = None THEN \E a \in Deployments : Create(<<>>, d, t.from, a, t.value, gas)
           ELSE Call(<<>>, SetNonce(d, t.from, GetNonce(d, t.from) + 1), t.from, t.to, t.value, gas)
    /\ tx' = Head(todo)
    /\ gasPool' = gasPool - Head(todo).gas
    /\ UNCHANGED <<accounts, ops, usedGas, blocks, burned, destroyed>>

Execute ==
    /\ Step
    /\ UNCHANGED <<accounts, tx, gasPool, usedGas, todo, blocks, burned, destroyed>>

\* The storage refund, at most a fifth of the gas used.
Refund(used) == Min({db.refund, used \div RefundQuotient})

\* refundGas, payProposer and Finalise.
Finished == left # None
FinishTx ==
    /\ Finished
    /\ LET gas == left + Refund(tx.gas - left)
           used == tx.gas - gas
           d1 == AddBalance(db, tx.from, gas * tx.feeCap)
           d2 == AddBalance(d1, Coinbase, used * Max({0, Price(tx) - BaseFee}))
           d3 == AddBalance(d2, tx.from, used * Max({0, tx.feeCap - Price(tx)}))
       IN  /\ db' = Finalise(d3)
           /\ gasPool' = gasPool + gas
           /\ usedGas' = usedGas + used
           /\ burned' = burned + used * BaseFee
           /\ destroyed' = (destroyed \/ Destructed(d3) # {})
    /\ tx' = None /\ left' = None /\ failed' = FALSE
    /\ UNCHANGED <<frames, ops, accounts, todo, blocks>>

\* Commit(true): fails, and with it the block, once a refund has underflowed.
CommitBlock ==
    /\ tx = None /\ usedGas > 0
    /\ accounts' = IF db.err THEN accounts ELSE CommitTo(Finalise(db), accounts)
    /\ db' = OpenState(accounts')
    /\ gasPool' = GasLimit /\ usedGas' = 0
    /\ blocks' = blocks + 1
    /\ burned' = 0 /\ destroyed' = FALSE
    /\ UNCHANGED <<frames, left, failed, ops, tx, todo>>

Next == Skip \/ Begin \/ Execute \/ FinishTx \/ CommitBlock

Spec == Init /\ [][Next]_vars
-----------------------------------------------------------------------------
AccountType == [balance : Nat, nonce : Nat, code : {0, 1}, storage : [Keys -> Values]]

\* Balances stay natural numbers (SubBalance never takes what is not there),
\* the stack of frames never exceeds the depth limit by more than the frame
\* that finds it reached, and what is refunded fits the block's gas.
TypeOK ==
    /\ \A a \in Addresses : Account(db, a) \in AccountType \cup {None}
    /\ depth <= MaxCallDepth + 1
    /\ \A i \in 1..depth : frames[i].gas \in Nat
    /\ left \in Nat \cup {None}
    /\ db.refund \in Nat
    /\ gasPool \in 0..GasLimit /\ usedGas \in 0..GasLimit
    /\ tx = None => gasPool + usedGas = GasLimit

\* journal, Snapshot, RevertToSnapshot: at every moment, for every frame that is
\* still running, reverting to its snapshot would give back exactly the state
\* the frame was entered in: accounts, storage, transient storage, refund, logs
\* and the access list.
FailureLeavesNoTrace ==
    \A i \in 1..depth :
        /\ frames[i].snap \in 1..Len(db.revisions)
        /\ View(RevertToSnapshot(db, frames[i].snap)) = frames[i].before

Persistent(v) ==
    [accounts |-> [a \in Addresses |->
                     IF v.accounts[a] # None /\ Blank(v.accounts[a]) THEN None ELSE v.accounts[a]],
     destructed |-> v.destructed, refund |-> v.refund, logs |-> v.logs, transient |-> v.transient]

\* StaticCall, "code that is forbidden from modifying state": for as long as a
\* static frame runs, in whatever frames it enters, no account that survives
\* the transaction, no log, no refund and no transient slot changes.
StaticChangesNothing ==
    \A i \in 1..depth : frames[i].static => Persistent(View(db)) = Persistent(frames[i].before)

\* A transaction of the block uses up its nonce whatever becomes of it, so that
\* it cannot be applied twice: a failed creation included.
NonceIsUsed == Finished => GetNonce(db, tx.from) = tx.nonce + 1

\* refundGas and payProposer: what the balances lose over the transactions of a
\* block is the base fee of the gas used; self-destruction may lose more.
ValueIsConserved ==
    tx = None => LET lost == Worth(OpenState(accounts)) - (Worth(db) + burned)
                 IN  lost >= 0 /\ (~destroyed => lost = 0)

\* Commit: the state a node opens at the new root answers like the state the
\* block was executed in.
CommitKeepsState ==
    [][blocks' # blocks /\ ~db.err => Accounts(db') = Accounts(Finalise(db))]_vars

\* What a transaction leaves behind, whatever became of it: its nonce is used and
\* its fees are where they belong; and the commit writes all of it.
TransactionsSettle == [](NonceIsUsed /\ ValueIsConserved) /\ CommitKeepsState

GasLeft == IF Finished THEN left ELSE MapThenSumSet(LAMBDA i : frames[i].gas, 1..depth)

\* callGas, the stipend and RefundGas: no instruction leaves more gas with the
\* frames than there was, so that a transaction cannot outlast its gas limit.
GasNeverGrows == [][frames # <<>> => GasLeft' <= GasLeft]_vars

\* GetCommittedState: "a slot's value as of the start of the transaction".
CommittedIsTxStart ==
    frames # <<>> =>
        \A a \in Addresses, k \in Keys :
            LET start == frames[1].before.accounts[a]
            IN  start # None /\ Exist(db, a)
                    => GetCommittedState(db, a, k) = start.storage[k]

=============================================================================
