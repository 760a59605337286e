------------------------------ MODULE PoolNode ------------------------------
(***************************************************************************)
(* The pool between the chain and the block builder of a node: submissions *)
(* (node.HandleTransactions, rpc), imports (node.HandleBlock), own blocks  *)
(* (node.tryPropose, miner.BuildBlock) and the Reset that follows each.    *)
(* The head moves under the chain's lock and Reset runs later under the    *)
(* pool's, so the pool is behind the head in between.                      *)
(*                                                                         *)
(* A block is its path (module BlockTree), its label the transactions it   *)
(* carries.                                                                *)
(***************************************************************************)
EXTENDS BlockTree, TxPool

CONSTANTS
    Txs,            \* the transactions that are submitted
    PeerBlocks,     \* what blocks of other proposers carry
    StartBalance,
    MaxHeight, MaxBlocks,
    None

VARIABLES
    pool,
    head,
    floor,      \* the block last finalized
    known,      \* the blocks the chain has
    resets,     \* inserted blocks whose Reset has not run yet
    seen,       \* the head when Reset last ran
    adding,     \* a transaction that was validated, the pool's lock held
    candidates, \* what Ready gave the builder
    built       \* the block the builder sealed and has not inserted

chainVars == <<head, floor, known, resets>>
poolVars == <<pool, seen, adding, candidates, built>>

GenesisState == [nonce |-> [a \in Accounts |-> 0], balance |-> StartBalance]

\* preCheck and buyGas accept tx; execution then spends what it may cost.
Applies(st, tx) == st.nonce[tx.from] = tx.nonce /\ st.balance[tx.from] >= tx.cost
Apply(st, tx) == [st EXCEPT !.nonce[tx.from] = @ + 1, !.balance[tx.from] = @ - tx.cost]

\* A block's transactions from state st; ok if all of them apply.
Execute(st, txs) ==
    FoldLeft(LAMBDA r, tx : IF r.ok /\ Applies(r.st, tx) /\ r.gas >= tx.gas
                            THEN [ok |-> TRUE, st |-> Apply(r.st, tx), gas |-> r.gas - tx.gas]
                            ELSE [r EXCEPT !.ok = FALSE],
             [ok |-> TRUE, st |-> st, gas |-> GasLimit], txs)

StateAt(b) == FoldLeft(LAMBDA st, txs : Execute(st, txs).st, GenesisState, b)
CurrentState == StateAt(head)

(* BuildBlock goes through the candidates and leaves out what no longer    *)
(* fits or applies.                                                        *)
Included(st, txs) ==
    FoldLeft(LAMBDA r, tx : IF Applies(r.st, tx) /\ r.gas >= tx.gas
                            THEN [st |-> Apply(r.st, tx), gas |-> r.gas - tx.gas, in |-> Append(r.in, tx)]
                            ELSE r,
             [st |-> st, gas |-> GasLimit, in |-> <<>>], txs).in
-----------------------------------------------------------------------------
NodeInit ==
    /\ head = Genesis /\ floor = Genesis /\ known = {Genesis} /\ resets = {}
    /\ pool = EmptyPool /\ seen = Genesis
    /\ adding = None /\ candidates = None /\ built = None

(* addLocked reads the state twice, in validate and again afterwards.      *)
BeginAdd(tx) ==
    /\ adding = None
    /\ tx \notin pool.all /\ Validate(pool, CurrentState, tx)
    /\ adding' = tx
    /\ UNCHANGED <<chainVars, pool, seen, candidates, built>>

FinishAdd ==
    /\ adding # None
    /\ pool' = AddValidated(pool, CurrentState, adding)
    /\ adding' = None
    /\ UNCHANGED <<chainVars, seen, candidates, built>>

(* InsertBlock: nothing that contradicts the floor; the longer chain wins  *)
(* and the incumbent keeps a tie.                                          *)
InsertBlock(b) ==
    /\ b \notin known /\ Parent(b) \in known
    /\ IF Height(b) <= Height(floor) THEN OnBranch(b, head) ELSE OnBranch(floor, b)
    /\ Execute(StateAt(Parent(b)), Last(b)).ok
    /\ known' = known \cup {b}
    /\ head' = IF Height(b) > Height(head) THEN b ELSE head
    /\ resets' = resets \cup {b}
    /\ UNCHANGED floor

HandleBlock(bodies) ==
    /\ Cardinality(known) < MaxBlocks
    /\ \E parent \in known, txs \in bodies : Height(parent) < MaxHeight /\ InsertBlock(Append(parent, txs))
    /\ UNCHANGED poolVars

(* Finalize moves the head to the final block's branch, "whatever the      *)
(* heights say"; no Reset follows.                                         *)
FinalizeBlock(b) ==
    /\ Height(b) > Height(floor) /\ OnBranch(floor, b)
    /\ head' = IF OnBranch(b, head) THEN head ELSE b
    /\ floor' = b
    /\ UNCHANGED <<poolVars, known, resets>>

TakeReady ==
    /\ adding = None /\ candidates = None /\ built = None /\ Ready(pool) # <<>>
    /\ candidates' = Ready(pool)
    /\ UNCHANGED <<chainVars, pool, seen, adding, built>>

(* The head may have moved since; the builder works on the head it finds.  *)
BuildBlock ==
    /\ candidates # None
    /\ built' = Append(head, Included(CurrentState, candidates))
    /\ candidates' = None
    /\ UNCHANGED <<chainVars, pool, seen, adding>>

(* Commit inserts it, on a branch that may no longer be the head's.        *)
Commit ==
    /\ built # None
    /\ \/ Height(built) <= MaxHeight /\ Cardinality(known) < MaxBlocks /\ InsertBlock(built)
       \/ UNCHANGED chainVars   \* refused
    /\ built' = None
    /\ UNCHANGED <<pool, seen, adding, candidates>>

ResetPool(b) ==
    /\ adding = None /\ b \in resets
    /\ pool' = Reset(pool, ToSet(Last(b)), CurrentState)
    /\ resets' = resets \ {b}
    /\ seen' = head
    /\ UNCHANGED <<head, floor, known, adding, candidates, built>>

ChainNext(bodies) == HandleBlock(bodies) \/ \E b \in known : FinalizeBlock(b)

PoolNext ==
    \/ \E tx \in Txs : BeginAdd(tx)
    \/ FinishAdd \/ TakeReady \/ BuildBlock \/ Commit
    \/ \E b \in resets : ResetPool(b)
-----------------------------------------------------------------------------
OneEach(list) == \A s, t \in list : s.nonce = t.nonce => s = t

\* The pool is up to date with the head.
Settled == adding = None /\ resets = {} /\ seen = head

PoolTypeOK ==
    /\ pool.all \subseteq Txs /\ head \in known /\ resets \subseteq known
    /\ \A a \in Accounts : /\ OneEach(Pending(pool, a)) /\ OneEach(pool.queue[a])
                           /\ Cardinality(Pending(pool, a)) <= AccountSlots
                           /\ Cardinality(pool.queue[a]) <= AccountSlots

\* addLocked, promote and Reset move transactions between the lists and the
\* index by hand.  However they interleave, what a list holds can be found by
\* its hash, and an account never has two transactions for one nonce.
ListsAgree ==
    /\ Listed(pool) \subseteq pool.all
    /\ \A a \in Accounts : OneEach(AllFrom(pool, a))

\* Reset's two loops: once the pool has caught up with the head, the pending
\* transactions of an account follow on from its nonce without a gap, the next
\* nonce the pool hands out comes right after them, and nothing that could join
\* them is left in the queue.
SettledIsExecutable ==
    Settled => \A a \in Accounts :
        LET n == CurrentState.nonce[a] + Cardinality(Pending(pool, a)) IN
        /\ \A t \in Pending(pool, a) : t.nonce \in CurrentState.nonce[a]..(n - 1)
        /\ NextNonce(pool, CurrentState, a) = n
        /\ At(pool.queue[a], n) = {}

\* The lists and the index agree through every interleaving of additions,
\* promotions, replacements, imports and reorganisations, and once the pool has
\* caught up with the head its pending transactions can be executed in a row.
PoolIsConsistent == ListsAgree /\ SettledIsExecutable

Lower(t) == t.nonce < CurrentState.nonce[t.from] \/ CurrentState.balance[t.from] < t.cost

\* Reset and addLocked: a transaction leaves the pool only when an inserted
\* block carries it, when the head's state rules it out, when a better paid one
\* takes its nonce, or when the account's pending list is full.
LeavesForCause ==
    [][\A t \in pool.all \ pool'.all :
          \/ \E b \in resets : t \in ToSet(Last(b))
          \/ Lower(t)
          \/ \E o \in pool'.all : o.from = t.from /\ o.nonce = t.nonce /\ PriceBumpSatisfied(t, o)
          \/ Cardinality(Pending(pool', t.from)) = AccountSlots]_<<chainVars, poolVars>>
=============================================================================
