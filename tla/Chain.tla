------------------------------- MODULE Chain -------------------------------
(***************************************************************************)
(* The block store, fork choice and finality floor of one node             *)
(* (chain/blockchain.go, chain/finality.go).                               *)
(*                                                                         *)
(* Every public operation runs under bc.mu from its first read to its last *)
(* write, so each is one action.  A call that returns an error before      *)
(* writing anything is a stuttering step and has no action of its own.     *)
(***************************************************************************)
EXTENDS BlockTree, FiniteSets

CONSTANTS
    Label,          \* what tells apart two blocks sealed on the same parent
    Blocks,         \* the blocks sealed by the network, genesis included
    MaxHeight,      \* no block is higher than this
    Txs,            \* transactions
    None,           \* Go's nil, and an absent record
    TxsOf,          \* TxsOf[b]: the transactions in the body of b
    Justification,  \* Justification[b]: the block whose certificate the header of b carries
    Certified,      \* the blocks a quorum of the validator set signed for
    BadHeader,      \* blocks the consensus rules refuse
    BadRoot         \* blocks whose roots do not match their execution

Heights == 0..MaxHeight

ASSUME ConstantsAssumption ==
    /\ MaxHeight \in Nat
    /\ Blocks \subseteq Seq(Label)
    /\ Genesis \in Blocks
    /\ \A b \in Blocks : Height(b) <= MaxHeight
    /\ \A b \in Blocks : \A n \in 0..Height(b) : Ancestor(b, n) \in Blocks
    /\ None \notin Blocks
    /\ TxsOf \in [Blocks -> SUBSET Txs]
    /\ Justification \in [Blocks -> Blocks \cup {None}]
    /\ Certified \subseteq Blocks \ {Genesis}
    /\ BadHeader \subseteq Blocks
    /\ BadRoot \subseteq Blocks

\* Sender nonces keep a transaction from executing twice on one branch, and
\* nobody sends the genesis block's (empty) body.
ASSUME NonceAssumption ==
    /\ TxsOf[Genesis] = {}
    /\ \A b \in Blocks : \A m, n \in 0..Height(b) :
          m # n => TxsOf[Ancestor(b, m)] \cap TxsOf[Ancestor(b, n)] = {}

VARIABLES
    stored,     \* blocks whose body, header and receipts are in the store
    states,     \* blocks whose post-state can be opened
    canon,      \* the canonical index: height -> block
    lookups,    \* the transaction index: transaction -> block that includes it
    current,    \* bc.current, and the head key of the store
    finalized   \* bc.finalized, and the finalized key of the store

vars == <<stored, states, canon, lookups, current, finalized>>

BlockOrNone == Blocks \cup {None}
-----------------------------------------------------------------------------
(* isDescendantLocked: walk parents from b down to the height of a.        *)
DescendsFrom(b, a, known) ==
    /\ Height(a) <= Height(b)
    /\ \A n \in Height(a)..(Height(b) - 1) : Ancestor(b, n) \in known
    /\ Ancestor(b, Height(a)) = a

(* The part of verifyBlock the chain itself decides: a justification points *)
(* backwards and is a genuine certificate.                                  *)
VerifyBlock(b) ==
    /\ b \notin BadHeader
    /\ Justification[b] # None =>
          Height(Justification[b]) < Height(b) /\ Justification[b] \in Certified

CheckFinality(b) ==
    finalized # None =>
        IF Height(b) <= Height(finalized)
        THEN canon[Height(b)] \in {None, b}
        ELSE DescendsFrom(b, finalized, stored \cup {b})

\* Variant with a fault: the block is not held against the floor.
FinalizeAnyHigher(fin, qc, known) ==
    IF qc # None /\ qc \in known /\ (fin # None => Height(qc) > Height(fin)) THEN qc ELSE fin

(* finalizeLocked: apply the certificate a header carries.                 *)
FinalizeLocked(fin, qc, known) ==
    IF /\ qc # None
       /\ qc \in known
       /\ fin # None => Height(qc) > Height(fin) /\ DescendsFrom(qc, fin, known)
    THEN qc
    ELSE fin

-----------------------------------------------------------------------------
(* reorgTo.  The heights of the blocks that leave and of those that join   *)
(* when the head moves from block "from" to block "to".                    *)
Beyond(b, other) ==
    {n \in 1..Height(b) : n > Height(other) \/ Ancestor(b, n) # Ancestor(other, n)}

(* Both walks read every parent they step to; a missing one is an error.   *)
CanReorg(from, to, known) ==
    /\ \A n \in Beyond(from, to) : Ancestor(from, n - 1) \in known
    /\ \A n \in Beyond(to, from) : Ancestor(to, n - 1) \in known

\* Variant with a fault: entries of the branch that leaves are not deleted.
CanonAfterKeepsStale(from, to) ==
    [n \in Heights |-> IF n \in Beyond(to, from) THEN Ancestor(to, n) ELSE canon[n]]

CanonAfter(from, to) ==
    [n \in Heights |->
        IF n \in Beyond(to, from) THEN Ancestor(to, n)
        ELSE IF n \in Beyond(from, to) THEN None
        ELSE canon[n]]

\* Variant with a fault: the deletions come last.
LookupsDeletedLast(from, to) ==
    [t \in Txs |->
        IF \E n \in Beyond(from, to) : t \in TxsOf[Ancestor(from, n)] THEN None
        ELSE IF \E n \in Beyond(to, from) : t \in TxsOf[Ancestor(to, n)]
             THEN Ancestor(to, CHOOSE n \in Beyond(to, from) : t \in TxsOf[Ancestor(to, n)])
        ELSE lookups[t]]

\* The lookups of the branch that leaves are deleted first, then those of the
\* branch that joins are written, oldest block first.
LookupsAfter(from, to) ==
    [t \in Txs |->
        LET joining == {n \in Beyond(to, from) : t \in TxsOf[Ancestor(to, n)]} IN
        IF joining # {} THEN Ancestor(to, CHOOSE n \in joining : \A m \in joining : m <= n)
        ELSE IF \E n \in Beyond(from, to) : t \in TxsOf[Ancestor(from, n)] THEN None
        ELSE lookups[t]]

ReorgTo(b) ==
    /\ canon' = CanonAfter(current, b)
    /\ lookups' = LookupsAfter(current, b)
    /\ current' = b
-----------------------------------------------------------------------------
(* NewBlockChain on an empty store: Genesis.Commit.                        *)
Init ==
    /\ stored = {Genesis}
    /\ states = {Genesis}
    /\ canon = [n \in Heights |-> IF n = 0 THEN Genesis ELSE None]
    /\ lookups = [t \in Txs |-> None]
    /\ current = Genesis
    /\ finalized = None

\* Variant with a fault: the parent's state is enough.
ExecutableOrphan(b) ==
    /\ b \notin stored /\ b # Genesis
    /\ VerifyBlock(b) /\ CheckFinality(b) /\ Parent(b) \in states

(* insertLocked up to the execution of the block.                          *)
Executable(b) ==
    /\ b \notin stored
    /\ b # Genesis
    /\ Parent(b) \in stored
    /\ VerifyBlock(b)
    /\ CheckFinality(b)
    /\ Parent(b) \in states

(* A block whose roots do not match its execution leaves orphan trie nodes *)
(* behind and nothing else: the call has no effect that is modelled.       *)
InsertBlock(b) ==
    /\ Executable(b)
    /\ b \notin BadRoot
    /\ states' = states \cup {b}
    /\ stored' = stored \cup {b}
    /\ finalized' = FinalizeLocked(finalized, Justification[b], stored \cup {b})
    /\ IF Height(b) > Height(current) /\ CanReorg(current, b, stored \cup {b})
       THEN ReorgTo(b)
       ELSE UNCHANGED <<canon, lookups, current>>

(* Finalize: a certificate assembled from votes moves the canonical chain  *)
(* if it has to, whatever the heights say.                                 *)
Finalize(b) ==
    /\ b \in Certified
    /\ b \in stored
    /\ finalized # None =>
          Height(b) > Height(finalized) /\ DescendsFrom(b, finalized, stored)
    /\ IF canon[Height(b)] # b
       THEN CanReorg(current, b, stored) /\ ReorgTo(b)
       ELSE UNCHANGED <<canon, lookups, current>>
    /\ finalized' = b
    /\ UNCHANGED <<stored, states>>

(* statesync.Syncer finishing: the state of a certified block is complete  *)
(* in the store although the block was never executed.  A sync starts only *)
(* while the head is genesis, but blocks may arrive before it ends.        *)
StateSynced(b) ==
    /\ b \in Certified
    /\ b \notin states
    /\ states' = states \cup {b}
    /\ UNCHANGED <<stored, canon, lookups, current, finalized>>

ImportSnapshot(b) ==
    /\ b \in Certified
    /\ Height(current) = 0
    /\ b \in states
    /\ stored' = stored \cup {b}
    /\ canon' = [canon EXCEPT ![Height(b)] = b]
    /\ lookups' = [t \in Txs |-> IF t \in TxsOf[b] THEN b ELSE lookups[t]]
    /\ current' = b
    /\ finalized' = b
    /\ UNCHANGED states

Next ==
    \E b \in Blocks :
        \/ InsertBlock(b)
        \/ Finalize(b)
        \/ StateSynced(b)
        \/ ImportSnapshot(b)

Spec == Init /\ [][Next]_vars
-----------------------------------------------------------------------------
TypeOK ==
    /\ stored \subseteq Blocks
    /\ states \subseteq Blocks
    /\ canon \in [Heights -> BlockOrNone]
    /\ lookups \in [Txs -> BlockOrNone]
    /\ current \in stored
    /\ finalized \in stored \cup {None}

\* reorgTo: through any sequence of extensions, side branches, reorganisations
\* to longer or (by Finalize) shorter branches and a snapshot import, the
\* canonical index names the ancestors of the head and nothing above it.  Only
\* heights below the finalized block, skipped by a snapshot, may have no entry.
CanonicalIndexMatchesHead ==
    \A n \in Heights :
        /\ canon[n] # None => n <= Height(current) /\ canon[n] = Ancestor(current, n)
        /\ canon[n] = None /\ n <= Height(current) => finalized # None /\ n < Height(finalized)

\* WriteTxLookups and DeleteTxLookups: a transaction resolves to a block exactly
\* when a canonical block includes it, and to that block, however often the
\* transaction moved between branches.
LookupsMatchCanonical ==
    \A t \in Txs :
        /\ lookups[t] # None =>
              t \in TxsOf[lookups[t]] /\ canon[Height(lookups[t])] = lookups[t]
        /\ \A n \in Heights : canon[n] # None /\ t \in TxsOf[canon[n]] => lookups[t] = canon[n]

\* reorgTo's ErrUnknownAncestor returns, which would leave a persisted longer
\* block that never became the head, are unreachable: whatever the node has
\* stored on a branch the fork choice may pick is connected to the head.
ReorgNeverFails ==
    \A b \in stored :
        finalized = None \/ DescendsFrom(b, finalized, stored) => CanReorg(current, b, stored)

\* Finalize and finalizeLocked: finality never regresses and never moves to
\* another branch, by whichever of the two paths the certificate arrives.
FinalityOnlyAdvances ==
    [][finalized # None => finalized' # None /\ OnBranch(finalized, finalized')]_vars

\* checkFinalityLocked: while the floor stays where it is, no block, however
\* long its branch, moves the head off finalized history.
ReorgKeepsFinalized ==
    [][finalized # None /\ finalized' = finalized /\ OnBranch(finalized, current)
          => OnBranch(finalized, current')]_vars

\* chain/finality.go:98: "A finalized block must be on the canonical chain."
FinalizedIsCanonical == finalized # None => canon[Height(finalized)] = finalized
=============================================================================
