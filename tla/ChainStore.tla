----------------------------- MODULE ChainStore -----------------------------
(***************************************************************************)
(* What the chain keeps on disk (chain/blockchain.go, chain/rawdb.go,      *)
(* chain/genesis.go): every insert, finalization and snapshot adoption is  *)
(* a run of batches, and a crash may stop the run between two batches or   *)
(* within one, since the store applies a batch record by record (module    *)
(* FileDB).  NewBlockChain then loads whatever is there.                   *)
(*                                                                         *)
(* A block is its path (module BlockTree); the label of a block is the     *)
(* state slot it writes and the value it leaves there.  A state is a root  *)
(* node, unique to its block because of the RANDAO mix, over one node for  *)
(* each slot; nodes are stored under their hash, so two states with equal  *)
(* slots share the slot's node.  Blocks verify and execute as in module    *)
(* Chain.                                                                  *)
(***************************************************************************)
EXTENDS BlockTree, FiniteSets, FiniteSetsExt, SequencesExt, TLC

CONSTANTS
    Blocks, Slots, MaxHeight,
    Justification,      \* Justification[b]: the block whose certificate b carries
    None

VARIABLES
    store,      \* the key/value store: a function on the keys that are present
    up,         \* the process runs and NewBlockChain has returned
    current, finalized,
    job,        \* the batches still to be written under bc.mu, <<>> when it is free
    cut,        \* a run of batches was cut short
    tracked     \* TrackingDB.written: the node keys recorded since tracking began

chainvars == <<store, up, current, finalized, job, cut, tracked>>

Node(n) == <<"node", n>>
Body(b) == <<"body", b>>
Header(b) == <<"header", b>>
Receipts(b) == <<"receipts", b>>
Canon(n) == <<"canon", n>>
Pointer(name) == <<name, <<>>>>

\* What b's state holds in each slot, and the nodes it consists of.
Value(b, i) == LET last == {n \in 1..Height(b) : b[n].slot = i}
               IN  IF last = {} THEN 0 ELSE b[Max(last)].val
Root(b) == <<"root", b>>
Leaf(b, i) == <<"leaf", <<i, Value(b, i)>>>>
Leaves(b) == {Leaf(b, i) : i \in Slots}
StateNodes(b) == {Root(b)} \cup Leaves(b)

Has(key) == key \in DOMAIN store
Read(key) == IF Has(key) THEN store[key] ELSE None
Stored(b) == Has(Body(b))
Nodes == {n \in UNION {StateNodes(b) : b \in Blocks} : Has(Node(n))}
-----------------------------------------------------------------------------
Put(key, val) == [key |-> key, val |-> val, put |-> TRUE]
Delete(key) == [key |-> key, val |-> None, put |-> FALSE]

\* Batch.Write: one record after the other.
Apply(st, batch) ==
    FoldLeft(LAMBDA m, r : IF r.put THEN (r.key :> r.val) @@ m
                           ELSE [k \in DOMAIN m \ {r.key} |-> m[k]], st, batch)

(* StateDB.Commit: the trie nodes that were not loaded from the store,     *)
(* children before their parent.                                           *)
StateBatch(b) ==
    LET fresh == IF b = Genesis THEN Leaves(b) ELSE {Leaf(b, Last(b).slot)}
    IN  [i \in 1..Cardinality(fresh) |-> Put(Node(SetToSeq(fresh)[i]), b)] \o <<Put(Node(Root(b)), b)>>

\* WriteBlock and WriteReceipts.
BlockBatch(b) == <<Put(Body(b), b), Put(Header(b), b), Put(Receipts(b), b)>>

GenesisBatch ==
    <<Put(Body(Genesis), Genesis), Put(Header(Genesis), Genesis), Put(Canon(0), Genesis),
      Put(Pointer("head"), Genesis), Put(Pointer("genesis"), Genesis)>>

Fork(a, b) == Max({n \in 0..Min({Height(a), Height(b)}) : Ancestor(a, n) = Ancestor(b, n)})

\* Every parent from b down to height n can be read.
Walks(b, n) == \A m \in n..(Height(b) - 1) : Stored(Ancestor(b, m))
CanReorg(from, to) == Walks(to, Fork(from, to)) /\ Walks(from, Fork(from, to))
Descends(b, a) == OnBranch(a, b) /\ Walks(b, Height(a))

(* reorgTo: the old branch leaves the index from its tip down, the new one *)
(* enters it oldest first, and the head comes last.                        *)
ReorgBatch(from, to) ==
    LET fork == Fork(from, to)
    IN  [i \in 1..(Height(from) - fork) |-> Delete(Canon(Height(from) - i + 1))]
        \o [i \in 1..(Height(to) - fork) |-> Put(Canon(fork + i), Ancestor(to, fork + i))]
        \o <<Put(Pointer("head"), to)>>

SnapshotBatch(b) ==
    <<Put(Body(b), b), Put(Header(b), b), Put(Canon(Height(b)), b),
      Put(Pointer("head"), b), Put(Pointer("final"), b)>>

Step(kind, block, batch) == [kind |-> kind, block |-> block, batch |-> batch]
FinalStep(b) == Step("final", b, <<Put(Pointer("final"), b)>>)
ReorgStep(b) == Step("reorg", b, ReorgBatch(current, b))

MovesFloor(b) ==
    /\ Stored(b)
    /\ finalized # None => Height(b) > Height(finalized) /\ Descends(b, finalized)

\* Variant with a fault: the block is stored before its state.
InsertStepsBlockFirst(b) ==
    <<Step("block", b, BlockBatch(b)), Step("state", b, StateBatch(b))>>
    \o (IF Justification[b] # None /\ MovesFloor(Justification[b]) THEN <<FinalStep(Justification[b])>> ELSE <<>>)
    \o (IF Height(b) > Height(current) /\ CanReorg(current, b) THEN <<ReorgStep(b)>> ELSE <<>>)

(* insertLocked once the block has been executed.  A branch that cannot be *)
(* walked back is stored but not adopted.                                  *)
InsertSteps(b) ==
    <<Step("state", b, StateBatch(b)), Step("block", b, BlockBatch(b))>>
    \o (IF Justification[b] # None /\ MovesFloor(Justification[b]) THEN <<FinalStep(Justification[b])>> ELSE <<>>)
    \o (IF Height(b) > Height(current) /\ CanReorg(current, b) THEN <<ReorgStep(b)>> ELSE <<>>)

FinalizeSteps(b) ==
    IF Read(Canon(Height(b))) = b THEN <<FinalStep(b)>>
    ELSE IF CanReorg(current, b) THEN <<ReorgStep(b), FinalStep(b)>> ELSE <<>>

GenesisSteps ==
    <<Step("state", Genesis, StateBatch(Genesis)), Step("genesis", Genesis, GenesisBatch)>>
-----------------------------------------------------------------------------
ChainInit ==
    /\ store = [k \in {} |-> None]
    /\ up = FALSE /\ cut = FALSE /\ tracked = {}
    /\ current = Genesis /\ finalized = None
    /\ job = GenesisSteps

CheckFinality(b) ==
    finalized # None =>
        IF Height(b) > Height(finalized) THEN Descends(b, finalized)
        ELSE Read(Canon(Height(b))) \in {None, b}

(* The parent's state opens and the slot that is written can be read.      *)
Executes(b) == {Root(Parent(b)), Leaf(Parent(b), Last(b).slot)} \subseteq Nodes

(* The recording of what the commit is about to write comes before the     *)
(* write: trackingBatch.Put.                                               *)
Recorded(batch) == {batch[i].key[2] : i \in {j \in DOMAIN batch : batch[j].key[1] = "node"}}

InsertBlock(b, tracking) ==
    /\ up /\ job = <<>>
    /\ b # Genesis /\ ~Stored(b) /\ Stored(Parent(b)) /\ CheckFinality(b) /\ Executes(b)
    /\ job' = InsertSteps(b)
    /\ tracked' = IF tracking THEN tracked \cup Recorded(StateBatch(b)) ELSE tracked
    /\ UNCHANGED <<store, up, current, finalized, cut>>

(* Finalize, with a certificate that verifies.                             *)
Finalize(b) ==
    /\ up /\ job = <<>> /\ MovesFloor(b)
    /\ job' = FinalizeSteps(b)
    /\ UNCHANGED <<store, up, current, finalized, cut, tracked>>

(* One batch reaches the store; memory follows.                            *)
WriteBatch ==
    /\ job # <<>>
    /\ LET step == Head(job) IN
       /\ store' = Apply(store, step.batch)
       /\ current' = IF step.kind \in {"reorg", "snapshot"} THEN step.block ELSE current
       /\ finalized' = IF step.kind \in {"final", "snapshot"} THEN step.block ELSE finalized
       /\ up' = (up \/ step.kind = "genesis")
    /\ job' = Tail(job)
    /\ UNCHANGED <<cut, tracked>>

(* The process dies: what had been applied of a batch stays.               *)
CrashWith(st) ==
    /\ store' = st
    /\ cut' = (cut \/ (up /\ job # <<>>))
    /\ up' = FALSE /\ job' = <<>> /\ tracked' = {}
    /\ current' = Genesis /\ finalized' = None

(* NewBlockChain on what is there.                                         *)
NewBlockChain ==
    /\ ~up /\ job = <<>>
    /\ IF Has(Pointer("genesis"))
       THEN /\ up' = TRUE
            /\ current' = IF Has(Pointer("head")) THEN store[Pointer("head")] ELSE Genesis
            /\ finalized' = LET f == Read(Pointer("final")) IN IF f # None /\ Stored(f) THEN f ELSE None
            /\ UNCHANGED job
       ELSE /\ job' = GenesisSteps
            /\ UNCHANGED <<up, current, finalized>>
    /\ UNCHANGED <<store, cut, tracked>>
=============================================================================
