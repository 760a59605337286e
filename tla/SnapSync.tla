------------------------------ MODULE SnapSync ------------------------------
(***************************************************************************)
(* A node's storage as a whole: block import, finalization, pruning, and   *)
(* the download of a finalized state from peers (statesync/statesync.go,   *)
(* node/snapsync.go), all on one store, with crashes anywhere.             *)
(*                                                                         *)
(* Peers hold the complete state.  A request may be answered in part, more *)
(* than once, late or never.  The work queue of the syncer always holds    *)
(* exactly the pending hashes, so pending stands for it.                   *)
(***************************************************************************)
EXTENDS Pruner

CONSTANTS
    Offers,             \* the finalized blocks peers offer
    Threshold,          \* SnapSyncThreshold
    MaxRequestBatch, MaxFaults, MaxSyncs,
    Finalizable         \* blocks for which a certificate may arrive on its own

VARIABLES
    snap,       \* [stage, block, pending, inFlight]: stage "off", "load", "verified", "import" or "done"
    asked,      \* what peers have been asked for and may still send
    arriving,   \* a block HandleBlock is about to insert
    faults,     \* crashes and lost answers so far (bound)
    syncs

vars == <<chainvars, prunevars, snap, asked, arriving, faults, syncs>>

Off == [stage |-> "off", block |-> None, pending |-> {}, inFlight |-> {}]
SnapSyncing == snap.stage \in {"load", "verified", "import"}

Init ==
    /\ ChainInit /\ PruneInit
    /\ snap = Off /\ asked = {} /\ arriving = None /\ faults = 0 /\ syncs = 0
-----------------------------------------------------------------------------
(* HandleBlock looks at the sync before InsertBlock takes the lock.        *)
HandleBlock(b) ==
    /\ up /\ arriving = None /\ ~SnapSyncing
    /\ b # Genesis /\ ~Stored(b) /\ Stored(Parent(b))
    /\ arriving' = b
    /\ UNCHANGED <<chainvars, prunevars, snap, asked, faults, syncs>>

Insert ==
    /\ arriving # None
    /\ InsertBlock(arriving, Tracking)
    /\ exposed' = exposed \cup ExposedByInsert(arriving)
    /\ arriving' = None
    /\ UNCHANGED <<prune, prunes, swept, snap, asked, faults, syncs>>

(* The insert is refused: known by now, below the floor or not executable. *)
InsertRefused ==
    /\ arriving # None /\ up /\ job = <<>>
    /\ ~(~Stored(arriving) /\ CheckFinality(arriving) /\ Executes(arriving))
    /\ arriving' = None
    /\ UNCHANGED <<chainvars, prunevars, snap, asked, faults, syncs>>

FinalizeBlock(b) ==
    /\ Finalize(b)
    /\ exposed' = exposed \cup ExposedByFinalize(b)
    /\ UNCHANGED <<prune, prunes, swept, snap, asked, arriving, faults, syncs>>
-----------------------------------------------------------------------------
\* schedule: what is stored is followed, what is not is pending.
Schedule(b) == IF Root(b) \in Nodes THEN Leaves(b) \ Nodes ELSE {Root(b)}

HandleSnapshot(b) ==
    /\ up /\ snap.stage = "off" /\ syncs < MaxSyncs
    /\ LockFree /\ Height(current) = 0 /\ Height(b) >= Threshold
    /\ snap' = [stage |-> "load", block |-> b, pending |-> Schedule(b), inFlight |-> {}]
    /\ syncs' = syncs + 1
    /\ UNCHANGED <<chainvars, prunevars, asked, arriving, faults>>

\* Missing: what is pending and not in flight, up to the batch size.
Request ==
    /\ up /\ snap.stage = "load"
    /\ LET free == snap.pending \ snap.inFlight IN
       \E wanted \in kSubset(Min({Cardinality(free), MaxRequestBatch}), free) :
          /\ wanted # {}
          /\ snap' = [snap EXCEPT !.inFlight = @ \cup wanted]
          /\ asked' = asked \cup wanted
    /\ UNCHANGED <<chainvars, prunevars, arriving, faults, syncs>>

(* There was no peer to ask, for too long: abandonSnapSync.  Before that   *)
(* the request is put back and nothing changes.                            *)
NoPeer ==
    /\ up /\ snap.stage = "load" /\ snap.pending \ snap.inFlight # {}
    /\ snap' = Off
    /\ UNCHANGED <<chainvars, prunevars, asked, arriving, faults, syncs>>

\* What expandLocked schedules for the accepted blobs, one after the other.
Expanded(blobs) ==
    IF Root(snap.block) \in blobs
    THEN ((snap.pending \ blobs) \cup (Leaves(snap.block) \ Nodes)) \ (blobs \cap snap.pending)
    ELSE snap.pending \ blobs

(* HandleStateNodes, Process: a blob that is pending is stored and what it *)
(* refers to is scheduled; any other is ignored.                           *)
Process(blobs) ==
    /\ up /\ snap.stage = "load"
    /\ LET accepted == blobs \cap snap.pending IN
       /\ store' = [k \in {Node(n) : n \in accepted} |-> snap.block] @@ store
       /\ tracked' = IF Tracking THEN tracked \cup accepted ELSE tracked
       /\ snap' = [snap EXCEPT !.pending = Expanded(accepted), !.inFlight = @ \ accepted]
    /\ UNCHANGED <<up, current, finalized, job, cut, prunevars, asked, arriving, faults, syncs>>

(* What was asked for is not answered: the peer has left or does not have  *)
(* it.  Nothing tells the syncer.                                          *)
Lost ==
    /\ up /\ snap.stage = "load" /\ asked # {} /\ faults < MaxFaults
    /\ asked' = {}
    /\ faults' = faults + 1
    /\ UNCHANGED <<chainvars, prunevars, snap, arriving, syncs>>

(* finishSnapSync: Verify walks the state, or the sync is abandoned.       *)
Verify ==
    /\ up /\ snap.stage = "load" /\ snap.pending = {}
    /\ snap' = IF StateNodes(snap.block) \subseteq Nodes THEN [snap EXCEPT !.stage = "verified"] ELSE Off
    /\ exposed' = exposed \cup ExposedBySnapshot(snap.block)
    /\ UNCHANGED <<chainvars, prune, prunes, swept, asked, arriving, faults, syncs>>

(* ImportSnapshot: still at genesis, and the root node is there.  From     *)
(* here on no answer is looked at until the process starts again.          *)
ImportSnapshot ==
    /\ LockFree /\ snap.stage = "verified"
    /\ LET b == snap.block IN
       IF Height(current) = 0 /\ Root(b) \in Nodes
       THEN /\ job' = <<Step("snapshot", b, SnapshotBatch(b))>>
            /\ snap' = [snap EXCEPT !.stage = "import"]
            /\ exposed' = exposed \cup ExposedBySnapshot(b)
            /\ asked' = {}
       ELSE /\ snap' = Off
            /\ UNCHANGED <<job, exposed, asked>>
    /\ UNCHANGED <<store, up, current, finalized, cut, tracked, prune, prunes, swept, arriving, faults, syncs>>

Write ==
    /\ WriteBatch
    /\ snap' = IF Head(job).kind = "snapshot" THEN [Off EXCEPT !.stage = "done"] ELSE snap
    /\ UNCHANGED <<prunevars, asked, arriving, faults, syncs>>

Prune ==
    /\ PruneStep
    /\ UNCHANGED <<snap, asked, arriving, faults, syncs>>
-----------------------------------------------------------------------------
(* The process dies, perhaps in the middle of a batch of the chain's or of *)
(* the sweep's deletes (in no particular order of the nodes).  Part of     *)
(* what Process stores is what it stores for a part of the answer.         *)
Crash ==
    /\ faults < MaxFaults
    /\ faults' = faults + 1
    /\ \/ /\ job # <<>>
          /\ \E n \in 0..Len(Head(job).batch) : CrashWith(Apply(store, SubSeq(Head(job).batch, 1, n)))
          /\ UNCHANGED swept
       \/ /\ up /\ prune.stage = "delete"
          /\ \E part \in SUBSET prune.doomed : CrashWith(Without(part)) /\ swept' = swept \cup part
       \/ /\ up /\ job = <<>>
          /\ CrashWith(store)
          /\ UNCHANGED swept
    /\ prune' = Idle /\ snap' = Off /\ asked' = {} /\ arriving' = None
    /\ UNCHANGED <<prunes, exposed, syncs>>

Open ==
    /\ NewBlockChain
    /\ UNCHANGED <<prunevars, snap, asked, arriving, faults, syncs>>

Next ==
    \/ \E b \in Blocks : HandleBlock(b) \/ (b \in Finalizable /\ FinalizeBlock(b))
    \/ Insert \/ InsertRefused \/ Write \/ Prune
    \/ \E b \in Offers : HandleSnapshot(b)
    \/ Request \/ NoPeer \/ Lost \/ Verify \/ ImportSnapshot
    \/ \E blobs \in SUBSET asked : blobs # {} /\ Process(blobs)
    \/ Crash \/ Open

Spec == Init /\ [][Next]_vars
-----------------------------------------------------------------------------
BlocksOrNone == Blocks \cup {None}

TypeOK ==
    /\ \A k \in DOMAIN store : store[k] \in Blocks
    /\ current \in Blocks /\ finalized \in BlocksOrNone /\ arriving \in BlocksOrNone
    /\ snap.inFlight \subseteq snap.pending
    /\ prune.doomed \cap prune.reachable = {}
    /\ tracked # {} => Tracking

\* insertLocked commits the state before the block, reorgTo and Genesis.Commit
\* write what a pointer names before the pointer, and NewBlockChain trusts what
\* it finds.  At every moment a crash could choose, every block in the store has
\* every node of its state that no prune has deleted, and the head, the floor,
\* the genesis marker and every canonical entry name a block that is there.
EveryCrashLoads ==
    /\ \A b \in Blocks : Stored(b) => StateNodes(b) \subseteq Nodes \cup swept
    /\ \A k \in DOMAIN store : k[1] \in {"head", "final", "genesis", "canon"} => Stored(store[k])
    /\ Has(Pointer("genesis")) => Has(Pointer("head"))

\* As long as no run of batches was cut short, disk and memory agree whenever
\* bc.mu is free: the pointers are the head and the floor, the canonical index is
\* the head's branch (from the snapshot up, if one was adopted) and every block
\* has its header.
DiskFollowsMemory ==
    LockFree /\ ~cut =>
        /\ Read(Pointer("head")) = current /\ Read(Pointer("final")) = finalized
        /\ \A n \in 0..MaxHeight : LET b == Read(Canon(n)) IN
              IF n > Height(current) THEN b = None
              ELSE b = Ancestor(current, n) \/ (b = None /\ finalized # None /\ 0 < n /\ n < Height(finalized))
        /\ \A b \in Blocks : Stored(b) => Has(Header(b))

\* Pruner.Run starts tracking before it reads the head, reads the head under the
\* lock and looks at what was written once more before it deletes.  With that the
\* head's state stays complete while blocks are imported and snapshots adopted,
\* but for the nodes in three gaps: one written again between the second look
\* and the deletes, one of a branch that was not the head's when it was built on
\* or finalized, and a snapshot adopted while a prune was under way.
PruneKeepsHead == up => StateNodes(current) \ Nodes \subseteq exposed
=============================================================================
