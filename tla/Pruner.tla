------------------------------- MODULE Pruner -------------------------------
(***************************************************************************)
(* Mark-and-sweep pruning of state (chain/pruner.go, driven by             *)
(* node/maintenance.go) while the chain goes on writing: Run marks from    *)
(* the roots it retains, collects the rest, and deletes it, with           *)
(* TrackingDB (db/db.go) recording what is committed meanwhile.            *)
(***************************************************************************)
EXTENDS ChainStore

CONSTANTS Retain, MaxPrunes

VARIABLES
    prune,      \* [stage, head, roots, reachable, doomed] of the running prune
    prunes,     \* how many were started (bound)
    swept,      \* every node a prune has deleted
    exposed     \* nodes of the head's state that a prune may have taken (see below)

prunevars == <<prune, prunes, swept, exposed>>

Idle == [stage |-> "idle", head |-> Genesis, roots |-> {}, reachable |-> {}, doomed |-> {}]
Tracking == prune.stage # "idle"

PruneInit == prune = Idle /\ prunes = 0 /\ swept = {} /\ exposed = {}

LockFree == up /\ job = <<>>

(* Run: tracking starts before anything is read.                           *)
StartTracking ==
    /\ up /\ prune.stage = "idle" /\ prunes < MaxPrunes
    /\ prune' = [prune EXCEPT !.stage = "head"]
    /\ prunes' = prunes + 1
    /\ tracked' = {}
    /\ UNCHANGED <<store, up, current, finalized, job, cut, swept, exposed>>

\* Variant with a fault: the head is read without waiting for a running insert.
RetainHeadUnlocked ==
    /\ up /\ prune.stage = "head"
    /\ prune' = [prune EXCEPT !.stage = "window", !.head = current, !.roots = {current}]
    /\ UNCHANGED <<chainvars, prunes, swept, exposed>>

(* retainedRoots: CurrentBlock waits for bc.mu.                            *)
RetainHead ==
    /\ LockFree /\ prune.stage = "head"
    /\ prune' = [prune EXCEPT !.stage = "window", !.head = current, !.roots = {current}]
    /\ UNCHANGED <<chainvars, prunes, swept, exposed>>

(* The canonical blocks below the head that was read, without the lock.    *)
RetainWindow ==
    /\ up /\ prune.stage = "window"
    /\ LET top == Height(prune.head)
           below == {Read(Canon(top - i)) : i \in 1..Min({Retain, top})}
       IN  prune' = [prune EXCEPT !.stage = "mark", !.roots = @ \cup {b \in below : b # None /\ Stored(b)}]
    /\ UNCHANGED <<chainvars, prunes, swept, exposed>>

(* The finalized block and genesis join, then mark walks every root whose  *)
(* root node is there.  A node missing further down is an error, and Run   *)
(* returns it.                                                             *)
Mark ==
    /\ LockFree /\ prune.stage = "mark"
    /\ LET roots == prune.roots \cup {Genesis} \cup ({finalized} \ {None})
           open == {b \in roots : Root(b) \in Nodes}
           reachable == UNION {StateNodes(b) : b \in open}
       IN  prune' = IF reachable \subseteq Nodes
                    THEN [prune EXCEPT !.stage = "collect", !.roots = roots, !.reachable = reachable]
                    ELSE Idle
    /\ UNCHANGED <<chainvars, prunes, swept, exposed>>

(* sweep: what is stored, unmarked and not written since tracking began.   *)
Collect ==
    /\ up /\ prune.stage = "collect"
    /\ prune' = [prune EXCEPT !.stage = "recheck", !.doomed = (Nodes \ prune.reachable) \ tracked]
    /\ UNCHANGED <<chainvars, prunes, swept, exposed>>

Recheck ==
    /\ up /\ prune.stage = "recheck"
    /\ prune' = [prune EXCEPT !.stage = "delete", !.doomed = @ \ tracked]
    /\ UNCHANGED <<chainvars, prunes, swept, exposed>>

Without(nodes) == [k \in DOMAIN store \ {Node(n) : n \in nodes} |-> store[k]]

(* The deletes are written and Run returns.                                *)
DeleteDoomed ==
    /\ up /\ prune.stage = "delete"
    /\ store' = Without(prune.doomed)
    /\ swept' = swept \cup prune.doomed
    /\ prune' = Idle
    /\ tracked' = {}
    /\ UNCHANGED <<up, current, finalized, job, cut, prunes, exposed>>

PruneStep ==
    StartTracking \/ RetainHead \/ RetainWindow \/ Mark \/ Collect \/ Recheck \/ DeleteDoomed

-----------------------------------------------------------------------------
(* Where a prune may take nodes that are live (the history variable        *)
(* exposed): a commit writes again what the sweep has already decided to   *)
(* delete, or the chain moves to a branch other than the head's, whose     *)
(* state is not retained.                                                  *)
ExposedByInsert(b) ==
    (IF prune.stage = "delete" THEN Recorded(StateBatch(b)) \cap prune.doomed ELSE {})
    \cup (IF Parent(b) # current THEN StateNodes(b) \cap StateNodes(Parent(b)) ELSE {})

ExposedByFinalize(b) == IF Read(Canon(Height(b))) # b THEN StateNodes(b) ELSE {}
ExposedBySnapshot(b) == IF Tracking THEN StateNodes(b) \ tracked ELSE {}
=============================================================================
