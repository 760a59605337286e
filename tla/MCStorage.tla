---------------------------- MODULE MCStorage ------------------------------
(***************************************************************************)
(* What is on disk, in two parts that do not touch: the chain's keys over  *)
(* a store whose batches may be cut off (SnapSync), and the log that store *)
(* is (FileDB).  Only one of them moves in a behaviour.                    *)
(*                                                                         *)
(* The chain has a main branch that writes both slots, whose tip peers     *)
(* offer as a snapshot, and a competing block on genesis.  The log has two *)
(* keys, and batches that write, overwrite and delete them.                *)
(***************************************************************************)
EXTENDS SnapSync, FileDB

W(i, v) == [slot |-> i, val |-> v]
Main == <<W(1, 1), W(2, 1)>>
Side == <<W(2, 2)>>

MCSlots == {1, 2}
MCBlocks == {Genesis, Parent(Main), Main, Side}
MCJustification == [b \in MCBlocks |-> IF b = Main THEN Parent(Main) ELSE None]
MCOffers == {Main}
MCFinalizable == {Side, Main}

MCBatches == {<<[key |-> 1, val |-> "x"]>>, <<[key |-> 2, val |-> Absent]>>,
              <<[key |-> 1, val |-> "y"], [key |-> 2, val |-> "x"]>>,
              <<[key |-> 2, val |-> "y"], [key |-> 1, val |-> Absent], [key |-> 2, val |-> "x"]>>}

VARIABLE part        \* which of the two moves

MCInit == part \in {"chain", "log"} /\ Init /\ LogInit /\ (part = "chain" => syncMode)

MCNext ==
    /\ UNCHANGED part
    /\ \/ part = "chain" /\ Next /\ UNCHANGED logVars
       \/ part = "log" /\ LogNext /\ UNCHANGED vars

MCSpec == MCInit /\ [][MCNext]_<<part, vars, logVars>>
-----------------------------------------------------------------------------
(* What is in memory is what a restart would load, in both parts: the head, *)
(* the floor and the canonical index against the chain's keys whenever bc.mu *)
(* is free, and the index of the log against what replay of its records      *)
(* would find, whichever compaction failed on the way.                       *)
MemoryMatchesDisk == DiskFollowsMemory /\ IndexIsReplay
=============================================================================
