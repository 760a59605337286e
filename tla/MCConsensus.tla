---------------------------- MODULE MCConsensus ----------------------------
(***************************************************************************)
(* The parts that decide what is final, side by side: one chain, one vote  *)
(* pool, vote counting alone, a network of two validators under fairness,  *)
(* and one whose validator set changes.  Only one of them moves in a       *)
(* behaviour; the others stay at their first state.                        *)
(*                                                                         *)
(* The chain has every branch of up to three blocks over two proposers,    *)
(* and one longer tip.  Certificates exist for nested blocks of one branch *)
(* and for a block that conflicts with them; proposers embed the           *)
(* certificate of their parent, and one that of a block it saw on the      *)
(* other branch.                                                           *)
(*                                                                         *)
(* The pool has four validators, one of which leaves and comes back and    *)
(* one of which has no attestation key in the larger set.  Votes are cast  *)
(* under either set; v2 voted twice at height 1, once before and once      *)
(* after a restart.                                                        *)
(*                                                                         *)
(* The set that changes has five validators, one of which is offline and   *)
(* leaves by v5's branch and stays by v1's: the two branches give height 2 *)
(* sets with different quorums.                                            *)
(***************************************************************************)
EXTENDS Chain, VoteCounting, AttestationPoolSpec, MCEpochHandover

MCLabel == {"a", "b"}
MCBlocks == UNION {[1..n -> MCLabel] : n \in 0..3} \cup {<<"b", "b", "b", "b">>}
MCCertified == {<<"b">>, <<"b", "b">>, <<"b", "b", "b">>, <<"a", "b">>}
MCTxs == {"ta", "tb"}
\* The first block of each proposer on a branch includes "its" transaction.
FirstBy(b, l) == Len(b) > 0 /\ b[Len(b)] = l /\ \A n \in 1..(Len(b) - 1) : b[n] # l
MCTxsOf == [b \in MCBlocks |->
    {t \in MCTxs : FirstBy(b, IF t = "ta" THEN "a" ELSE "b")}]
MCJustification == [b \in MCBlocks |->
    IF b = <<"b", "b", "b">> THEN <<"a", "b">>
    ELSE IF b \in {<<"b", "b">>, <<"b", "b", "b", "b">>, <<"a", "b", "a">>} THEN Parent(b) ELSE None]
MCBadHeader == {<<"a", "a", "b">>}
MCBadRoot == {<<"b", "b", "a">>}

MCSlotOf(c) == IF c = "c" THEN 2 ELSE 1

Before == <<"v1", "v2", "v3">>
After == <<"v2", "v3">>
Grown == <<"v1", "v2", "v3", "v4">>
MCSets == {Before, After, Grown}
MCVotes ==
    {Attestation(1, "X", 0, "v1"), Attestation(1, "X", 1, "v2"), Attestation(1, "X", 2, "v3"),
     Attestation(1, "Y", 0, "v2"), Attestation(1, "Y", 1, "v2"), Attestation(1, "X", 1, "v3"),
     Attestation(1, "Y", 3, "v4"), Attestation(2, "Z", 1, "v3"), Attestation(2, "Z", 0, "v2")}

VARIABLES nStored, nHead, nFinal, nPool, nBuilding, nDue, nRestarts,
          nBlocksOut, nVotesOut, nProofsOut, nSigned, nFinals,
          part    \* which of them moves

\* Two validators, so every vote counts, and one proposer for each height.
Net == INSTANCE FinalityNet WITH
    Validators <- {"v1", "v2"}, Keyless <- {}, Retain <- 256, Order <- <<"v1", "v2">>,
    Observers <- {}, Turns <- {<<"v1", 1>>, <<"v2", 2>>}, Listeners <- {"v1", "v2"},
    Peers <- {"p"}, MaxHeight <- 2, Restarting <- {}, MaxRestarts <- 1,
    stored <- nStored, head <- nHead, final <- nFinal, pool <- nPool, building <- nBuilding,
    due <- nDue, restarts <- nRestarts, blocksOut <- nBlocksOut, votesOut <- nVotesOut,
    proofsOut <- nProofsOut, signed <- nSigned, finals <- nFinals

netAll == <<nStored, nHead, nFinal, nPool, nBuilding, nDue, nRestarts,
            nBlocksOut, nVotesOut, nProofsOut, nSigned, nFinals>>
allVars == <<part, vars, vcvars, poolVars, netAll, handoverVars>>

MCInit ==
    /\ part \in {"chain", "counting", "pool", "net", "handover"}
    /\ Init /\ CountInit /\ PoolInit /\ Net!Init /\ HandoverInit

MCNext ==
    /\ UNCHANGED part
    /\ \/ part = "chain" /\ Next /\ UNCHANGED <<vcvars, poolVars, netAll, handoverVars>>
       \/ part = "counting" /\ CountNext /\ UNCHANGED <<vars, poolVars, netAll, handoverVars>>
       \/ part = "pool" /\ PoolNext /\ UNCHANGED <<vars, vcvars, netAll, handoverVars>>
       \/ part = "net" /\ Net!Next /\ UNCHANGED <<vars, vcvars, poolVars, handoverVars>>
       \/ part = "handover" /\ HandoverNext /\ UNCHANGED <<vars, vcvars, poolVars, netAll>>

MCSpec ==
    /\ MCInit /\ [][MCNext]_allVars
    /\ part = "net" => Net!Fairness
-----------------------------------------------------------------------------
(* Finality is reached: see EventuallyFinal of FinalityNet.                *)
EventuallyFinal == part = "net" => Net!EventuallyFinal
=============================================================================
