-------------------------- MODULE MCEpochHandover --------------------------
(***************************************************************************)
(* Small instances of EpochHandover: epochs of two blocks.                 *)
(***************************************************************************)
EXTENDS EpochHandover

TwoOrder == <<"v1", "v2">>
FiveOrder == <<"v1", "v2", "v3", "v5", "v6">>

\* Two branches, each of one proposer: v5's carries the exit, v1's does not.
BranchExit == {<<"v5", 1>>}
BranchTurns == {<<"v5", 1>>, <<"v5", 2>>, <<"v1", 1>>, <<"v1", 2>>}
\* One proposer for each height, up to the block that opens epoch 2.
LongTurns == {<<"v1", 1>>, <<"v2", 2>>, <<"v1", 3>>, <<"v2", 4>>}
=============================================================================
