--------------------------- MODULE MCFinalityNet ---------------------------
(* A network of four validators: a quorum may miss one.                    *)
EXTENDS FinalityNet

Four == <<"v1", "v2", "v3", "v4">>

\* v1 and v2 both seal a first block, and that is all.
SplitTurns == {<<"v1", 1>>, <<"v2", 1>>}
=============================================================================
