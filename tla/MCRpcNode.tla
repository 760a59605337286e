------------------------------ MODULE MCRpcNode ------------------------------
\* Instances of RpcNode: one account with three nonces and a replacement, and
\* one that competes by tip.
EXTENDS RpcNode, TLC

Tx(id, from, nonce, fee, tip, cost, gas) ==
    [id |-> id, from |-> from, nonce |-> nonce, fee |-> fee, tip |-> tip, cost |-> cost, gas |-> gas]

a0 == Tx("a0", "a", 0, 20, 2, 1, 1)
a1 == Tx("a1", "a", 1, 20, 2, 3, 1)
b1 == Tx("b1", "a", 1, 22, 3, 1, 1)     \* bids a1 out
a2 == Tx("a2", "a", 2, 20, 2, 1, 2)
x0 == Tx("x0", "a", 0, 30, 5, 4, 1)     \* never submitted here: another block carries it

MCTxs == {a0, a1, b1, a2}
MCPeerBlocks == {<<>>, <<a0>>, <<x0>>}
MCEmptyBlocks == {<<>>, <<a0>>}
Symmetry == Permutations(Polls) \cup Permutations(Connections)
MCAccounts == {"a"}
MCBalance == [a \in MCAccounts |-> 6]
=============================================================================
