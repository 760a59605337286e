---------------------------- MODULE MCExecution ----------------------------
(* A contract c that may call itself, a sender s, the proposer p, an address n that may  *)
(* be deployed to, a precompile x and the staking account k.                 *)
EXTENDS Execution

MCAccount(balance, code, slot) ==
    [balance |-> balance, nonce |-> code, code |-> code, storage |-> [k \in Keys |-> slot]]

MCGenesis == [a \in Addresses |->
    CASE a = "s" -> MCAccount(900000, 0, 0)
      [] a = "c" -> MCAccount(1, 1, 1)
      [] OTHER -> None]

Tx(to, nonce, value, gas, feeCap, tip) ==
    [from |-> "s", to |-> to, nonce |-> nonce, value |-> value, gas |-> gas,
     feeCap |-> feeCap, tip |-> tip]

\* Calls, a creation, a staking operation and a call of the precompile; the last
\* transaction of the last list comes too early.
MCCandidates ==
    {<<Tx("c", 0, 0, 70000, 3, 1), Tx("c", 1, 0, 70000, 2, 0)>>,
     <<Tx(None, 0, 1, 92000, 2, 0), Tx("n", 1, 1, 60000, 3, 1)>>,
     <<Tx("k", 0, 1, 60000, 2, 1), Tx("x", 1, 0, 23000, 2, 2), Tx("c", 4, 0, 70000, 2, 0)>>}

=============================================================================
