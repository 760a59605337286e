--------------------------- MODULE MCAlgorithms ----------------------------
(***************************************************************************)
(* The algorithms everything else is computed with, side by side: the      *)
(* trie, a frame of the interpreter, the words, the wire format, and the   *)
(* fee rules.  Only one of them moves in a behaviour; the others are idle. *)
(***************************************************************************)
EXTENDS Trie, Interpreter, WordOps, Rlp, Fees

-----------------------------------------------------------------------------
(* Programs: every instruction on every choice of words, with one word too *)
(* few and on a full stack; memory grown in steps; results of calls copied *)
(* out of range; and all short programs with jumps and push data.          *)
Word == "CALLVALUE"
Straight(n, op) == [i \in 1..n |-> Word] \o <<op>>
Ops == Environment \cup Binary \cup Unary \cup Copies \cup Calls \cup CodeCalls \cup Halts
       \cup DOMAIN PushSize \cup DOMAIN Dup \cup DOMAIN Swap \cup DOMAIN Log
       \cup {"SELFBALANCE", "PUSH0", "ADDMOD", "MULMOD", "CREATE", "CREATE2", "POP", "JUMP", "JUMPI", "MSTORE",
             "MSTORE8", "MCOPY", "EXTCODECOPY", "SSTORE", "TSTORE", "JUMPDEST", "INVALID", "0x0c"}
MCPrograms ==
    {[code |-> Straight(Pops(op), op), gas |-> 200000,
      words |-> CASE Pops(op) > 4 -> {0, 33, U64 - 1} [] Pops(op) > 2 -> {0, 33, U64 - 20, U64 + 5}
                  [] OTHER -> {0, 1, 33, MemLimit - 31, U64 - 20, U64 - 1, U64 + 5}] : op \in Ops}
    \cup {[code |-> Straight(Pops(op) - 1, op), gas |-> 200000, words |-> {0}] : op \in {o \in Ops : Pops(o) > 0}}
    \cup {[code |-> Straight(StackLimit, op), gas |-> 60, words |-> {0}] : op \in Ops}
    \cup {[code |-> <<Word, Word, a, Word, Word, b, Word, c, "MSIZE">>, gas |-> 300, words |-> {0, 31, 500}] :
             a \in {"MSTORE", "MSTORE8"}, b \in {"MSTORE8"}, c \in {"MLOAD"}}
    \cup {[code |-> <<Word, Word, Word, Word, Word, Word, Word, op, Word, Word, Word, "RETURNDATACOPY">>,
           gas |-> 200000, words |-> {1}] : op \in Calls \cup CodeCalls}
    \cup {[code |-> c, gas |-> g, words |-> {0, 2}] : g \in {12, 40},
             c \in UNION {[1..n -> {"ADD", "SUB", "JUMPDEST", "PUSH1", "JUMP", "JUMPI"}] : n \in 1..4}}
    \cup {[code |-> <<"PUSH2", "STOP", a, "JUMP", b, "JUMPDEST", c, d>>, gas |-> 60, words |-> {0}] :
             a, d \in {"JUMPDEST", "SUB", "DIV", "SDIV", "STOP"}, b \in {"PUSH1", "PUSH2", "JUMPDEST"}, c \in {"JUMPDEST", "STOP", "PUSH1"}}
MCByteOf == [op \in {"STOP", "ADD", "SUB", "DIV", "SDIV", "JUMPDEST", "JUMP", "JUMPI", "PUSH1", "PUSH2"} |->
               CASE op = "STOP" -> 0 [] op = "ADD" -> 1 [] op = "SUB" -> 3 [] op = "DIV" -> 4 [] op = "SDIV" -> 5
                 [] op = "JUMP" -> 86 [] op = "JUMPI" -> 87 [] op = "JUMPDEST" -> 91 [] op = "PUSH1" -> 96 [] op = "PUSH2" -> 97]

-----------------------------------------------------------------------------
(* Words of three limbs of four bits.                                      *)
MCSamples == [1..3 -> {0, 15}] \cup
             {<<1, 0, 0>>, <<2, 0, 0>>, <<5, 0, 0>>, <<13, 0, 0>>, <<0, 1, 0>>, <<7, 8, 3>>, <<15, 15, 7>>, <<1, 0, 8>>}
MCModuli == {<<0, 0, 0>>, <<1, 8, 0>>, <<1, 0, 8>>}
-----------------------------------------------------------------------------
(* A transaction has a nonce and a recipient, in either of the two types.  *)
TUint == [is |-> "uint"]
MCTypes == <<TUint, [is |-> "bytes"],
             [is |-> "list", elem |-> TUint],
             [is |-> "list", elem |-> [is |-> "raw"]],
             [is |-> "struct", fields |-> <<[is |-> "array", n |-> 1], [is |-> "list", elem |-> TUint]>>],
             [is |-> "tx", inner |-> [is |-> "struct", fields |-> <<TUint, [is |-> "nil", n |-> 1]>>]]>>
MCMessages ==
    <<{0, 1, 2, 11, 12, 143},
      UNION {[1..n -> {0, 1, 2, 11}] : n \in 0..3} \cup {[i \in 1..12 |-> 1]},
      UNION {[1..n -> {0, 1, 12}] : n \in 0..2},
      {<<>>, <<<<1>>, <<EmptyList>>, <<EmptyString + 1, 0>>>>},
      {<<<<b>>, l>> : b \in {0, 11}, l \in {<<>>, <<0, 1>>}},
      {[type |-> k, inner |-> <<n, to>>] : k \in {0, DynamicTxType}, n \in {0, 1, 12}, to \in {<<>>, <<0>>, <<5>>}}>>
-----------------------------------------------------------------------------
(* Two keys that differ in the last nibble, one that leaves them in the    *)
(* middle of a byte, one that is a prefix of all three, and one with       *)
(* nothing in common.                                                      *)
MCKeys == {<<17, 17>>, <<17, 18>>, <<17, 33>>, <<17>>, <<34, 17>>}
Bare == [k \in MCKeys |-> 0]
MCStarts == {Bare,
             [k \in MCKeys |-> IF Len(k) = 2 THEN 40 ELSE 0],
             [k \in MCKeys |-> IF k \in {<<17, 17>>, <<17, 18>>} THEN 40 ELSE 1]}
-----------------------------------------------------------------------------
VARIABLE part     \* which of them moves

IdleMachine ==
    /\ code = <<>> /\ words = {} /\ pc = 0 /\ stack = <<>> /\ mem = 0 /\ lastGasCost = 0
    /\ gas = 0 /\ returnData = 0 /\ status = "done"
IdleWords == operands = <<>> /\ operator = "none" /\ result = <<>>
IdleRlp == type = 1 /\ sent = <<>> /\ wire = <<>> /\ stage = "idle"
IdleFees == height = 0 /\ tip = [limit |-> MinGasLimit, used |-> 0, fee |-> MinBaseFee]
IdleTrie == root = nilNode /\ store = {} /\ kv = Bare /\ committed = {} /\ ops = 0

MCInit ==
    \/ part = "trie" /\ Init /\ IdleMachine /\ IdleWords /\ IdleRlp /\ IdleFees
    \/ part = "machine" /\ MachineInit /\ IdleTrie /\ IdleWords /\ IdleRlp /\ IdleFees
    \/ part = "words" /\ WordInit /\ IdleTrie /\ IdleMachine /\ IdleRlp /\ IdleFees
    \/ part = "rlp" /\ RlpInit /\ IdleTrie /\ IdleMachine /\ IdleWords /\ IdleFees
    \/ part = "fees" /\ FeesInit /\ IdleTrie /\ IdleMachine /\ IdleWords /\ IdleRlp

MCNext ==
    /\ UNCHANGED part
    /\ \/ part = "trie" /\ Next /\ UNCHANGED <<machineVars, wordVars, rlpVars, feeVars>>
       \/ part = "machine" /\ MachineStep /\ UNCHANGED <<vars, wordVars, rlpVars, feeVars>>
       \/ part = "words" /\ Execute /\ UNCHANGED <<vars, machineVars, rlpVars, feeVars>>
       \/ part = "rlp" /\ RlpNext /\ UNCHANGED <<vars, machineVars, wordVars, feeVars>>
       \/ part = "fees" /\ FeesNext /\ UNCHANGED <<vars, machineVars, wordVars, rlpVars>>

allVars == <<part, vars, machineVars, wordVars, rlpVars, feeVars>>

MCSpec == MCInit /\ [][MCNext]_allVars
=============================================================================
