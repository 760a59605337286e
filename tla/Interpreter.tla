---------------------------- MODULE Interpreter ----------------------------
(***************************************************************************)
(* One frame of Interpreter.Run (evm/interpreter.go) with its stack, its   *)
(* memory, its gas and its jumps (evm/stack.go, evm/memory.go, evm/gas.go, *)
(* evm/contract.go).                                                       *)
(*                                                                         *)
(* The loop decides what an instruction may do from three tables before it *)
(* executes it: how many words it pops and pushes, how far into memory it  *)
(* reaches, and what it costs.  execute then indexes the stack and memory  *)
(* without looking again, so a table that disagrees with it is a panic of  *)
(* the node.  Here Popped, Sets and Gets are what execute does, and Pops,  *)
(* Pushes and Extent are the tables.                                       *)
(*                                                                         *)
(* A word matters as an offset, a size, a jump target or a condition.  The *)
(* instructions that compute one leave any word of `words' (module WordOps *)
(* has what they compute), memory is its length, and what an instruction   *)
(* does to accounts is module Evm's, as is the read-only flag.  A uint64   *)
(* has U64 values and a word more; the costs are the code's.               *)
(***************************************************************************)
EXTENDS Integers, Sequences, SequencesExt, FiniteSets, FiniteSetsExt

CONSTANTS
    Programs,        \* code, gas and words of the frames that are run
    ByteOf,          \* the byte of an instruction that is read as data
    U64,             \* the number of values of a uint64
    MemLimit,        \* 0x1FFFFFFFE0 at that width: the squaring still fits
    StackLimit,
    MaxInitCodeSize,
    ReturnSizes      \* the lengths of what a call may return

VARIABLES
    code, words,     \* the contract's code; the words its data is made of
    pc, stack,
    mem,             \* Memory.Len
    lastGasCost,     \* what was charged for memory so far
    gas,
    returnData,      \* length of Interpreter.returnData
    status           \* "running", "done", "fault"; "panic" is an index out of range

machineVars == <<code, words, pc, stack, mem, lastGasCost, gas, returnData, status>>

\* The instructions of the families PUSH, DUP, SWAP and LOG that programs use.
PushSize == [PUSH1 |-> 1, PUSH2 |-> 2]
Dup == [DUP1 |-> 1, DUP2 |-> 2]
Swap == [SWAP1 |-> 1, SWAP2 |-> 2]
Log == [LOG0 |-> 0, LOG2 |-> 2]

Environment == {"ADDRESS", "ORIGIN", "CALLER", "CALLVALUE", "CALLDATASIZE", "CODESIZE", "GASPRICE",
                "RETURNDATASIZE", "COINBASE", "TIMESTAMP", "NUMBER", "PREVRANDAO", "GASLIMIT",
                "CHAINID", "BASEFEE", "PC", "MSIZE", "GAS"}
Cheap == {"ADD", "SUB", "LT", "GT", "SLT", "SGT", "EQ", "AND", "OR", "XOR", "BYTE", "SHL", "SHR",
          "SAR"}
Costly == {"MUL", "DIV", "SDIV", "MOD", "SMOD", "SIGNEXTEND"}
Binary == Cheap \cup Costly \cup {"EXP", "KECCAK256"}
AccountReads == {"BALANCE", "EXTCODESIZE", "EXTCODEHASH"}
Unary == {"ISZERO", "NOT", "CALLDATALOAD", "BLOCKHASH", "MLOAD", "SLOAD", "TLOAD"} \cup AccountReads
Copies == {"CALLDATACOPY", "CODECOPY", "RETURNDATACOPY"}
Calls == {"CALL", "CALLCODE"}
CodeCalls == {"DELEGATECALL", "STATICCALL"}
Halts == {"STOP", "RETURN", "REVERT", "SELFDESTRUCT"}
-----------------------------------------------------------------------------
Uint64(w) == w % U64
IsUint64(w) == w < U64

\* An error of the gas arithmetic; it is handed on by whatever uses it.
ErrGasUintOverflow == -1

safeAdd(a, b) ==
    LET sum == (a + b) % U64
    IN  IF a < 0 \/ b < 0 \/ sum < a THEN ErrGasUintOverflow ELSE sum

safeMul(a, b) ==
    LET product == (a * b) % U64
    IN  IF a = 0 \/ b = 0 THEN 0
        ELSE IF product \div a # b THEN ErrGasUintOverflow ELSE product

toWordSize(size) == IF size > U64 - 1 - 31 THEN (U64 - 1) \div 32 + 1 ELSE (size + 31) \div 32

memoryExtentWraps(offset, size) == (Uint64(offset) + Uint64(size)) % U64

memoryExtent(offset, size) ==
    IF size = 0 THEN 0
    ELSE IF ~IsUint64(offset) \/ ~IsUint64(size) THEN ErrGasUintOverflow
    ELSE safeAdd(offset, size)

max64(a, b) == IF a < 0 \/ b < 0 THEN ErrGasUintOverflow ELSE Max({a, b})

\* The total a memory of this many bytes costs.
MemoryTotal(size) == toWordSize(size) * 3 + (toWordSize(size) * toWordSize(size)) \div 512

memoryGasCost(extent) ==
    IF extent > MemLimit THEN ErrGasUintOverflow ELSE Max({MemoryTotal(extent) - lastGasCost, 0})

wordCopyGas(size) ==
    IF ~IsUint64(size) THEN ErrGasUintOverflow ELSE safeMul(toWordSize(size), 3)
ByteLen(w) == CASE w = 0 -> 0 [] w \in 1..255 -> 1 [] w \in 256..65535 -> 2 [] OTHER -> 3
-----------------------------------------------------------------------------
IsPush(op) == op \in DOMAIN PushSize

\* stackRequirement.
Pops(op) ==
    CASE op \in DOMAIN Dup -> Dup[op]
      [] op \in DOMAIN Swap -> Swap[op] + 1
      [] op \in DOMAIN Log -> Log[op] + 2
      [] op \in Unary \cup {"POP", "JUMP", "SELFDESTRUCT"} -> 1
      [] op \in Binary \cup {"JUMPI", "MSTORE", "MSTORE8", "SSTORE", "TSTORE", "RETURN", "REVERT"} -> 2
      [] op \in Copies \cup {"ADDMOD", "MULMOD", "CREATE", "MCOPY"} -> 3
      [] op \in {"EXTCODECOPY", "CREATE2"} -> 4
      [] op \in CodeCalls -> 6
      [] op \in Calls -> 7
      [] OTHER -> 0

Pushes(op) ==
    CASE op \in DOMAIN Dup -> Dup[op] + 1
      [] op \in DOMAIN Swap -> Swap[op] + 1
      [] IsPush(op) \/ op \in Environment \cup Unary \cup Binary \cup Calls \cup CodeCalls
                           \cup {"SELFBALANCE", "PUSH0", "ADDMOD", "MULMOD", "CREATE", "CREATE2"} -> 1
      [] OTHER -> 0

\* baseGas; -1 for a byte that is no instruction.
baseGas(op) ==
    CASE IsPush(op) \/ op \in DOMAIN Dup \cup DOMAIN Swap \cup Cheap \cup Copies
                \cup {"NOT", "ISZERO", "CALLDATALOAD", "MLOAD", "MSTORE", "MSTORE8", "MCOPY"} -> 3
      [] op \in DOMAIN Log -> 375
      [] op \in {"STOP", "RETURN", "REVERT", "INVALID", "SLOAD", "SSTORE", "EXTCODECOPY"}
                \cup AccountReads \cup Calls \cup CodeCalls -> 0
      [] op = "JUMPDEST" -> 1
      [] op \in Environment \cup {"PUSH0", "POP"} -> 2
      [] op \in Costly \cup {"SELFBALANCE"} -> 5
      [] op \in {"ADDMOD", "MULMOD", "JUMP"} -> 8
      [] op \in {"JUMPI", "EXP"} -> 10
      [] op = "KECCAK256" -> 30
      [] op = "BLOCKHASH" -> 20
      [] op \in {"TLOAD", "TSTORE"} -> 100
      [] op \in {"CREATE", "CREATE2"} -> 32000
      [] op = "SELFDESTRUCT" -> 5000
      [] OTHER -> -1

back(n) == stack[Len(stack) - n]

\* gasCost: the memory an instruction reaches.
Extent(op) ==
    CASE op \in {"MLOAD", "MSTORE"} ->
           IF IsUint64(back(0)) THEN safeAdd(back(0), 32) ELSE ErrGasUintOverflow
      [] op = "MSTORE8" -> IF IsUint64(back(0)) THEN safeAdd(back(0), 1) ELSE ErrGasUintOverflow
      [] op \in DOMAIN Log \cup {"KECCAK256", "RETURN", "REVERT"} -> memoryExtent(back(0), back(1))
      [] op \in Copies -> memoryExtent(back(0), back(2))
      [] op = "MCOPY" -> max64(memoryExtent(back(0), back(2)), memoryExtent(back(1), back(2)))
      [] op = "EXTCODECOPY" -> memoryExtent(back(1), back(3))
      [] op \in {"CREATE", "CREATE2"} -> memoryExtent(back(1), back(2))
      [] op \in Calls -> max64(memoryExtent(back(3), back(4)), memoryExtent(back(5), back(6)))
      [] op \in CodeCalls -> max64(memoryExtent(back(2), back(3)), memoryExtent(back(4), back(5)))
      [] OTHER -> 0

\* The part of dynamicGas that depends on the accounts, which module Evm has.
StateGas(op) ==
    CASE op \in AccountReads \cup CodeCalls \cup {"EXTCODECOPY"} -> {100, 2600}
      [] op = "SLOAD" -> {100, 2100}
      [] op = "SSTORE" -> {100, 5000, 20000, 22100}
      [] op \in Calls -> {100, 2600} \cup IF back(2) = 0 THEN {} ELSE {9100, 36600}
      [] op = "SELFDESTRUCT" -> {0, 27600}
      [] OTHER -> {0}

\* The rest of it.
dynamicGas(op) ==
    CASE op = "KECCAK256" ->
           IF IsUint64(back(1)) THEN safeMul(toWordSize(back(1)), 6) ELSE ErrGasUintOverflow
      [] op \in Copies \cup {"MCOPY"} -> wordCopyGas(back(2))
      [] op = "EXTCODECOPY" -> wordCopyGas(back(3))
      [] op = "EXP" -> 50 * ByteLen(back(1))
      [] op = "SSTORE" -> IF gas <= 2300 THEN ErrGasUintOverflow ELSE 0
      [] op \in DOMAIN Log ->
           IF IsUint64(back(1)) THEN safeAdd(safeMul(back(1), 8), safeMul(Log[op], 375))
           ELSE ErrGasUintOverflow
      [] op \in {"CREATE", "CREATE2"} ->
           IF back(2) > MaxInitCodeSize THEN ErrGasUintOverflow
           ELSE safeMul(toWordSize(back(2)), IF op = "CREATE2" THEN 2 + 6 ELSE 2)
      [] OTHER -> 0

gasCost(op, state) ==
    IF \/ Len(stack) < Pops(op)
       \/ Len(stack) - Pops(op) + Pushes(op) > StackLimit
       \/ baseGas(op) < 0
       \/ Extent(op) < 0
    THEN ErrGasUintOverflow
    ELSE safeAdd(safeAdd(baseGas(op), memoryGasCost(Extent(op))), safeAdd(dynamicGas(op), state))
-----------------------------------------------------------------------------
\* execute: the words it takes off the stack, overwritten ones included, or has
\* to find there, and the number it puts there.
Popped(op) ==
    CASE op \in DOMAIN Dup -> Dup[op]
      [] op \in DOMAIN Swap -> Swap[op] + 1
      [] op \in DOMAIN Log -> 2 + Log[op]
      [] op \in Unary \cup {"POP", "JUMP", "SELFDESTRUCT"} -> 1
      [] op \in Binary \cup {"JUMPI", "MSTORE", "MSTORE8", "SSTORE", "TSTORE", "RETURN", "REVERT"} -> 2
      [] op \in Copies \cup {"ADDMOD", "MULMOD", "MCOPY", "CREATE"} -> 3
      [] op \in {"EXTCODECOPY", "CREATE2"} -> 4
      [] op \in CodeCalls -> 2 + 2 + 2
      [] op \in Calls -> 2 + 1 + 2 + 2
      [] OTHER -> 0

\* execute: the ranges it hands to Memory.Set and Set32, and to GetCopy and GetPtr.
Sets(op) ==
    CASE op = "MSTORE" -> {<<back(0), 32>>}
      [] op = "MSTORE8" -> {<<back(0), 1>>}
      [] op \in Copies \cup {"MCOPY"} -> {<<back(0), back(2)>>}
      [] op = "EXTCODECOPY" -> {<<back(1), back(3)>>}
      [] op \in Calls -> {<<back(5), Min({Uint64(back(6)), size})>> : size \in ReturnSizes}
      [] op \in CodeCalls -> {<<back(4), Min({Uint64(back(5)), size})>> : size \in ReturnSizes}
      [] OTHER -> {}

Gets(op) ==
    CASE op = "MLOAD" -> {<<back(0), 32>>}
      [] op \in DOMAIN Log \cup {"KECCAK256", "RETURN", "REVERT"} -> {<<back(0), back(1)>>}
      [] op = "MCOPY" -> {<<back(1), back(2)>>}
      [] op \in {"CREATE", "CREATE2"} -> {<<back(1), back(2)>>}
      [] op \in Calls -> {<<back(3), back(4)>>}
      [] op \in CodeCalls -> {<<back(2), back(3)>>}
      [] OTHER -> {}

\* m.store[offset:offset+size] is a slice of a memory of len bytes.
Slices(range, len) ==
    LET offset == Uint64(range[1])
        end == (offset + Uint64(range[2])) % U64
    IN  Uint64(range[2]) = 0 \/ (offset <= end /\ end <= len)

\* GetCopy and GetPtr cut the range at the end of memory, and need none of it there.
Clips(range, len) ==
    LET offset == Uint64(range[1])
        end == (offset + Uint64(range[2])) % U64
    IN  Uint64(range[2]) = 0 \/ offset >= len \/ offset <= Min({end, len})

Panics(op, len) ==
    \/ Len(stack) < Popped(op)
    \/ \E range \in Sets(op) : ~Slices(range, len)
    \/ \E range \in Gets(op) : ~Clips(range, len)
-----------------------------------------------------------------------------
\* GetOp: the code counts from 0, and STOP follows it.
GetOp(p) == IF p < Len(code) THEN code[p + 1] ELSE "STOP"

codeBitmapAll(c) == {}

RECURSIVE Immediates(_, _)
\* The positions from p on that are data of a push.
Immediates(c, p) ==
    IF p >= Len(c) THEN {}
    ELSE LET size == IF IsPush(c[p + 1]) THEN PushSize[c[p + 1]] ELSE 0
         IN  ((p + 1)..(p + size)) \cup Immediates(c, p + 1 + size)

codeBitmap(c) == Immediates(c, 0)

validJumpdest(dest) ==
    /\ IsUint64(dest)
    /\ dest < Len(code)
    /\ code[dest + 1] = "JUMPDEST"
    /\ dest \notin codeBitmap(code)

\* What a push reads: bytes past the end of the code are zero.
Immediate(op) ==
    LET byte(i) == IF pc + i < Len(code) THEN ByteOf[code[pc + i + 1]] ELSE 0
    IN  IF op = "PUSH1" THEN byte(1) ELSE byte(1) * 256 + byte(2)

\* callGas and opCreate: a callee may spend all it is handed, all but a 64th at
\* the most, or nothing.  What it does with it is module Evm's.
Spent(op, left) ==
    LET allowed == left - left \div 64
    IN  CASE op \in Calls \cup CodeCalls -> {0, Min({back(0), allowed})}
          [] op \in {"CREATE", "CREATE2"} -> {0, allowed}
          [] OTHER -> {0}

UseGas(amount, spent) == gas >= amount /\ gas' = gas - amount - spent

rest(n) == SubSeq(stack, 1, Len(stack) - n)

MachineInit ==
    /\ \E program \in Programs : /\ code = program.code
                                 /\ words = program.words
                                 /\ gas = program.gas
    /\ pc = 0 /\ stack = <<>> /\ mem = 0 /\ lastGasCost = 0
    /\ returnData = 0 /\ status = "running"

\* The loop of Run up to the call of execute: the instruction is paid for and
\* memory is resized.
Paid(op, state) ==
    /\ status = "running"
    /\ op = GetOp(pc)
    /\ gasCost(op, state) >= 0
    /\ \E spent \in Spent(op, gas - gasCost(op, state)) : UseGas(gasCost(op, state), spent)
    /\ lastGasCost' = lastGasCost + memoryGasCost(Extent(op))
    /\ mem' = Max({mem, Extent(op)})
    /\ UNCHANGED <<code, words>>

\* gasCost fails, or the gas does not cover the cost.
OutOfGas ==
    /\ status = "running"
    /\ \E state \in IF Len(stack) < Pops(GetOp(pc)) THEN {0} ELSE StateGas(GetOp(pc)) :
          gasCost(GetOp(pc), state) < 0 \/ gasCost(GetOp(pc), state) > gas
    /\ status' = "fault"
    /\ UNCHANGED <<code, words, pc, stack, mem, lastGasCost, gas, returnData>>

\* An instruction whose indices are not there.
Panic(op) ==
    /\ \E state \in StateGas(op) : Paid(op, state)
    /\ Panics(op, mem')
    /\ status' = "panic"
    /\ UNCHANGED <<pc, stack, returnData>>

\* An instruction whose indices are.
Executes(op) ==
    /\ \E state \in StateGas(op) : Paid(op, state)
    /\ ~Panics(op, mem')

\* Run's pc++ after an instruction that leaves new on the stack in place of n words.
Leaves(n, new, next) ==
    /\ stack' = rest(n) \o new
    /\ pc' = next + 1
    /\ UNCHANGED status

Computes == Environment \cup Unary \cup Binary \cup {"SELFBALANCE", "ADDMOD", "MULMOD"}
Stores == Copies \cup DOMAIN Log \cup {"POP", "MSTORE", "MSTORE8", "MCOPY", "EXTCODECOPY", "SSTORE",
                                       "TSTORE", "JUMPDEST"}

\* PC, MSIZE and GAS tell what the frame knows; another result is any word.
Computed(op) == CASE op = "PC" -> {pc} [] op = "MSIZE" -> {mem'} [] op = "GAS" -> {gas'}
                  [] op = "RETURNDATASIZE" -> {returnData} [] OTHER -> words

Compute(op) ==
    /\ op \in Computes
    /\ Executes(op)
    /\ \E w \in Computed(op) : Leaves(Popped(op), <<w>>, pc)
    /\ UNCHANGED returnData

PushWord(op) ==
    /\ IsPush(op) \/ op = "PUSH0"
    /\ Executes(op)
    /\ IF op = "PUSH0" THEN Leaves(0, <<0>>, pc) ELSE Leaves(0, <<Immediate(op)>>, pc + PushSize[op])
    /\ UNCHANGED returnData

Shuffle(op) ==
    /\ Executes(op)
    /\ \/ op \in DOMAIN Dup /\ Leaves(0, <<back(Dup[op] - 1)>>, pc)
       \/ op \in DOMAIN Swap /\ Leaves(Popped(op),
              <<back(0)>> \o SubSeq(stack, Len(stack) - Swap[op] + 1, Len(stack) - 1) \o <<back(Swap[op])>>, pc)
    /\ UNCHANGED returnData

\* RETURNDATACOPY fails when it reads past the end.
Store(op) ==
    /\ op \in Stores
    /\ Executes(op)
    /\ IF op = "RETURNDATACOPY" /\ back(1) + back(2) > returnData
       THEN status' = "fault" /\ UNCHANGED <<pc, stack>>
       ELSE Leaves(Popped(op), <<>>, pc)
    /\ UNCHANGED returnData

Jump(op) ==
    /\ op \in {"JUMP", "JUMPI"}
    /\ Executes(op)
    /\ IF op = "JUMPI" /\ back(1) = 0 THEN Leaves(2, <<>>, pc)
       ELSE IF validJumpdest(back(0)) THEN Leaves(Popped(op), <<>>, back(0) - 1)
       ELSE status' = "fault" /\ UNCHANGED <<pc, stack>>
    /\ UNCHANGED returnData

\* opCall, opCreate: 0, or the word for success, and what came back.
Call(op) ==
    /\ op \in Calls \cup CodeCalls \cup {"CREATE", "CREATE2"}
    /\ Executes(op)
    /\ \E result \in {0, 1} : Leaves(Popped(op), <<result>>, pc)
    /\ returnData' \in ReturnSizes \cup {0}

Halt(op) ==
    /\ op \in Halts \cup {"INVALID"}
    /\ Executes(op)
    /\ status' = IF op = "INVALID" THEN "fault" ELSE "done"
    /\ stack' = rest(Popped(op))
    /\ returnData' = IF op = "REVERT" THEN Uint64(back(1)) ELSE returnData
    /\ UNCHANGED pc

MachineStep ==
    LET op == GetOp(pc) IN
    \/ OutOfGas
    \/ Panic(op) \/ Compute(op) \/ PushWord(op) \/ Shuffle(op) \/ Store(op)
    \/ Jump(op) \/ Call(op) \/ Halt(op)
-----------------------------------------------------------------------------
(* The tables agree with execute: no instruction that the loop lets        *)
(* through takes a word that is not on the stack or writes or cuts memory  *)
(* out of range, whatever offsets and sizes the words give, sums past      *)
(* 2^64 included, and the stack stays within its limit.                    *)
NoPanic == status # "panic" /\ Len(stack) <= StackLimit

(* The memory a frame has is the memory it was charged for, over growths   *)
(* in any order.                                                           *)
MemoryIsPaidFor == lastGasCost = MemoryTotal(mem)

(* What the loop of Run looks up before an instruction, for the stack, for *)
(* memory and for gas, is what the instruction then does.                  *)
TablesAgree == NoPanic /\ MemoryIsPaidFor

RECURSIVE Boundaries(_, _)
\* Reference: the positions reached by reading the code from its start.
Boundaries(c, p) ==
    IF p >= Len(c) THEN {p}
    ELSE {p} \cup Boundaries(c, p + 1 + IF IsPush(c[p + 1]) THEN PushSize[c[p + 1]] ELSE 0)

(* Execution is always at an instruction that a reader of the code from    *)
(* its start sees: no jump lands in the data of a push.                    *)
AtInstruction == pc \in Boundaries(code, 0)
=============================================================================
