-------------------------------- MODULE Evm --------------------------------
(***************************************************************************)
(* The EVM's frames (evm/evm.go, evm/interpreter.go, evm/gas.go): calls,   *)
(* creations, gas and the read-only flag, over the state of module         *)
(* StateDB.  Code is not fixed: a frame that runs may execute any          *)
(* instruction next, so a behaviour is a run of some program.  The         *)
(* instructions that only compute are left out, except that any of them    *)
(* may fail the frame (Fault); module Interpreter has their costs.         *)
(***************************************************************************)
EXTENDS StateDB

CONSTANTS
    Precompiles,     \* the addresses with a native contract, \subseteq Addresses
    Targets,         \* bound: the addresses instructions name, \subseteq Addresses
    Deployments,     \* the addresses CREATE and CREATE2 may derive
    Values,          \* the values written to slots
    Amounts,         \* the values a call may carry
    Requests,        \* the gas a call may ask for
    MaxCallDepth,
    MaxOps           \* bound: instructions in a behaviour

VARIABLES
    db,              \* the StateDB of the block being executed
    frames,          \* the frames of Interpreter.Run, the innermost last
    left,            \* gas handed back by the outermost frame, None while it runs
    failed,          \* the outermost frame returned an error
    ops              \* instructions executed so far

evmVars == <<db, frames, left, failed, ops>>

GasLog == 375
GasCreate == 32000
GasCodeDeposit == 200
GasCallValue == 9000
GasCallStipend == 2300
GasNewAccount == 25000
GasSelfDestruct == 5000
GasColdAccountAccess == 2600
GasColdSloadCost == 2100
GasWarmStorageRead == 100
GasSstoreSet == 20000
GasSstoreReset == 5000
GasSstoreClear == 4800
GasEcrecover == 3000

\* Depth of the interpreter, and its read-only flag: set by the outermost
\* static frame and cleared when that frame returns.
depth == Len(frames)
readOnlyTop == frames # <<>> /\ Last(frames).static
readOnly == \E i \in 1..depth : frames[i].static

top == Last(frames)
self == top.self
-----------------------------------------------------------------------------
\* A call or creation returns gas to the frame below, or to the transaction.
Deliver(fs, d, gas, ok) ==
    /\ db' = d
    /\ IF fs = <<>>
       THEN frames' = <<>> /\ left' = gas /\ failed' = ~ok
       ELSE /\ frames' = [fs EXCEPT ![Len(fs)].gas = @ + gas]
            /\ UNCHANGED <<left, failed>>

\* Runs the code at target as frame f, once the snapshot f.snap is taken.
RunCode(fs, d, target, code, f) ==
    IF target \in Precompiles
    THEN IF f.gas < GasEcrecover
         THEN Deliver(fs, RevertToSnapshot(d, f.snap), 0, FALSE)
         ELSE Deliver(fs, d, f.gas - GasEcrecover, TRUE)
    ELSE IF code = 0 THEN Deliver(fs, d, f.gas, TRUE)
    ELSE db' = d /\ frames' = Append(fs, f) /\ UNCHANGED <<left, failed>>

Frame(d, a, gas, kind, static) ==
    [self |-> a, gas |-> gas, kind |-> kind, static |-> static,
     snap |-> SnapshotID(d), before |-> View(d)]

CanTransfer(d, a, value) == GetBalance(d, a) >= value
Transfer(d, from, to, value) == AddBalance(SubBalance(d, from, value), to, value)

Call(fs, d, caller, a, value, gas) ==
    IF Len(fs) > MaxCallDepth \/ (value # 0 /\ ~CanTransfer(d, caller, value))
    THEN Deliver(fs, d, gas, FALSE)
    ELSE LET s == Snapshot(d)
             e == IF Exist(s, a) \/ (a \notin Precompiles /\ value = 0) THEN s
                  ELSE CreateAccount(s, a)
             t == Transfer(e, caller, a, value)
         IN  RunCode(fs, t, a, GetCode(t, a), Frame(d, a, gas, "call", FALSE))

\* CALLCODE and DELEGATECALL run as the caller; STATICCALL sets the flag.
CallCode(fs, d, caller, a, value, gas) ==
    IF Len(fs) > MaxCallDepth \/ (value # 0 /\ ~CanTransfer(d, caller, value))
    THEN Deliver(fs, d, gas, FALSE)
    ELSE RunCode(fs, Snapshot(d), a, GetCode(d, a), Frame(d, caller, gas, "call", FALSE))

DelegateCall(fs, d, caller, a, gas) == CallCode(fs, d, caller, a, 0, gas)

StaticCall(fs, d, a, gas) ==
    IF Len(fs) > MaxCallDepth THEN Deliver(fs, d, gas, FALSE)
    ELSE RunCode(fs, Snapshot(d), a, GetCode(d, a), Frame(d, a, gas, "call", TRUE))

\* The creator's nonce is raised before the snapshot, so a failure keeps it.
CreateSnapshotFirst(fs, d, caller, a, value, gas) ==
    IF Len(fs) > MaxCallDepth \/ ~CanTransfer(d, caller, value)
    THEN Deliver(fs, d, gas, FALSE)
    ELSE LET n == SetNonce(Snapshot(d), caller, GetNonce(d, caller) + 1)
         IN  IF GetNonce(n, a) # 0 \/ GetCode(n, a) # 0 THEN Deliver(fs, n, 0, FALSE)
             ELSE RunCode(fs, Transfer(SetNonce(CreateAccount(n, a), a, 1), caller, a, value),
                          a, 1, Frame(d, a, gas, "create", FALSE))

Create(fs, d, caller, a, value, gas) ==
    IF Len(fs) > MaxCallDepth \/ ~CanTransfer(d, caller, value)
    THEN Deliver(fs, d, gas, FALSE)
    ELSE LET n == SetNonce(d, caller, GetNonce(d, caller) + 1)
         IN  IF GetNonce(n, a) # 0 \/ GetCode(n, a) # 0 THEN Deliver(fs, n, 0, FALSE)
             ELSE RunCode(fs, Transfer(SetNonce(CreateAccount(Snapshot(n), a), a, 1), caller, a, value),
                          a, 1, Frame(n, a, gas, "create", FALSE))
-----------------------------------------------------------------------------
\* A frame that returns an error: its changes are undone, and it keeps its gas
\* only when the error is an explicit revert.
Unwind(d, gas) == Deliver(Front(frames), RevertToSnapshot(d, top.snap), gas, FALSE)

\* An instruction: pays cost, in the state d that computing the cost left
\* behind, then executes; the frame fails when it cannot pay.
Pay(d, cost, Execute(_)) ==
    /\ ops < MaxOps
    /\ ops' = ops + 1
    /\ IF top.gas < cost THEN Unwind(d, 0)
       ELSE Execute([frames EXCEPT ![depth].gas = @ - cost])

Set(fs, d) == frames' = fs /\ db' = d /\ UNCHANGED <<left, failed>>

\* An instruction that a read-only frame may not execute.
WriteProtection == /\ ops < MaxOps /\ ops' = ops + 1
                   /\ Unwind(db, 0)

accountAccessGas(a) == IF a \in db.addresses THEN GasWarmStorageRead ELSE GasColdAccountAccess
slotCold(k) == <<self, k>> \notin db.slots

BalanceOf(a) == Pay(AddAddressToAccessList(db, a), accountAccessGas(a),
                    LAMBDA fs : Set(fs, AddAddressToAccessList(db, a)))

SLoad(k) ==
    LET d == AddSlotToAccessList(db, self, k)
    IN  Pay(d, IF slotCold(k) THEN GasColdSloadCost ELSE GasWarmStorageRead,
            LAMBDA fs : Set(fs, d))

\* sstoreGas, less the cold surcharge.
sstoreGas(original, current, value) ==
    IF current = value THEN [cost |-> GasWarmStorageRead, refund |-> 0]
    ELSE IF original = current
    THEN IF original = 0 THEN [cost |-> GasSstoreSet, refund |-> 0]
         ELSE [cost |-> GasSstoreReset, refund |-> IF value = 0 THEN GasSstoreClear ELSE 0]
    ELSE [cost |-> GasWarmStorageRead,
          refund |-> (IF original = 0 THEN 0 ELSE IF current = 0 THEN -GasSstoreClear
                      ELSE IF value = 0 THEN GasSstoreClear ELSE 0)
                     + (IF original # value THEN 0
                        ELSE IF original = 0 THEN GasSstoreSet - GasWarmStorageRead
                        ELSE GasSstoreReset - GasColdSloadCost - GasWarmStorageRead)]

SStore(k, v) ==
    IF readOnly \/ top.gas <= GasCallStipend THEN WriteProtection
    ELSE LET g == sstoreGas(GetCommittedState(db, self, k), GetState(db, self, k), v)
             w == AddSlotToAccessList(db, self, k)
             d == IF g.refund > 0 THEN AddRefund(w, g.refund)
                  ELSE IF g.refund < 0 THEN SubRefund(w, -g.refund) ELSE w
         IN  Pay(d, g.cost + (IF slotCold(k) THEN GasColdSloadCost ELSE 0),
                 LAMBDA fs : Set(fs, SetState(d, self, k, v)))

TStore(k, v) ==
    IF readOnly THEN WriteProtection
    ELSE Pay(db, GasWarmStorageRead, LAMBDA fs : Set(fs, SetTransientState(db, self, k, v)))

Log == IF readOnly THEN WriteProtection
       ELSE Pay(db, GasLog, LAMBDA fs : Set(fs, AddLog(db)))

\* callGas: at most 63/64 of what the frame has left.
Forwarded(gas, requested) == Min({requested, gas - gas \div 64})

\* opCall after the instruction is paid for: the gas passed on leaves the
\* frame, and a call with value carries the stipend on top.
OpCall(op, fs, d, a, value, requested) ==
    LET given == Forwarded(Last(fs).gas, requested)
        rest == [fs EXCEPT ![Len(fs)].gas = @ - given]
        gas == given + (IF value # 0 THEN GasCallStipend ELSE 0)
    IN  CASE op = "CALL" -> Call(rest, d, self, a, value, gas)
          [] op = "CALLCODE" -> CallCode(rest, d, self, a, value, gas)
          [] op = "DELEGATECALL" -> DelegateCall(rest, d, self, a, gas)
          [] op = "STATICCALL" -> StaticCall(rest, d, a, gas)

CallCostFreeStipend(op, a, value) == accountAccessGas(a)

\* dynamicGas of the four calls.
CallCost(op, a, value) ==
    accountAccessGas(a)
    + (IF value = 0 THEN 0
       ELSE GasCallValue + (IF op = "CALL" /\ ~Exist(db, a) THEN GasNewAccount ELSE 0))

CallOp(op, a, value, requested) ==
    /\ op \in {"DELEGATECALL", "STATICCALL"} => value = 0
    /\ IF readOnly /\ op = "CALL" /\ value # 0 THEN WriteProtection
       ELSE LET d == AddAddressToAccessList(db, a)
            IN  Pay(d, CallCost(op, a, value),
                    LAMBDA fs : OpCall(op, fs, d, a, value, requested))

\* opCreate, for CREATE and CREATE2: the address is one that either may derive.
CreateOp(a, value) ==
    IF readOnly THEN WriteProtection
    ELSE Pay(db, GasCreate,
             LAMBDA fs : LET gas == Forwarded(Last(fs).gas, Last(fs).gas)
                         IN  Create([fs EXCEPT ![Len(fs)].gas = @ - gas], db, self, a, value, gas))

\* A frame that ends well; an init frame first pays for the code it leaves.
Finish(d, size, fs) ==
    LET f == Last(fs)
    IN  IF f.kind = "call" THEN Deliver(Front(fs), d, f.gas, TRUE)
        ELSE IF f.gas < size * GasCodeDeposit THEN Unwind(d, 0)
        ELSE Deliver(Front(fs), SetCode(d, f.self, size), f.gas - size * GasCodeDeposit, TRUE)

Return(size) == ops' = ops /\ Finish(db, size, frames)

SelfDestructOp(b) ==
    IF readOnly THEN WriteProtection
    ELSE LET d == AddAddressToAccessList(db, b)
             balance == GetBalance(db, self)
         IN  Pay(d, GasSelfDestruct
                    + (IF b \in db.addresses THEN 0 ELSE GasColdAccountAccess)
                    + (IF Empty(db, b) /\ balance # 0 THEN GasNewAccount ELSE 0),
                 LAMBDA fs : Finish(SelfDestruct(AddBalance(d, b, balance), self), 0, fs))

Revert == ops' = ops /\ Unwind(db, top.gas)
Fault == ops' = ops /\ Unwind(db, 0)

\* One instruction of the innermost frame.
Step ==
    /\ frames # <<>>
    /\ \/ \E a \in Targets : BalanceOf(a) \/ SelfDestructOp(a)
       \/ \E k \in Keys : SLoad(k) \/ \E v \in Values : SStore(k, v) \/ TStore(k, v)
       \/ Log
       \/ \E op \in {"CALL", "CALLCODE", "DELEGATECALL", "STATICCALL"}, a \in Targets,
             value \in Amounts, requested \in Requests : CallOp(op, a, value, requested)
       \/ \E a \in Deployments, value \in Amounts : CreateOp(a, value)
       \/ \E size \in {0, 1} : Return(size)
       \/ Revert
       \/ Fault

=============================================================================
