------------------------------ MODULE StateDB ------------------------------
(***************************************************************************)
(* The journaled account state a block executes against (state/statedb.go, *)
(* state/journal.go, state/access.go), as operators on a value d: every    *)
(* mutating method is an operator that returns the new d.                  *)
(*                                                                         *)
(* Reading an account or a slot from its trie caches it; nothing can tell  *)
(* a cached value from one not read yet, so OpenState holds every account  *)
(* of the trie from the start, and an object's `origin' is what its        *)
(* storage trie holds.  The trie itself is the map it stands for (module   *)
(* Trie), code is what HasCode tells apart, and logs are counted.          *)
(***************************************************************************)
EXTENDS Integers, Sequences, SequencesExt, FiniteSets, FiniteSetsExt

CONSTANTS Addresses, Keys, None

NoSlots == [k \in Keys |-> 0]

\* core.NewAccount and newObject; committedState answers zero for an object that
\* createObject made, which is what its origin holds.
NewObject == [balance |-> 0, nonce |-> 0, code |-> 0, origin |-> NoSlots,
              dirty |-> [k \in Keys |-> None],
              selfDestructed |-> FALSE, deleted |-> FALSE]

\* New: the state under a root, given as the accounts its trie holds.
OpenState(accounts) ==
    [objects |-> [a \in Addresses |->
                    IF accounts[a] = None THEN None
                    ELSE [NewObject EXCEPT !.balance = accounts[a].balance,
                                           !.nonce = accounts[a].nonce,
                                           !.code = accounts[a].code,
                                           !.origin = accounts[a].storage]],
     objectsDirty |-> {}, journal |-> <<>>, revisions |-> <<>>,
     refund |-> 0, logs |-> 0, addresses |-> {}, slots |-> {},
     transient |-> [a \in Addresses |-> NoSlots], err |-> FALSE]

Exist(d, a) == d.objects[a] # None /\ ~d.objects[a].deleted
GetBalance(d, a) == IF Exist(d, a) THEN d.objects[a].balance ELSE 0
GetNonce(d, a) == IF Exist(d, a) THEN d.objects[a].nonce ELSE 0
GetCode(d, a) == IF Exist(d, a) THEN d.objects[a].code ELSE 0
GetCommittedState(d, a, k) == IF Exist(d, a) THEN d.objects[a].origin[k] ELSE 0
GetState(d, a, k) == IF Exist(d, a) /\ d.objects[a].dirty[k] # None
                     THEN d.objects[a].dirty[k] ELSE GetCommittedState(d, a, k)
Blank(o) == o.balance = 0 /\ o.nonce = 0 /\ o.code = 0
Empty(d, a) == ~Exist(d, a) \/ Blank(d.objects[a])

\* What the reading methods answer of an account.
Account(d, a) ==
    IF ~Exist(d, a) THEN None
    ELSE [balance |-> GetBalance(d, a), nonce |-> GetNonce(d, a), code |-> GetCode(d, a),
          storage |-> [k \in Keys |-> GetState(d, a, k)]]
-----------------------------------------------------------------------------
Append1(d, e) == [d EXCEPT !.journal = Append(@, e)]

\* Journals entry e and sets a field of the account.
Write(d, a, e, o) == [Append1(d, e) EXCEPT !.objects[a] = o, !.objectsDirty = @ \cup {a}]

createObject(d, a) ==
    Write(d, a, [is |-> "create", account |-> a, prev |-> d.objects[a]], NewObject)

getOrNew(d, a) == IF Exist(d, a) THEN d ELSE createObject(d, a)

CreateAccount(d, a) == [createObject(d, a) EXCEPT !.objects[a].balance = GetBalance(d, a)]

setBalance(d, a, n) ==
    Write(d, a, [is |-> "balance", account |-> a, prev |-> d.objects[a].balance],
          [d.objects[a] EXCEPT !.balance = n])

AddBalance(d, a, n) == IF n = 0 THEN d
                       ELSE LET e == getOrNew(d, a) IN setBalance(e, a, e.objects[a].balance + n)
SubBalance(d, a, n) == IF n = 0 THEN d
                       ELSE LET e == getOrNew(d, a) IN setBalance(e, a, e.objects[a].balance - n)

SetNonce(d, a, n) ==
    LET e == getOrNew(d, a)
    IN  Write(e, a, [is |-> "nonce", account |-> a, prev |-> e.objects[a].nonce],
              [e.objects[a] EXCEPT !.nonce = n])

SetCode(d, a, c) ==
    LET e == getOrNew(d, a)
    IN  Write(e, a, [is |-> "code", account |-> a, prev |-> e.objects[a].code],
              [e.objects[a] EXCEPT !.code = c])

SetState(d, a, k, v) ==
    LET e == getOrNew(d, a)
        prev == GetState(e, a, k)
    IN  IF prev = v THEN e
        ELSE Write(e, a, [is |-> "storage", account |-> a, key |-> k, prev |-> prev,
                          existed |-> e.objects[a].dirty[k] # None],
                   [e.objects[a] EXCEPT !.dirty[k] = v])

SetTransientState(d, a, k, v) ==
    IF d.transient[a][k] = v THEN d
    ELSE [Append1(d, [is |-> "transient", account |-> a, key |-> k,
                      prev |-> d.transient[a][k]]) EXCEPT !.transient[a][k] = v]

SelfDestruct(d, a) ==
    IF ~Exist(d, a) THEN d
    ELSE Write(d, a, [is |-> "selfDestruct", account |-> a, prev |-> d.objects[a].selfDestructed,
                      prevBalance |-> d.objects[a].balance],
               [d.objects[a] EXCEPT !.selfDestructed = TRUE, !.balance = 0])

AddRefundUnjournaled(d, n) == [d EXCEPT !.refund = @ + n]

AddRefund(d, n) == [Append1(d, [is |-> "refund", prev |-> d.refund]) EXCEPT !.refund = @ + n]

\* An underflow is remembered in err, which nothing resets, and fails the commit.
SubRefund(d, n) ==
    [Append1(d, [is |-> "refund", prev |-> d.refund]) EXCEPT
        !.refund = IF n > @ THEN 0 ELSE @ - n,
        !.err = @ \/ n > d.refund]

AddLog(d) == [Append1(d, [is |-> "log"]) EXCEPT !.logs = @ + 1]

AddAddressToAccessList(d, a) ==
    IF a \in d.addresses THEN d
    ELSE [Append1(d, [is |-> "address", address |-> a]) EXCEPT !.addresses = @ \cup {a}]

AddSlotToAccessList(d, a, k) ==
    LET e == AddAddressToAccessList(d, a)
    IN  IF <<a, k>> \in e.slots THEN e
        ELSE [Append1(e, [is |-> "slot", address |-> a, slot |-> k]) EXCEPT
                !.slots = @ \cup {<<a, k>>}]
-----------------------------------------------------------------------------
\* What each kind of entry's revert does.
RevertEntry(d, e) ==
    CASE e.is = "create" ->
           [d EXCEPT !.objects[e.account] = e.prev,
                     !.objectsDirty = IF e.prev = None THEN @ \ {e.account} ELSE @]
      [] e.is \in {"balance", "nonce", "code"} ->
           IF d.objects[e.account] = None THEN d
           ELSE [d EXCEPT !.objects[e.account][e.is] = e.prev]
      [] e.is = "storage" ->
           IF d.objects[e.account] = None THEN d
           ELSE [d EXCEPT !.objects[e.account].dirty[e.key] =
                   IF ~e.existed /\ e.prev = 0 THEN None ELSE e.prev]
      [] e.is = "transient" -> [d EXCEPT !.transient[e.account][e.key] = e.prev]
      [] e.is = "selfDestruct" ->
           IF d.objects[e.account] = None THEN d
           ELSE [d EXCEPT !.objects[e.account].selfDestructed = e.prev,
                          !.objects[e.account].balance = e.prevBalance]
      [] e.is = "refund" -> [d EXCEPT !.refund = e.prev]
      [] e.is = "log" -> [d EXCEPT !.logs = @ - 1]
      [] e.is = "address" -> [d EXCEPT !.addresses = @ \ {e.address},
                                       !.slots = {s \in @ : s[1] # e.address}]
      [] e.is = "slot" -> [d EXCEPT !.slots = @ \ {<<e.address, e.slot>>}]

\* Ids grow and revisions are only cut from the end, so the id of a revision
\* stands for its position.
Snapshot(d) == [d EXCEPT !.revisions = Append(@, Len(d.journal))]
SnapshotID(d) == Len(d.revisions) + 1

RevertToSnapshot(d, id) ==
    LET target == d.revisions[id]
        undone == FoldRight(LAMBDA e, acc : RevertEntry(acc, e),
                            SubSeq(d.journal, target + 1, Len(d.journal)), d)
    IN  [undone EXCEPT !.journal = SubSeq(@, 1, target),
                       !.revisions = SubSeq(@, 1, id - 1)]

Prepare(d, warm) ==
    FoldSet(LAMBDA a, acc : AddAddressToAccessList(acc, a),
            [d EXCEPT !.addresses = {}, !.slots = {}], warm)

\* The objects Finalise(true) marks deleted.
Deleted(d) == {a \in d.objectsDirty : d.objects[a] # None
                                      /\ (d.objects[a].selfDestructed \/ Blank(d.objects[a]))}

Finalise(d) ==
    [d EXCEPT !.objects = [a \in Addresses |->
                             IF a \in Deleted(d)
                             THEN [@[a] EXCEPT !.deleted = TRUE, !.dirty = NewObject.dirty]
                             ELSE @[a]],
              !.journal = <<>>, !.revisions = <<>>, !.refund = 0,
              !.transient = [a \in Addresses |-> NoSlots]]

\* commitTo, commitStorage: the trie after the dirty objects are written to it.
CommitTo(d, accounts) ==
    [a \in Addresses |->
        IF a \notin d.objectsDirty \/ d.objects[a] = None THEN accounts[a]
        ELSE Account(d, a)]
-----------------------------------------------------------------------------
\* Everything a caller can see.
Accounts(d) == [a \in Addresses |-> Account(d, a)]
Destructed(d) == {a \in Addresses : Exist(d, a) /\ d.objects[a].selfDestructed}
View(d) == [accounts |-> Accounts(d), destructed |-> Destructed(d), refund |-> d.refund,
            logs |-> d.logs, addresses |-> d.addresses, slots |-> d.slots,
            transient |-> d.transient]

=============================================================================
