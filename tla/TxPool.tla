------------------------------- MODULE TxPool -------------------------------
(***************************************************************************)
(* The transaction pool (txpool/txpool.go) as operators on a pool value.   *)
(*                                                                         *)
(* A transaction is a record [id, from, nonce, fee, tip, cost, gas].  An   *)
(* account's list is a set of transactions with different nonces.  Every   *)
(* exported method holds p.mu, so each of these operators is one step.     *)
(***************************************************************************)
EXTENDS Integers, Sequences, FiniteSets, FiniteSetsExt, SequencesExt

CONSTANTS
    Accounts,
    AccountSlots, GlobalQueue, PriceBump, PriceLimit,   \* Config
    GasLimit,       \* of a block
    MaxNonce

EmptyPool ==
    [all |-> {},                                    \* every pooled transaction, by hash
     pending |-> [a \in {} |-> {}],                 \* a list only for the accounts in its domain
     queue |-> [a \in Accounts |-> {}],
     nonces |-> [a \in Accounts |-> 0]]             \* 0 where the map has no entry

Pending(p, a) == IF a \in DOMAIN p.pending THEN p.pending[a] ELSE {}
AllFrom(p, a) == Pending(p, a) \cup p.queue[a]
Listed(p) == UNION {AllFrom(p, a) : a \in Accounts}
QueueLen(p) == Cardinality(UNION {p.queue[a] : a \in Accounts})

SumCost(txs) == FoldSet(LAMBDA t, n : n + t.cost, 0, txs)
SortByNonce(list) == SetToSortSeq(list, LAMBDA s, t : s.nonce < t.nonce)
At(list, nonce) == {t \in list : t.nonce = nonce}

NextNonce(p, st, a) == Max({p.nonces[a], st.nonce[a]})

PriceBumpSatisfied(old, new) ==
    /\ new.fee >= (old.fee * (100 + PriceBump)) \div 100
    /\ new.tip >= (old.tip * (100 + PriceBump)) \div 100

(* insert: a full list refuses, unless the nonce is there to be replaced.  *)
CanInsert(list, tx) ==
    IF At(list, tx.nonce) = {} THEN Cardinality(list) < AccountSlots
    ELSE \A old \in At(list, tx.nonce) : PriceBumpSatisfied(old, tx)
Inserted(list, tx) == (list \ At(list, tx.nonce)) \cup {tx}

SetPending(p, a, list) == [b \in DOMAIN p.pending \cup {a} |-> IF b = a THEN list ELSE p.pending[b]]
-----------------------------------------------------------------------------
\* One turn of promote's loop, while it goes on.
PromoteOne(s, st, a) ==
    LET p == s.pool
        next == NextNonce(p, st, a)
        ready == At(p.queue[a], next)
    IN  IF ~s.go \/ ready = {} THEN [s EXCEPT !.go = FALSE]
        ELSE LET tx == CHOOSE t \in ready : TRUE
                 taken == [p EXCEPT !.queue[a] = @ \ {tx}]
             IN  IF CanInsert(Pending(p, a), tx)
                 THEN [go |-> TRUE,
                       pool |-> [taken EXCEPT !.pending = SetPending(p, a, Inserted(Pending(p, a), tx)),
                                              !.all = @ \ At(Pending(p, a), tx.nonce),
                                              !.nonces[a] = next + 1]]
                 ELSE [go |-> FALSE, pool |-> [taken EXCEPT !.all = @ \ {tx}]]

Promote(p, st, a) ==
    FoldLeft(LAMBDA s, i : PromoteOne(s, st, a), [pool |-> p, go |-> TRUE], [i \in 1..(MaxNonce + 2) |-> i]).pool

Validate(p, st, tx) ==
    /\ tx.gas <= GasLimit /\ tx.fee >= PriceLimit /\ tx.fee >= tx.tip
    /\ tx.nonce >= st.nonce[tx.from]
    /\ st.balance[tx.from] >= tx.cost + SumCost(AllFrom(p, tx.from) \ {tx})

(* addLocked after validate: the pool afterwards, the same pool if tx is   *)
(* refused after all.                                                      *)
AddValidated(p, st, tx) ==
    LET a == tx.from
        inPending == At(Pending(p, a), tx.nonce)
        inQueue == At(p.queue[a], tx.nonce)
        old == IF inPending # {} THEN inPending ELSE inQueue
    IN  IF old # {}
        THEN IF ~\A o \in old : PriceBumpSatisfied(o, tx) THEN p
             ELSE IF inPending # {}
             THEN [p EXCEPT !.all = (@ \ old) \cup {tx}, !.pending[a] = Inserted(@, tx)]
             ELSE [p EXCEPT !.all = (@ \ old) \cup {tx}, !.queue[a] = Inserted(@, tx)]
        ELSE IF tx.nonce = NextNonce(p, st, a)
        THEN IF ~CanInsert(Pending(p, a), tx) THEN p
             ELSE Promote([p EXCEPT !.pending = SetPending(p, a, Inserted(Pending(p, a), tx)),
                                    !.nonces[a] = tx.nonce + 1,
                                    !.all = @ \cup {tx}], st, a)
        ELSE IF tx.nonce < st.nonce[a] \/ QueueLen(p) >= GlobalQueue \/ ~CanInsert(p.queue[a], tx) THEN p
        ELSE [p EXCEPT !.queue[a] = @ \cup {tx}, !.all = @ \cup {tx}]
-----------------------------------------------------------------------------
(* removeLocked for each of txs: whatever has the nonce leaves the lists.  *)
RemoveAll(p, txs) ==
    LET gone == txs \cap p.all
        Left(list, a) == {t \in list : ~\E g \in gone : g.from = a /\ g.nonce = t.nonce}
        touched == {g.from : g \in gone}
    IN  [p EXCEPT !.all = @ \ gone,
                  !.queue = [a \in Accounts |-> Left(@[a], a)],
                  !.pending = [a \in {b \in DOMAIN @ : b \in touched => Left(@[b], b) # {}} |-> Left(@[a], a)]]

(* A list that no longer follows on from the account's nonce: what comes   *)
(* after the gap goes back to the queue, unless that is full.              *)
Requeue(p, st, a) ==
    LET list == Pending(p, a)
        Follows(t) == \A n \in st.nonce[a]..t.nonce : At(list, n) # {}
        keep == {t \in list : t.nonce >= st.nonce[a] /\ Follows(t)}
        Back(q, tx) == IF CanInsert(q.queue[a], tx)
                       THEN [q EXCEPT !.all = @ \ At(q.queue[a], tx.nonce), !.queue[a] = Inserted(@, tx)]
                       ELSE q
    IN  FoldLeft(Back, [p EXCEPT !.pending[a] = keep, !.nonces[a] = st.nonce[a] + Cardinality(keep)],
                 SortByNonce(list \ keep))

\* Variant with a fault: transactions after a gap stay pending.
ResetKeepsGaps(p, included, st) ==
    LET p1 == RemoveAll(p, included)
        p2 == RemoveAll(p1, {t \in p1.all : t.nonce < st.nonce[t.from] \/ st.balance[t.from] < t.cost})
        p3 == [p2 EXCEPT !.nonces = [a \in Accounts |-> IF a \in DOMAIN p2.pending
                  THEN st.nonce[a] + Cardinality(p2.pending[a]) ELSE 0]]
    IN  FoldSet(LAMBDA a, q : Promote(q, st, a), p3, Accounts)

\* Variant with a fault: an account's next transaction counts as done.
ResetDropsNext(p, included, st) ==
    LET p1 == RemoveAll(p, included)
        p2 == RemoveAll(p1, {t \in p1.all : t.nonce <= st.nonce[t.from] \/ st.balance[t.from] < t.cost})
        p3 == FoldSet(LAMBDA a, q : Requeue(q, st, a),
                      [p2 EXCEPT !.nonces = [a \in Accounts |-> 0]], DOMAIN p2.pending)
    IN  FoldSet(LAMBDA a, q : Promote(q, st, a), p3, Accounts)

(* Reset after a block with the transactions included.                     *)
Reset(p, included, st) ==
    LET p1 == RemoveAll(p, included)
        p2 == RemoveAll(p1, {t \in p1.all : t.nonce < st.nonce[t.from] \/ st.balance[t.from] < t.cost})
        p3 == FoldSet(LAMBDA a, q : Requeue(q, st, a),
                      [p2 EXCEPT !.nonces = [a \in Accounts |-> 0]], DOMAIN p2.pending)
    IN  FoldSet(LAMBDA a, q : Promote(q, st, a), p3, Accounts)

(* Ready: the accounts' transactions in nonce order, the account whose     *)
(* next one pays the highest tip first; ties are in map order.             *)
Ready(p) ==
    LET Heads(taken) == {t \in UNION {Pending(p, a) : a \in DOMAIN p.pending} \ taken :
                            \A o \in Pending(p, t.from) \ taken : o.nonce >= t.nonce}
        Best(taken) == CHOOSE t \in Heads(taken) : \A o \in Heads(taken) : o.tip <= t.tip
        n == Cardinality(UNION {Pending(p, a) : a \in DOMAIN p.pending})
    IN  FoldLeft(LAMBDA out, i : Append(out, Best(ToSet(out))), <<>>, [i \in 1..n |-> i])
=============================================================================
