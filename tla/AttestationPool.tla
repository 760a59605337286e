-------------------------- MODULE AttestationPool --------------------------
(***************************************************************************)
(* The vote pool of one node (consensus/finality.go, core/attestation.go,  *)
(* core/aggregate.go).                                                     *)
(*                                                                         *)
(* A pool is a record, so that a network of nodes can hold one each.  A    *)
(* signature is identified with its signer: it verifies under the key of   *)
(* that validator and under no other.  Votes name their signer only by an  *)
(* index into an ordered set, and the set changes from epoch to epoch, so  *)
(* an honest vote may fail to verify where it arrives.                     *)
(***************************************************************************)
EXTENDS Integers, Sequences, FiniteSets

CONSTANTS
    Validators,  \* identities: an address and, unless keyless, the BLS key registered for it
    Keyless,     \* validators that registered no attestation key
    Retain       \* how far below the finalized height votes are kept (256 in the code)

NoKey == "no key"

\* Variant with a fault: two thirds, not more.
QuorumNotMore(n) == (n * 2) \div 3

(* core.Quorum: more than two thirds. *)
Quorum(n) == IF n <= 0 THEN 0 ELSE (n * 2) \div 3 + 1

(* One vote.  The index counts from 0, as in the code. *)
Attestation(number, hash, index, signer) ==
    [number |-> number, hash |-> hash, index |-> index, signer |-> signer]

(* NewAttestationPool.  "votes" and "byIndex" are the two maps of the code as *)
(* sets of votes; "evidence" is the list without its order.                   *)
NewPool(set) ==
    [addresses |-> set, votes |-> {}, byIndex |-> {}, evidence |-> {}, finalized |-> 0]

(* keys[index], or NoKey when the index is out of range or the key is nil. *)
KeyAt(pool, index) ==
    IF index \in 0..(Len(pool.addresses) - 1) /\ pool.addresses[index + 1] \notin Keyless
    THEN pool.addresses[index + 1]
    ELSE NoKey

\* Variant with a fault: any vote under a known index passes.
VerifiesUnchecked(pool, a) == KeyAt(pool, a.index) # NoKey

(* Attestation.Verify *)
Verifies(pool, a) == KeyAt(pool, a.index) # NoKey /\ a.signer = KeyAt(pool, a.index)

(* IndexOf, as a set: empty when the address is not in the set. *)
IndexOf(pool, v) ==
    {i \in 0..(Len(pool.addresses) - 1) :
        pool.addresses[i + 1] = v /\ \A j \in 0..(i - 1) : pool.addresses[j + 1] # v}

(* DetectEquivocation, and the naming of the offender. *)
Proof(pool, a, b) ==
    [validator |-> KeyAt(pool, a.index), number |-> a.number, index |-> a.index,
     first |-> a, second |-> b]

Conflict(a, b) == a.number = b.number /\ a.index = b.index /\ a.hash # b.hash

-----------------------------------------------------------------------------
(* Add.  The result is the pool after the call and what the call reports:  *)
(* "new", "old" (false, nil), "unknown", "invalid" or "equivocation".      *)
\* Variant with a fault: earlier votes are not looked up.
PreviousIgnored(pool, a) == {}

Previous(pool, a) == {p \in pool.byIndex : p.number = a.number /\ p.index = a.index}

Add(pool, a) ==
    LET keep(report) == [pool |-> pool, report |-> report]
        prev == Previous(pool, a)
    IN  IF KeyAt(pool, a.index) = NoKey THEN keep("unknown")
        ELSE IF pool.finalized > 0 /\ a.number <= pool.finalized THEN keep("old")
        ELSE IF \E p \in prev : p.hash = a.hash THEN keep("old")
        ELSE IF prev # {} THEN
            LET p == CHOOSE p \in prev : TRUE IN
            IF Verifies(pool, p) /\ Verifies(pool, a)
            THEN [pool |-> [pool EXCEPT !.evidence = @ \cup {Proof(pool, p, a)}],
                  report |-> "equivocation"]
            ELSE keep("invalid")
        ELSE [pool |-> [pool EXCEPT !.byIndex = @ \cup {a}, !.votes = @ \cup {a}],
              report |-> "new"]

(* Certificate: the aggregate verifies exactly when every vote in it does;  *)
(* otherwise evictInvalidLocked drops the ones that do not and the count is *)
(* taken again.  A vote whose index left the set is evicted from "votes"    *)
(* only.                                                                    *)
VotesFor(pool, number, hash) == {a \in pool.votes : a.number = number /\ a.hash = hash}

\* Variant with a fault: all votes go with the spoiled one.
EvictAll(pool, votes) == [pool EXCEPT !.votes = @ \ votes, !.byIndex = @ \ votes]

Evict(pool, votes) ==
    LET bad == {a \in votes : ~Verifies(pool, a)}
    IN  [pool EXCEPT !.votes = @ \ bad,
                     !.byIndex = {a \in @ : ~(a \in bad /\ KeyAt(pool, a.index) # NoKey)}]

\* Variant with a fault: the votes are not counted again after the eviction.
CertificateNotRecounted(pool, number, hash) ==
    LET votes == VotesFor(pool, number, hash)
        good  == {a \in votes : Verifies(pool, a)}
        need  == Quorum(Len(pool.addresses))
    IN  [pool |-> IF Cardinality(votes) >= need THEN Evict(pool, votes) ELSE pool,
         signers |-> IF Cardinality(votes) >= need THEN {a.index : a \in good} ELSE {}]

Certificate(pool, number, hash) ==
    LET votes == VotesFor(pool, number, hash)
        good  == {a \in votes : Verifies(pool, a)}
        need  == Quorum(Len(pool.addresses))
    IN  [pool |-> IF Cardinality(votes) >= need THEN Evict(pool, votes) ELSE pool,
         signers |-> IF good # {} /\ Cardinality(good) >= need
                     THEN {a.index : a \in good} ELSE {}]

(* UpdateValidators: votes already collected stay. *)
UpdateValidators(pool, set) == [pool EXCEPT !.addresses = set]

MarkFinalized(pool, number) ==
    IF number <= pool.finalized THEN pool
    ELSE LET kept(votes) == {a \in votes : number > Retain => a.number >= number - Retain}
         IN  [pool EXCEPT !.finalized = number, !.votes = kept(@), !.byIndex = kept(@)]

(* AddEvidence: a proof from a peer, checked against the key at its index. *)
AddEvidence(pool, e) ==
    IF /\ KeyAt(pool, e.index) # NoKey
       /\ Conflict(e.first, e.second) /\ e.first.index = e.index /\ e.first.number = e.number
       /\ Verifies(pool, e.first) /\ Verifies(pool, e.second)
       /\ \A k \in pool.evidence : ~(k.index = e.index /\ k.number = e.number)
    THEN [pool EXCEPT !.evidence = @ \cup {[e EXCEPT !.validator = KeyAt(pool, e.index)]}]
    ELSE pool
=============================================================================
