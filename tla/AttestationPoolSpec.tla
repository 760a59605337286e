------------------------ MODULE AttestationPoolSpec ------------------------
(***************************************************************************)
(* The vote pool as a state machine: votes and proofs arrive in any order  *)
(* and any number of times, the validator set moves under them, and        *)
(* certificates are asked for at any moment.  Each method of the pool      *)
(* holds p.mu throughout, so each is one action.                           *)
(***************************************************************************)
EXTENDS AttestationPool

CONSTANTS
    InitSet,  \* the validator set at start
    Sets,     \* the ordered sets the chain moves through
    Votes     \* the votes validators signed and sent

Numbers == {a.number : a \in Votes}
Hashes == {a.hash : a \in Votes}

ASSUME PoolAssumption ==
    /\ Retain \in Nat
    /\ Keyless \subseteq Validators
    /\ NoKey \notin Validators
    /\ InitSet \in Sets
    /\ Sets \subseteq Seq(Validators)
    /\ \A s \in Sets : \A i, j \in DOMAIN s : s[i] = s[j] => i = j
    /\ Votes \subseteq [number : Nat, hash : Hashes, index : Nat, signer : Validators]

\* The proofs other nodes may have assembled under any of the sets.
Proofs ==
    LET pairs == {p \in Votes \X Votes : Conflict(p[1], p[2]) /\ p[1].signer = p[2].signer}
    IN  {[validator |-> p[1].signer, number |-> p[1].number, index |-> p[1].index,
          first |-> p[1], second |-> p[2]] : p \in pairs}

VARIABLES
    pool,
    certs    \* history: every certificate returned, with the set it was built for

poolVars == <<pool, certs>>

PoolInit == pool = NewPool(InitSet) /\ certs = {}

AddVote(a) == pool' = Add(pool, a).pool /\ UNCHANGED certs

AskCertificate(number, hash) ==
    LET result == Certificate(pool, number, hash) IN
    /\ pool' = result.pool
    /\ certs' = IF result.signers = {} THEN certs
                ELSE certs \cup {[number |-> number, hash |-> hash,
                                  signers |-> {pool.addresses[i + 1] : i \in result.signers},
                                  set |-> pool.addresses]}

ChangeSet(set) ==
    pool' = UpdateValidators(pool, set) /\ UNCHANGED certs

Settle(number) ==
    /\ \E c \in certs : c.number = number
    /\ pool' = MarkFinalized(pool, number)
    /\ UNCHANGED certs

ReceiveProof(e) ==
    pool' = AddEvidence(pool, e) /\ UNCHANGED certs

PoolNext ==
    \/ \E a \in Votes : AddVote(a)
    \/ \E number \in Numbers, hash \in Hashes : AskCertificate(number, hash)
    \/ \E set \in Sets : ChangeSet(set)
    \/ \E number \in Numbers : Settle(number)
    \/ \E e \in Proofs : ReceiveProof(e)

PoolSpec == PoolInit /\ [][PoolNext]_poolVars
-----------------------------------------------------------------------------
PoolTypeOK ==
    /\ pool.addresses \in Sets
    /\ pool.votes \subseteq Votes
    /\ pool.byIndex \subseteq Votes
    /\ pool.finalized \in Numbers \cup {0}
    /\ \A c \in certs : c.number \in Numbers /\ c.hash \in Hashes /\ c.set \in Sets

\* Add and evictInvalidLocked keep the two maps together: at one height an index
\* is counted for one block only, and that block is the one byIndex remembers,
\* so a second vote is always compared with the vote that counts.
EachIndexCountedOnce ==
    /\ \A a, b \in pool.byIndex : a.number = b.number /\ a.index = b.index => a = b
    /\ pool.votes \subseteq pool.byIndex

\* Certificate: whatever votes of other sets are mixed in, a certificate names
\* a quorum of distinct members of the set it was built for, each of which
\* signed for that block.
CertificateIsAQuorum ==
    \A c \in certs :
        /\ Cardinality(c.signers) >= Quorum(Len(c.set))
        /\ \A v \in c.signers :
              /\ \E i \in DOMAIN c.set : c.set[i] = v
              /\ \E a \in Votes : a.signer = v /\ a.number = c.number /\ a.hash = c.hash

\* DetectEquivocation verifies both votes: nobody is accused who did not sign
\* both, although votes are recorded unverified and indices change owner.
EvidenceIsGenuine ==
    \A e \in pool.evidence :
        /\ e.first.signer = e.validator /\ e.second.signer = e.validator
        /\ e.first.number = e.second.number /\ e.first.hash # e.second.hash

\* MarkFinalized and Add together bound the pool from below: votes at or under
\* the finalized height stop arriving, and old ones go.
OldVotesDropped ==
    \A a \in pool.votes \cup pool.byIndex :
        pool.finalized > Retain => a.number >= pool.finalized - Retain

\* Certificate drops votes that spoil an aggregate, and MarkFinalized old ones: a
\* vote that its own validator's key still verifies is lost only when its height
\* leaves the retained history, however often the set moved in between.
VotesLostOnlyForCause ==
    [][\A a \in pool.votes \ pool.votes' :
          ~Verifies(pool, a) \/ a.number + Retain < pool'.finalized]_poolVars
=============================================================================
