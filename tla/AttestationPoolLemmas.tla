----------------------- MODULE AttestationPoolLemmas -----------------------
(***************************************************************************)
(* What each method of the vote pool returns, stated once for every user   *)
(* of module AttestationPool: the pool on its own and the pools of a       *)
(* network through epochs (VotingProofs), and those of a network within    *)
(* one epoch (FinalityNetProofs).                                          *)
(***************************************************************************)
EXTENDS AttestationPool, FiniteSetTheorems, TLAPS

(* W is a set of votes. *)
VoteSet(W) ==
    /\ \A a \in W : a.number \in Nat /\ a.index \in Nat /\ a.signer \in Validators
    /\ \A a, b \in W : /\ a.number = b.number /\ a.hash = b.hash
                       /\ a.index = b.index /\ a.signer = b.signer
                       => a = b

ProofsFrom(W) == [validator : Validators, number : Nat, index : Nat, first : W, second : W]

PoolFields == {"addresses", "votes", "byIndex", "evidence", "finalized"}

IsPool(p) == p = [f \in PoolFields |-> p[f]]

(* A pool that holds votes and proofs of W. *)
PoolOf(p, W) ==
    /\ IsPool(p)
    /\ p.addresses \in Seq(Validators)
    /\ p.votes \subseteq W /\ IsFiniteSet(p.votes)
    /\ p.byIndex \subseteq W
    /\ p.evidence \subseteq ProofsFrom(W)
    /\ p.finalized \in Nat

(* A validator has one index. *)
Distinct(set) == \A i, j \in DOMAIN set : set[i] = set[j] => i = j

(* The members a certificate names. *)
CertifiedBy(p, n, h) == {p.addresses[i + 1] : i \in Certificate(p, n, h).signers}

(* What DetectEquivocation checks of a proof. *)
Genuine(e) ==
    /\ e.first.signer = e.validator /\ e.second.signer = e.validator
    /\ e.first.number = e.second.number /\ e.first.hash # e.second.hash

-----------------------------------------------------------------------------
(* Pools as records.                                                       *)

\* A new pool is empty.
LEMMA NewPoolFields ==
    ASSUME NEW set \in Seq(Validators), NEW W
    PROVE  LET q == NewPool(set) IN
           /\ PoolOf(q, W) /\ q.addresses = set /\ q.votes = {} /\ q.byIndex = {}
           /\ q.evidence = {} /\ q.finalized = 0
  BY FS_EmptySet DEF NewPool, PoolOf, IsPool, PoolFields

\* UpdateValidators changes the set and nothing else.
LEMMA UpdateValidatorsFields ==
    ASSUME NEW W, NEW p, PoolOf(p, W), NEW set \in Seq(Validators)
    PROVE  LET q == UpdateValidators(p, set) IN
           /\ PoolOf(q, W) /\ q.addresses = set /\ q.votes = p.votes /\ q.byIndex = p.byIndex
           /\ q.evidence = p.evidence /\ q.finalized = p.finalized
<1> DEFINE q == UpdateValidators(p, set)
<1>1. q = [f \in PoolFields |-> IF f = "addresses" THEN set ELSE p[f]]
  BY DEF IsPool, PoolOf, PoolFields, UpdateValidators
<1>2. IsPool(q) /\ q.addresses = set /\ q.votes = p.votes /\ q.byIndex = p.byIndex
      /\ q.evidence = p.evidence /\ q.finalized = p.finalized
  BY <1>1 DEF IsPool, PoolFields
<1>3. QED
  BY <1>2 DEF PoolOf

\* A pool of votes of W is one of votes of any larger set.
LEMMA PoolOfLarger ==
    ASSUME NEW W, NEW V, W \subseteq V, NEW p, PoolOf(p, W)
    PROVE  PoolOf(p, V)
<1>1. ProofsFrom(W) \subseteq ProofsFrom(V)
  BY DEF ProofsFrom
<1>2. QED
  BY <1>1 DEF PoolOf

-----------------------------------------------------------------------------
(* Signatures.                                                             *)

\* A vote verifies only under an index of the set, and then the validator with
\* that index signed it.
LEMMA VerifiesIsSigned ==
    ASSUME NEW p, NEW a, p.addresses \in Seq(Validators), a.index \in Nat, Verifies(p, a)
    PROVE  /\ a.index + 1 \in DOMAIN p.addresses
           /\ p.addresses[a.index + 1] = a.signer
           /\ KeyAt(p, a.index) = a.signer
           /\ a.signer \in Validators
  BY DEF Verifies, KeyAt

\* Whether a vote verifies depends on the set alone.
LEMMA VerifiesBySet ==
    ASSUME NEW p, NEW q, p.addresses = q.addresses, NEW a
    PROVE  Verifies(p, a) <=> Verifies(q, a)
  BY DEF Verifies, KeyAt

\* An index that has a key is one of the set.
LEMMA KeyIsAMember ==
    ASSUME NEW p, NEW i \in Nat, p.addresses \in Seq(Validators), KeyAt(p, i) # NoKey
    PROVE  /\ i + 1 \in DOMAIN p.addresses
           /\ KeyAt(p, i) = p.addresses[i + 1] /\ KeyAt(p, i) \in Validators
  BY DEF KeyAt

\* Two verified votes of one index for different blocks make a genuine proof.
LEMMA ProofIsGenuine ==
    ASSUME NEW W, VoteSet(W), NEW p, PoolOf(p, W), NEW a \in W, NEW b \in W,
           Verifies(p, a), Verifies(p, b), Conflict(a, b)
    PROVE  Proof(p, a, b) \in ProofsFrom(W) /\ Genuine(Proof(p, a, b))
<1>1. p.addresses \in Seq(Validators)
  BY DEF PoolOf
<1>2. a.index \in Nat /\ b.index \in Nat /\ a.number \in Nat /\ b.number \in Nat
  BY DEF VoteSet
<1>3. KeyAt(p, a.index) = a.signer /\ KeyAt(p, b.index) = b.signer /\ a.signer \in Validators
  BY <1>1, <1>2, VerifiesIsSigned
<1>4. QED
  BY <1>2, <1>3 DEF Proof, ProofsFrom, Genuine, Conflict

-----------------------------------------------------------------------------
(* The methods.                                                            *)

\* Add: what each of its reports means for the pool.
LEMMA AddCases ==
    ASSUME NEW W, VoteSet(W), NEW p, PoolOf(p, W), NEW a \in W
    PROVE  LET r == Add(p, a) IN
           \/ /\ r.report \in {"unknown", "invalid"} /\ r.pool = p
           \/ /\ r.report = "old" /\ r.pool = p /\ KeyAt(p, a.index) # NoKey
              /\ \/ a.number <= p.finalized
                 \/ \E q \in p.byIndex : q.number = a.number /\ q.index = a.index /\ q.hash = a.hash
           \/ /\ r.report = "equivocation" /\ PoolOf(r.pool, W)
              /\ r.pool.addresses = p.addresses /\ r.pool.finalized = p.finalized
              /\ r.pool.votes = p.votes /\ r.pool.byIndex = p.byIndex
              /\ \A e \in r.pool.evidence \ p.evidence : Genuine(e)
           \/ /\ r.report = "new" /\ PoolOf(r.pool, W) /\ KeyAt(p, a.index) # NoKey
              /\ p.finalized > 0 => a.number > p.finalized
              /\ \A q \in p.byIndex : ~(q.number = a.number /\ q.index = a.index)
              /\ r.pool.addresses = p.addresses /\ r.pool.finalized = p.finalized
              /\ r.pool.votes = p.votes \cup {a} /\ r.pool.byIndex = p.byIndex \cup {a}
              /\ r.pool.evidence = p.evidence
<1> DEFINE prev == Previous(p, a)
           r == Add(p, a)
<1>0. a.number \in Nat /\ p.finalized \in Nat /\ p.byIndex \subseteq W
  BY DEF VoteSet, PoolOf
<1>1. CASE KeyAt(p, a.index) = NoKey
  BY <1>1 DEF Add
<1>2. CASE KeyAt(p, a.index) # NoKey /\ p.finalized > 0 /\ a.number <= p.finalized
  BY <1>2 DEF Add
<1>3. CASE /\ KeyAt(p, a.index) # NoKey /\ ~(p.finalized > 0 /\ a.number <= p.finalized)
           /\ \E q \in prev : q.hash = a.hash
  <2>1. r = [pool |-> p, report |-> "old"]
    BY <1>3 DEF Add
  <2>2. QED
    BY <1>3, <2>1 DEF Previous
<1>4. CASE /\ KeyAt(p, a.index) # NoKey /\ ~(p.finalized > 0 /\ a.number <= p.finalized)
           /\ ~\E q \in prev : q.hash = a.hash
           /\ prev # {}
  <2> DEFINE q == CHOOSE q \in prev : TRUE
  <2>1. q \in prev
    BY <1>4
  <2>2. q \in W /\ Conflict(q, a)
    BY <1>0, <1>4, <2>1 DEF Previous, Conflict
  <2>3. r = IF Verifies(p, q) /\ Verifies(p, a)
            THEN [pool |-> [p EXCEPT !.evidence = @ \cup {Proof(p, q, a)}],
                  report |-> "equivocation"]
            ELSE [pool |-> p, report |-> "invalid"]
    BY <1>4 DEF Add
  <2> HIDE DEF q
  <2>4. CASE Verifies(p, q) /\ Verifies(p, a)
    <3>1. Proof(p, q, a) \in ProofsFrom(W) /\ Genuine(Proof(p, q, a))
      BY <2>2, <2>4, ProofIsGenuine
    <3>2. r.report = "equivocation" /\ r.pool = [p EXCEPT !.evidence = @ \cup {Proof(p, q, a)}]
      BY <2>3, <2>4
    <3>3. /\ IsPool(r.pool) /\ r.pool.evidence = p.evidence \cup {Proof(p, q, a)}
          /\ r.pool.addresses = p.addresses /\ r.pool.finalized = p.finalized
          /\ r.pool.votes = p.votes /\ r.pool.byIndex = p.byIndex
      <4>1. PICK s : s = r.pool
        OBVIOUS
      <4>2. s = [p EXCEPT !.evidence = p.evidence \cup {Proof(p, q, a)}] /\ IsPool(p)
        BY <3>2, <4>1 DEF PoolOf
      <4>3. s = [f \in PoolFields |-> IF f = "evidence" THEN p.evidence \cup {Proof(p, q, a)} ELSE p[f]]
        BY <4>2 DEF IsPool, PoolFields
      <4>4. QED
        BY <4>1, <4>3 DEF IsPool, PoolFields
    <3>4. PoolOf(r.pool, W)
      BY <3>1, <3>3 DEF PoolOf
    <3>5. QED
      BY <3>1, <3>2, <3>3, <3>4
  <2>5. CASE ~(Verifies(p, q) /\ Verifies(p, a))
    BY <2>3, <2>5
  <2>6. QED
    BY <2>4, <2>5
<1>5. CASE /\ KeyAt(p, a.index) # NoKey /\ ~(p.finalized > 0 /\ a.number <= p.finalized)
           /\ prev = {}
  <2>1. r = [pool |-> [p EXCEPT !.byIndex = @ \cup {a}, !.votes = @ \cup {a}], report |-> "new"]
    BY <1>5 DEF Add
  <2>2. r.report = "new" /\ r.pool = [p EXCEPT !.byIndex = p.byIndex \cup {a}, !.votes = p.votes \cup {a}]
    BY <2>1
  <2>3. \A q \in p.byIndex : ~(q.number = a.number /\ q.index = a.index)
    BY <1>5 DEF Previous
  <2>4. /\ IsPool(r.pool) /\ r.pool.evidence = p.evidence
        /\ r.pool.addresses = p.addresses /\ r.pool.finalized = p.finalized
        /\ r.pool.votes = p.votes \cup {a} /\ r.pool.byIndex = p.byIndex \cup {a}
    <3> DEFINE x == p.byIndex \cup {a}
               y == p.votes \cup {a}
    <3>1. PICK s : s = r.pool
      OBVIOUS
    <3>2. s = [p EXCEPT !.byIndex = x, !.votes = y] /\ IsPool(p)
      BY <2>2, <3>1 DEF PoolOf
    <3>3. s = [f \in PoolFields |-> IF f = "votes" THEN y ELSE IF f = "byIndex" THEN x ELSE p[f]]
      <4> HIDE DEF x, y
      <4> QED BY <3>2 DEF IsPool, PoolFields
    <3>4. QED
      BY <3>1, <3>3 DEF IsPool, PoolFields
  <2>5. IsFiniteSet(p.votes \cup {a})
    BY FS_AddElement DEF PoolOf
  <2>6. PoolOf(r.pool, W)
    BY <2>4, <2>5 DEF PoolOf
  <2>7. QED
    BY <1>0, <1>5, <2>2, <2>3, <2>4, <2>6
<1>6. QED
  BY <1>1, <1>2, <1>3, <1>4, <1>5

\* Certificate and evictInvalidLocked: only votes that do not verify are lost, and
\* both maps lose the same ones, except where an index has left the set.
LEMMA CertificateKeeps ==
    ASSUME NEW W, VoteSet(W), NEW p, PoolOf(p, W), NEW n, NEW h
    PROVE  LET q == Certificate(p, n, h).pool IN
           /\ PoolOf(q, W)
           /\ q.addresses = p.addresses /\ q.evidence = p.evidence /\ q.finalized = p.finalized
           /\ q.votes \subseteq p.votes /\ q.byIndex \subseteq p.byIndex
           /\ \A a \in p.votes \ q.votes : ~Verifies(p, a)
           /\ \A a \in p.byIndex \ q.byIndex : ~Verifies(p, a)
           /\ p.votes \subseteq p.byIndex => q.votes \subseteq q.byIndex
<1> DEFINE votes == VotesFor(p, n, h)
           q == Certificate(p, n, h).pool
           bad == {a \in votes : ~Verifies(p, a)}
           y == p.votes \ bad
           x == {a \in p.byIndex : ~(a \in bad /\ KeyAt(p, a.index) # NoKey)}
<1>1. q = p \/ q = Evict(p, votes)
  BY DEF Certificate
<1>2. CASE q = p
  BY <1>2
<1>3. CASE q = Evict(p, votes)
  <2>1. PICK s : s = q
    OBVIOUS
  <2>2. s = [p EXCEPT !.votes = y, !.byIndex = x] /\ IsPool(p)
    BY <1>3, <2>1 DEF Evict, PoolOf
  <2> HIDE DEF x, y, q
  <2>3. /\ IsPool(s) /\ s.byIndex = x /\ s.votes = y
        /\ s.addresses = p.addresses /\ s.evidence = p.evidence /\ s.finalized = p.finalized
    <3>1. s = [f \in PoolFields |-> IF f = "votes" THEN y ELSE IF f = "byIndex" THEN x ELSE p[f]]
      BY <2>2 DEF IsPool, PoolFields
    <3>2. QED
      BY <3>1 DEF IsPool, PoolFields
  <2>4. /\ y \subseteq p.votes /\ x \subseteq p.byIndex
        /\ \A a \in p.votes \ y : ~Verifies(p, a)
        /\ \A a \in p.byIndex \ x : ~Verifies(p, a)
        /\ p.votes \subseteq p.byIndex => y \subseteq x
    BY DEF x, y
  <2>5. IsFiniteSet(y)
    BY <2>4, FS_Subset DEF PoolOf
  <2>6. PoolOf(s, W)
    BY <2>3, <2>4, <2>5 DEF PoolOf
  <2>7. QED
    BY <2>1, <2>3, <2>4, <2>6 DEF q
<1>4. QED
  BY <1>1, <1>2, <1>3

\* Certificate: the members that are named are a quorum of the set, and each of
\* them signed a vote for the block.
LEMMA CertificateQuorum ==
    ASSUME NEW W, VoteSet(W), NEW p, PoolOf(p, W), Distinct(p.addresses),
           NEW n, NEW h, Certificate(p, n, h).signers # {}
    PROVE  LET M == CertifiedBy(p, n, h) IN
           /\ IsFiniteSet(M) /\ Cardinality(M) \in Nat
           /\ Cardinality(M) >= Quorum(Len(p.addresses))
           /\ \A v \in M : /\ \E i \in DOMAIN p.addresses : p.addresses[i] = v
                           /\ \E a \in p.votes : a.signer = v /\ a.number = n /\ a.hash = h
<1> DEFINE good == {a \in VotesFor(p, n, h) : Verifies(p, a)}
           M == CertifiedBy(p, n, h)
           f == [a \in good |-> a.signer]
<1>1. /\ Cardinality(good) >= Quorum(Len(p.addresses))
      /\ M = {p.addresses[i + 1] : i \in {a.index : a \in good}}
  BY DEF Certificate, CertifiedBy
<1>2. good \subseteq p.votes /\ good \subseteq W
  BY DEF VotesFor, PoolOf
<1>3. \A a \in good : /\ a.number = n /\ a.hash = h
                      /\ a.index + 1 \in DOMAIN p.addresses
                      /\ p.addresses[a.index + 1] = a.signer
  <2> TAKE a \in good
  <2>1. a.index \in Nat /\ p.addresses \in Seq(Validators) /\ Verifies(p, a)
    BY <1>2 DEF VoteSet, PoolOf
  <2>2. QED
    BY <2>1, VerifiesIsSigned DEF VotesFor
<1>4. IsFiniteSet(good)
  BY <1>2, FS_Subset DEF PoolOf
<1> HIDE DEF good
<1>5. M = {a.signer : a \in good}
  <2>1. \A v : v \in M <=> \E a \in good : v = p.addresses[a.index + 1]
    BY <1>1
  <2>2. QED
    BY <1>3, <2>1
<1> HIDE DEF M
<1>6. f \in Surjection(good, M)
  BY <1>5 DEF Surjection
<1>7. \A a, b \in good : a.signer = b.signer => a = b
  <2> TAKE a, b \in good
  <2> HAVE a.signer = b.signer
  <2>1. a.index + 1 = b.index + 1 /\ a \in W /\ b \in W
    BY <1>2, <1>3 DEF Distinct
  <2>2. a.index = b.index
    BY <2>1 DEF VoteSet
  <2>3. QED
    BY <1>3, <2>1, <2>2 DEF VoteSet
<1>8. f \in Injection(good, M)
  BY <1>5, <1>7 DEF Injection, IsInjective
<1>9. IsFiniteSet(M) /\ Cardinality(M) = Cardinality(good)
  BY <1>4, <1>6, <1>8, FS_Surjection
<1>10. Cardinality(M) \in Nat
  BY <1>9, FS_CardinalityType
<1>11. \A v \in M : /\ \E i \in DOMAIN p.addresses : p.addresses[i] = v
                    /\ \E a \in p.votes : a.signer = v /\ a.number = n /\ a.hash = h
  BY <1>2, <1>3, <1>5
<1>12. QED
  BY <1>1, <1>9, <1>10, <1>11 DEF M

\* MarkFinalized: the height only rises, and only votes below the retained history go.
LEMMA MarkFinalizedKeeps ==
    ASSUME NEW W, VoteSet(W), NEW p, PoolOf(p, W), NEW n \in Nat, Retain \in Nat
    PROVE  LET q == MarkFinalized(p, n) IN
           /\ PoolOf(q, W)
           /\ q.addresses = p.addresses /\ q.evidence = p.evidence
           /\ q.finalized \in {p.finalized, n} /\ q.finalized >= p.finalized /\ q.finalized >= n
           /\ q.votes \subseteq p.votes /\ q.byIndex \subseteq p.byIndex
           /\ \A a \in (p.votes \ q.votes) \cup (p.byIndex \ q.byIndex) : a.number + Retain < q.finalized
           /\ \A a \in q.votes \cup q.byIndex :
                 q.finalized # p.finalized /\ q.finalized > Retain => a.number + Retain >= q.finalized
           /\ p.votes \subseteq p.byIndex => q.votes \subseteq q.byIndex
<1> DEFINE q == MarkFinalized(p, n)
           kept(S) == {a \in S : n > Retain => a.number >= n - Retain}
           y == kept(p.votes)
           x == kept(p.byIndex)
<1>0. p.finalized \in Nat /\ p.votes \subseteq W /\ p.byIndex \subseteq W
  BY DEF PoolOf
<1>1. CASE n <= p.finalized
  <2>1. q = p
    BY <1>1 DEF MarkFinalized
  <2>2. QED
    BY <1>0, <1>1, <2>1
<1>2. CASE ~(n <= p.finalized)
  <2>1. PICK s : s = q
    OBVIOUS
  <2>2. s = [p EXCEPT !.finalized = n, !.votes = y, !.byIndex = x] /\ IsPool(p)
    BY <1>2, <2>1 DEF MarkFinalized, PoolOf
  <2> HIDE DEF x, y, q
  <2>3. /\ IsPool(s) /\ s.byIndex = x /\ s.votes = y /\ s.finalized = n
        /\ s.addresses = p.addresses /\ s.evidence = p.evidence
    <3>1. s = [f \in PoolFields |-> IF f = "finalized" THEN n ELSE IF f = "votes" THEN y ELSE IF f = "byIndex" THEN x ELSE p[f]]
      BY <2>2 DEF IsPool, PoolFields
    <3>2. QED
      BY <3>1 DEF IsPool, PoolFields
  <2>4. /\ y \subseteq p.votes /\ x \subseteq p.byIndex
        /\ \A a \in x \cup y : n > Retain => a.number >= n - Retain
        /\ \A a \in (p.votes \ y) \cup (p.byIndex \ x) : ~(n > Retain => a.number >= n - Retain)
        /\ p.votes \subseteq p.byIndex => y \subseteq x
    BY DEF x, y
  <2>5. \A a \in p.votes \cup p.byIndex : a.number \in Nat
    BY <1>0 DEF VoteSet
  <2>6. /\ \A a \in x \cup y : n > Retain => a.number + Retain >= n
        /\ \A a \in (p.votes \ y) \cup (p.byIndex \ x) : a.number + Retain < n
    BY <2>4, <2>5
  <2>7. IsFiniteSet(y)
    BY <2>4, FS_Subset DEF PoolOf
  <2>8. PoolOf(s, W)
    BY <2>3, <2>4, <2>7 DEF PoolOf
  <2>9. s.finalized >= p.finalized
    BY <1>0, <1>2, <2>3
  <2>10. QED
    BY <1>0, <2>1, <2>3, <2>4, <2>6, <2>8, <2>9 DEF q
<1>3. QED
  BY <1>1, <1>2

\* AddEvidence: a proof is taken only if both of its votes verify under its index.
LEMMA AddEvidenceKeeps ==
    ASSUME NEW W, VoteSet(W), NEW p, PoolOf(p, W), NEW e \in ProofsFrom(W)
    PROVE  LET q == AddEvidence(p, e) IN
           /\ PoolOf(q, W)
           /\ q.addresses = p.addresses /\ q.finalized = p.finalized
           /\ q.votes = p.votes /\ q.byIndex = p.byIndex
           /\ \A k \in q.evidence \ p.evidence : Genuine(k)
<1> DEFINE q == AddEvidence(p, e)
           k == [e EXCEPT !.validator = KeyAt(p, e.index)]
<1>1. CASE q = p
  BY <1>1
<1>2. CASE q # p
  <2>1. /\ KeyAt(p, e.index) # NoKey
        /\ Conflict(e.first, e.second) /\ e.first.index = e.index
        /\ Verifies(p, e.first) /\ Verifies(p, e.second)
    BY <1>2 DEF AddEvidence
  <2>2. q = [p EXCEPT !.evidence = p.evidence \cup {k}]
    BY <1>2 DEF AddEvidence
  <2>3. /\ e.index \in Nat /\ e.number \in Nat /\ e.first \in W /\ e.second \in W
        /\ p.addresses \in Seq(Validators) /\ IsPool(p)
    BY DEF ProofsFrom, PoolOf
  <2>4. e.first.index \in Nat /\ e.second.index \in Nat
    BY <2>3 DEF VoteSet
  <2>5. /\ KeyAt(p, e.index) \in Validators
        /\ e.first.signer = KeyAt(p, e.index) /\ e.second.signer = KeyAt(p, e.index)
    BY <2>1, <2>3, <2>4, KeyIsAMember DEF Verifies, Conflict
  <2>6. k \in ProofsFrom(W) /\ Genuine(k)
    BY <2>1, <2>3, <2>5 DEF ProofsFrom, Genuine, Conflict
  <2>7. PICK s : s = q
    OBVIOUS
  <2> HIDE DEF k
  <2>8. s = [p EXCEPT !.evidence = p.evidence \cup {k}]
    BY <2>2, <2>7
  <2>9. /\ IsPool(s) /\ s.evidence = p.evidence \cup {k} /\ s.addresses = p.addresses
        /\ s.votes = p.votes /\ s.byIndex = p.byIndex /\ s.finalized = p.finalized
    <3>1. s = [f \in PoolFields |-> IF f = "evidence" THEN p.evidence \cup {k} ELSE p[f]]
      BY <2>3, <2>8 DEF IsPool, PoolFields
    <3>2. QED
      BY <3>1 DEF IsPool, PoolFields
  <2>10. PoolOf(s, W)
    BY <2>6, <2>9 DEF PoolOf
  <2>11. QED
    BY <2>6, <2>7, <2>9, <2>10
<1>3. QED
  BY <1>1, <1>2

\* The same of a result by name.
LEMMA AddGives ==
    ASSUME NEW W, VoteSet(W), NEW p, PoolOf(p, W), NEW a \in W, NEW r, r = Add(p, a)
    PROVE  \/ /\ r.report \in {"unknown", "invalid"} /\ r.pool = p
           \/ /\ r.report = "old" /\ r.pool = p /\ KeyAt(p, a.index) # NoKey
              /\ \/ a.number <= p.finalized
                 \/ \E q \in p.byIndex : q.number = a.number /\ q.index = a.index /\ q.hash = a.hash
           \/ /\ r.report = "equivocation" /\ PoolOf(r.pool, W)
              /\ r.pool.addresses = p.addresses /\ r.pool.finalized = p.finalized
              /\ r.pool.votes = p.votes /\ r.pool.byIndex = p.byIndex
              /\ \A e \in r.pool.evidence \ p.evidence : Genuine(e)
           \/ /\ r.report = "new" /\ PoolOf(r.pool, W) /\ KeyAt(p, a.index) # NoKey
              /\ p.finalized > 0 => a.number > p.finalized
              /\ \A q \in p.byIndex : ~(q.number = a.number /\ q.index = a.index)
              /\ r.pool.addresses = p.addresses /\ r.pool.finalized = p.finalized
              /\ r.pool.votes = p.votes \cup {a} /\ r.pool.byIndex = p.byIndex \cup {a}
              /\ r.pool.evidence = p.evidence
BY AddCases

(* q is p with more proofs, all of them genuine. *)
MoreEvidence(p, q, W) ==
    /\ PoolOf(q, W)
    /\ q.addresses = p.addresses /\ q.finalized = p.finalized
    /\ q.votes = p.votes /\ q.byIndex = p.byIndex
    /\ \A k \in q.evidence \ p.evidence : Genuine(k)

\* The same of a result by name.
LEMMA AddEvidenceGives ==
    ASSUME NEW W, VoteSet(W), NEW p, PoolOf(p, W), NEW e \in ProofsFrom(W), NEW q, q = AddEvidence(p, e)
    PROVE  MoreEvidence(p, q, W)
BY AddEvidenceKeeps DEF MoreEvidence

\* Two quorums of one finite set share more than a third of it.
LEMMA QuorumsIntersect ==
    ASSUME NEW V, IsFiniteSet(V), NEW S \in SUBSET V, NEW T \in SUBSET V,
           Cardinality(S) >= (Cardinality(V) * 2) \div 3 + 1,
           Cardinality(T) >= (Cardinality(V) * 2) \div 3 + 1
    PROVE  3 * Cardinality(S \cap T) > Cardinality(V)
<1> DEFINE t == (Cardinality(V) * 2) \div 3 + 1
<1>1. /\ IsFiniteSet(S) /\ IsFiniteSet(T)
      /\ IsFiniteSet(S \cup T) /\ IsFiniteSet(S \cap T)
  BY FS_Subset, FS_Union, FS_Intersection
<1>2. /\ Cardinality(V) \in Nat /\ Cardinality(S) \in Nat /\ Cardinality(T) \in Nat
      /\ Cardinality(S \cup T) \in Nat /\ Cardinality(S \cap T) \in Nat
  BY <1>1, FS_CardinalityType
<1>3. Cardinality(S \cup T) <= Cardinality(V)
  <2>1. S \cup T \subseteq V
    OBVIOUS
  <2>2. QED
    BY <1>1, <2>1, FS_Subset
<1>4. 3 * t > 2 * Cardinality(V) /\ t \in Nat
  BY <1>2
<1>5. Cardinality(S \cup T) = Cardinality(S) + Cardinality(T) - Cardinality(S \cap T)
  BY <1>1, FS_Union
<1>6. QED
  BY <1>2, <1>3, <1>4, <1>5
=============================================================================
