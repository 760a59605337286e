--------------------------- MODULE HandoverProofs ---------------------------
(***************************************************************************)
(* The validator set from epoch to epoch, for every epoch length, schedule *)
(* of turns and order of delivery, and for sets of any size: by whose      *)
(* votes a block becomes final.                                            *)
(***************************************************************************)
EXTENDS EpochHandover, AttestationPoolLemmas

Known == blocksOut \cup {Genesis}

(* The votes that may be signed for blocks of B. *)
AllVotes(B) == [number : Nat, hash : B, index : Nat, signer : Validators]

IsPath(b) == b \in Seq({b[h] : h \in DOMAIN b})

(* Each member whose place in the set of the certificate is marked has a    *)
(* vote for b in V.                                                         *)
Backed(cert, b, V) ==
    \A i \in cert.signers : \E a \in V : a.signer = cert.order[i + 1] /\ a.hash = b

BlockOK(b, V) ==
    /\ IsPath(b) /\ b # Genesis
    /\ b[Height(b)].just # NoCert => Backed(b[Height(b)].just, Parent(b), V)

HoldsVotes(p, B, V) ==
    PoolOf(p, AllVotes(B)) /\ p.votes \subseteq V /\ p.addresses \in {Order, Remaining}

(* A quorum of one of the two sets. *)
SomeQuorum(b, V) == \E set \in {Order, Remaining} : QuorumVoted(set, b, V)

(* The inductive invariant.  A floor moves by a certificate of the node's   *)
(* own pool or of a header.  The first is made of votes that were           *)
(* broadcast; so is the second, at the node that built the block, and votes *)
(* are never withdrawn.                                                     *)
NodesTyped ==
    /\ imported = [n \in Online |-> imported[n]] /\ head = [n \in Online |-> head[n]]
    /\ final = [n \in Online |-> final[n]] /\ pools = [n \in Online |-> pools[n]]
BlocksHeld ==
    /\ \A n \in Online : head[n] \in imported[n] /\ final[n] \in imported[n] \cup {NoBlock}
    /\ finals \subseteq UNION {imported[n] : n \in Online}
HeadsKnown == \A n \in Online : head[n] \in Known
PoolsHoldVotes == \A n \in Online : HoldsVotes(pools[n], Known, votesOut)
VotesKnown == votesOut \subseteq AllVotes(Known) /\ \A a \in votesOut : a.number = Height(a.hash)
BlocksBacked == \A b \in blocksOut : BlockOK(b, votesOut)
FinalsBacked ==
    /\ \A n \in Online : final[n] = NoBlock \/ final[n] \in finals
    /\ \A b \in finals : SomeQuorum(b, votesOut)

HandoverInv ==
    NodesTyped /\ BlocksHeld /\ HeadsKnown /\ PoolsHoldVotes /\ VotesKnown /\ BlocksBacked /\ FinalsBacked

(* A step that moves a floor has a quorum of the node's own set for it. *)
QuorumMoves ==
    \A n \in Online : final'[n] # final[n] =>
        \E tip \in {head[n], head'[n]} :
            QuorumVoted(SetOn(tip, Height(final'[n])), final'[n], votesOut')

-----------------------------------------------------------------------------
(* Blocks, sets and quorums.                                               *)

\* A block has a height, and its parent the height below.
LEMMA PathFacts ==
    ASSUME NEW b, IsPath(b)
    PROVE  /\ Height(b) \in Nat
           /\ b # Genesis => Height(b) > 0 /\ Height(Parent(b)) = Height(b) - 1
<1>1. Len(b) \in Nat /\ (Len(b) = 0 => b = <<>>)
  BY DEF IsPath
<1>2. ASSUME Len(b) # 0 PROVE Len(SubSeq(b, 1, Len(b) - 1)) = Len(b) - 1
  <2> DEFINE n == Len(b) - 1
             S == {b[h] : h \in DOMAIN b}
  <2>1. n \in Nat /\ n \in 0..Len(b) /\ b \in Seq(S)
    BY <1>1, <1>2 DEF IsPath
  <2>2. Len(SubSeq(b, 1, n)) = n
    <3> HIDE DEF n, S
    <3> QED BY <1>1, <2>1
  <2>3. QED
    BY <2>2
<1>3. QED
  BY <1>1, <1>2 DEF Height, Parent, Ancestor, Genesis

\* Genesis has height 0.
LEMMA GenesisIsPath == IsPath(Genesis) /\ Height(Genesis) = 0
  BY DEF IsPath, Genesis, Height

\* Building on a block.
LEMMA AppendIsPath ==
    ASSUME NEW b, IsPath(b), NEW l
    PROVE  /\ IsPath(Append(b, l)) /\ Append(b, l) # Genesis
           /\ Parent(Append(b, l)) = b /\ Append(b, l)[Height(Append(b, l))] = l
<1> DEFINE S == {b[h] : h \in DOMAIN b} \cup {l}
           c == Append(b, l)
<1>1. b \in Seq(S) /\ Len(b) \in Nat
  BY DEF IsPath
<1>2. c \in Seq(S) /\ Len(c) = Len(b) + 1 /\ c[Len(c)] = l
  <2> HIDE DEF S
  <2>1. l \in S
    BY DEF S
  <2> QED BY <1>1, <2>1
<1>3. SubSeq(c, 1, Len(c) - 1) = b
  <2> HIDE DEF S
  <2> QED BY <1>1, <1>2
<1>4. IsPath(c)
  <2> HIDE DEF S, c
  <2> QED BY <1>2 DEF IsPath
<1>5. c # <<>>
  BY <1>1, <1>2
<1>6. QED
  BY <1>2, <1>3, <1>4, <1>5 DEF Height, Parent, Ancestor, Genesis

\* The sets of the chain are those of the assumption, in which a validator has one
\* place.
LEMMA SetsAreSets ==
    ASSUME NEW set \in {Order, Remaining}
    PROVE  set \in Seq(Validators) /\ Distinct(set)
  BY HandoverAssumption DEF Distinct

\* ValidatorsAt depends on the canonical chain alone.
LEMMA ValidatorsAtIs ==
    ASSUME NEW c, NEW number
    PROVE  ValidatorsAt(c, number) \in {Order, Remaining} /\ ValidatorsAt(c, number) = SetOn(c.head, number)
<1>1. ValidatorsAt(c, number) \in {Order, Remaining}
  BY DEF ValidatorsAt, ActiveAfter
<1>2. ValidatorsAt(c, number) = SetOn(c.head, number)
  BY DEF ValidatorsAt, SetOn
<1>3. QED
  BY <1>1, <1>2

\* The members of a set are finitely many.
LEMMA MembersFinite ==
    ASSUME NEW set \in Seq(Validators)
    PROVE  IsFiniteSet({set[i] : i \in DOMAIN set}) /\ Len(set) \in Nat /\ Quorum(Len(set)) \in Nat
<1>1. Len(set) \in Nat /\ DOMAIN set = 1..Len(set) /\ 1 \in Int /\ Len(set) \in Int
  OBVIOUS
<1>2. IsFiniteSet(1..Len(set))
  BY <1>1, FS_Interval, Zenon
<1>3. IsFiniteSet({set[i] : i \in 1..Len(set)})
  <2>1. set \in Surjection(1..Len(set), {set[i] : i \in 1..Len(set)})
    BY <1>1 DEF Surjection
  <2>2. QED
    BY <1>2, <2>1, FS_Surjection, Zenon
<1>4. Quorum(Len(set)) \in Nat
  BY <1>1 DEF Quorum
<1>5. QED
  BY <1>1, <1>3, <1>4, Zenon

\* More votes make no quorum undone.
LEMMA QuorumVotedLarger ==
    ASSUME NEW set \in {Order, Remaining}, NEW b, NEW V, NEW W, V \subseteq W, QuorumVoted(set, b, V)
    PROVE  QuorumVoted(set, b, W)
<1> DEFINE M == {set[i] : i \in DOMAIN set}
           v == {x \in M : \E a \in V : a.signer = x /\ a.hash = b}
           w == {x \in M : \E a \in W : a.signer = x /\ a.hash = b}
<1>1. IsFiniteSet(M) /\ Quorum(Len(set)) \in Nat
  BY SetsAreSets, MembersFinite, Zenon
<1>2. v \subseteq w /\ w \subseteq M
  OBVIOUS
<1>3. Cardinality(v) >= Quorum(Len(set))
  BY DEF QuorumVoted
<1>4. (Cardinality(w) >= Quorum(Len(set))) => QuorumVoted(set, b, W)
  BY DEF QuorumVoted
<1> HIDE DEF M, v, w
<1>5. IsFiniteSet(w)
  BY <1>1, <1>2, FS_Subset, Zenon
<1>6. IsFiniteSet(v) /\ Cardinality(v) <= Cardinality(w)
  BY <1>2, <1>5, FS_Subset, Zenon
<1>7. Cardinality(v) \in Nat /\ Cardinality(w) \in Nat
  BY <1>5, <1>6, FS_CardinalityType, Zenon
<1>8. QED
  BY <1>1, <1>3, <1>4, <1>6, <1>7

\* AggregateAttestation.Verify: whatever set the votes were collected under, a
\* quorum of the set they are checked against has signed.
LEMMA VerifyMeansQuorum ==
    ASSUME NEW cert, NEW set \in {Order, Remaining}, NEW b, NEW V, Backed(cert, b, V), Verify(cert, set)
    PROVE  QuorumVoted(set, b, V)
<1> DEFINE S == cert.signers
           M == {set[i] : i \in DOMAIN set}
           C == {set[i + 1] : i \in S}
           v == {x \in M : \E a \in V : a.signer = x /\ a.hash = b}
           f == [i \in S |-> set[i + 1]]
<1>1. set \in Seq(Validators) /\ Distinct(set) /\ IsFiniteSet(M) /\ Quorum(Len(set)) \in Nat /\ Len(set) \in Nat
  BY SetsAreSets, MembersFinite, Zenon
<1>2. S \subseteq 0..(Len(set) - 1) /\ Cardinality(S) >= Quorum(Len(set))
  BY DEF Verify
<1>3. C = {cert.order[i + 1] : i \in S}
  BY Zenon DEF Verify
<1>4. \A i \in S : i \in Int /\ i + 1 \in DOMAIN set
  BY <1>1, <1>2
<1>5. C \subseteq v /\ v \subseteq M
  BY <1>3, <1>4 DEF Backed
<1>6. (Cardinality(v) >= Quorum(Len(set))) => QuorumVoted(set, b, V)
  BY DEF QuorumVoted
<1>7. f \in Surjection(S, C)
  BY DEF Surjection
<1>8. f \in Injection(S, C)
  <2>1. \A i, j \in S : set[i + 1] = set[j + 1] => i = j
    BY <1>1, <1>4 DEF Distinct
  <2>2. QED
    BY <2>1, Zenon DEF Injection, IsInjective
<1>9. IsFiniteSet(S)
  <2>1. 0 \in Int /\ Len(set) - 1 \in Int
    BY <1>1
  <2>2. IsFiniteSet(0..(Len(set) - 1))
    BY <2>1, FS_Interval, Zenon
  <2>3. QED
    BY <1>2, <2>2, FS_Subset, Zenon
<1> HIDE DEF S, M, C, v, f
<1>10. Cardinality(C) = Cardinality(S)
  BY <1>7, <1>8, <1>9, FS_Surjection, Zenon
<1>11. IsFiniteSet(v)
  BY <1>1, <1>5, FS_Subset, Zenon
<1>12. IsFiniteSet(C) /\ Cardinality(C) <= Cardinality(v)
  BY <1>5, <1>11, FS_Subset, Zenon
<1>13. Cardinality(C) \in Nat /\ Cardinality(v) \in Nat
  BY <1>11, <1>12, FS_CardinalityType, Zenon
<1>14. QED
  BY <1>1, <1>2, <1>6, <1>10, <1>12, <1>13

-----------------------------------------------------------------------------
(* Pools and chains.                                                       *)

\* Votes are told apart by what they say and who signed them.
LEMMA AllVotesAreVotes ==
    ASSUME NEW B
    PROVE  VoteSet(AllVotes(B))
  BY DEF VoteSet, AllVotes

\* What a pool holds is right as more blocks and votes are sent.
LEMMA HoldsVotesLarger ==
    ASSUME NEW B, NEW V, NEW B2, NEW V2, B \subseteq B2, V \subseteq V2, NEW p, HoldsVotes(p, B, V)
    PROVE  HoldsVotes(p, B2, V2)
<1>1. AllVotes(B) \subseteq AllVotes(B2)
  BY DEF AllVotes
<1>2. QED
  BY <1>1, PoolOfLarger, Zenon DEF HoldsVotes

\* Certificate: each marked place is that of a member with a vote in the pool.
LEMMA CertificateBacked ==
    ASSUME NEW B, NEW V, NEW p, HoldsVotes(p, B, V), NEW n, NEW h, NEW r, r = Certificate(p, n, h)
    PROVE  /\ HoldsVotes(r.pool, B, V)
           /\ r.signers # {} => CertOf(p, r) = [order |-> p.addresses, signers |-> r.signers]
           /\ Backed(CertOf(p, r), h, V)
<1> DEFINE good == {a \in VotesFor(p, n, h) : Verifies(p, a)}
<1>1. PoolOf(p, AllVotes(B)) /\ VoteSet(AllVotes(B)) /\ p.votes \subseteq V /\ p.addresses \in Seq(Validators)
      /\ p.votes \subseteq AllVotes(B)
  BY AllVotesAreVotes DEF HoldsVotes, PoolOf
<1>2. PoolOf(r.pool, AllVotes(B)) /\ r.pool.votes \subseteq p.votes /\ r.pool.addresses = p.addresses
  <2>1. r.pool.addresses = p.addresses
    BY <1>1, CertificateKeeps
  <2>2. PoolOf(r.pool, AllVotes(B)) /\ r.pool.votes \subseteq p.votes
    BY <1>1, CertificateKeeps, Zenon
  <2>3. QED
    BY <2>1, <2>2
<1>3. r.signers = {} \/ r.signers = {a.index : a \in good}
  BY DEF Certificate
<1>4. \A a \in good : a \in p.votes /\ a.hash = h /\ p.addresses[a.index + 1] = a.signer
  <2> TAKE a \in good
  <2>1. a \in p.votes /\ a.hash = h /\ Verifies(p, a)
    BY DEF VotesFor
  <2>2. a.index \in Nat
    BY <1>1, <2>1 DEF VoteSet
  <2>3. QED
    BY <1>1, <2>1, <2>2, VerifiesIsSigned, Zenon
<1>5. CertOf(p, r) = IF r.signers = {} THEN NoCert ELSE [order |-> p.addresses, signers |-> r.signers]
  BY DEF CertOf
<1> HIDE DEF good
<1>6. CASE r.signers = {}
  BY <1>1, <1>2, <1>5, <1>6 DEF Backed, NoCert, HoldsVotes
<1>7. CASE r.signers # {}
  <2>1. CertOf(p, r).order = p.addresses /\ CertOf(p, r).signers = {a.index : a \in good}
    BY <1>3, <1>5, <1>7
  <2>2. Backed(CertOf(p, r), h, V)
    BY <1>1, <1>4, <2>1 DEF Backed
  <2>3. QED
    BY <1>1, <1>2, <1>5, <1>7, <2>2 DEF HoldsVotes
<1>8. QED
  BY <1>6, <1>7

ChainFields == {"stored", "head", "final"}

IsChain(c) == c = [f \in ChainFields |-> c[f]]

(* A chain has the blocks of its head and its floor. *)
HoldsItsOwn(c) == c.head \in c.stored /\ c.final \in c.stored \cup {NoBlock}

(* What finalizing b makes of a chain, and why. *)
FinalizedBy(c, d, b, V) ==
    /\ d.stored = c.stored /\ b \in c.stored
    /\ d.final = b /\ d.head = (IF OnBranch(b, c.head) THEN c.head ELSE b)
    /\ QuorumVoted(SetOn(c.head, Height(b)), b, V)

\* tryFinalize and Finalize: the floor moves by a quorum of the votes, or nothing
\* moves.
LEMMA TryFinalizeGives ==
    ASSUME NEW B, NEW V, NEW p, HoldsVotes(p, B, V), NEW c, IsChain(c), NEW b, Height(b) \in Nat,
           NEW t, t = TryFinalize(c, p, Height(b), b)
    PROVE  /\ HoldsVotes(t.pool, B, V)
           /\ t.chain = c \/ FinalizedBy(c, t.chain, b, V)
<1> DEFINE n == Height(b)
           cert == Certificate(p, n, b)
           ok == /\ cert.signers # {} /\ Verify(CertOf(p, cert), ValidatorsAt(c, n))
                 /\ MayFinalize(c, b)
           d == [c EXCEPT !.final = b, !.head = IF OnBranch(b, @) THEN @ ELSE b]
<1>1. /\ t.chain = IF ok THEN d ELSE c
      /\ t.pool = IF ok THEN MarkFinalized(cert.pool, n) ELSE cert.pool
  BY DEF TryFinalize
<1>2. d = [f \in ChainFields |-> IF f = "final" THEN b
                                 ELSE IF f = "head" THEN (IF OnBranch(b, c.head) THEN c.head ELSE b)
                                 ELSE c[f]]
  BY Zenon DEF IsChain, ChainFields
<1>3. d.stored = c.stored /\ d.final = b /\ d.head = (IF OnBranch(b, c.head) THEN c.head ELSE b)
  BY <1>2 DEF ChainFields
<1> HIDE DEF d
<1>4. HoldsVotes(cert.pool, B, V) /\ Backed(CertOf(p, cert), b, V)
  <2>1. PICK r : r = cert
    OBVIOUS
  <2> HIDE DEF cert
  <2>2. HoldsVotes(r.pool, B, V) /\ Backed(CertOf(p, r), b, V)
    BY <2>1, CertificateBacked, Zenon DEF cert
  <2>3. QED
    BY <2>1, <2>2
<1>5. HoldsVotes(MarkFinalized(cert.pool, n), B, V)
  <2>1. PICK q : q = cert.pool
    OBVIOUS
  <2> HIDE DEF cert
  <2>2. /\ PoolOf(q, AllVotes(B)) /\ q.votes \subseteq V /\ VoteSet(AllVotes(B)) /\ Retain \in Nat /\ n \in Nat
        /\ q.addresses \in {Order, Remaining}
    BY <1>4, <2>1, AllVotesAreVotes, HandoverAssumption DEF HoldsVotes
  <2>3. /\ PoolOf(MarkFinalized(q, n), AllVotes(B)) /\ MarkFinalized(q, n).votes \subseteq q.votes
        /\ MarkFinalized(q, n).addresses = q.addresses
    <3> HIDE DEF n
    <3> QED BY <2>2, MarkFinalizedKeeps, Zenon
  <2>4. QED
    BY <2>1, <2>2, <2>3 DEF HoldsVotes
<1>6. ASSUME Verify(CertOf(p, cert), ValidatorsAt(c, n)) PROVE QuorumVoted(SetOn(c.head, n), b, V)
  <2> HIDE DEF cert, n
  <2>1. ValidatorsAt(c, n) \in {Order, Remaining} /\ ValidatorsAt(c, n) = SetOn(c.head, n)
    BY ValidatorsAtIs
  <2>2. QuorumVoted(ValidatorsAt(c, n), b, V)
    BY <1>4, <1>6, <2>1, VerifyMeansQuorum, Zenon
  <2>3. QED
    BY <2>1, <2>2, Zenon
<1> HIDE DEF cert
<1>7. CASE ok
  <2>1. /\ t.chain = d /\ t.pool = MarkFinalized(cert.pool, n) /\ QuorumVoted(SetOn(c.head, n), b, V)
        /\ b \in c.stored
    BY <1>1, <1>6, <1>7 DEF MayFinalize
  <2>2. QED
    BY <1>3, <1>5, <2>1 DEF FinalizedBy
<1>8. CASE ~ok
  BY <1>1, <1>4, <1>8
<1>9. QED
  BY <1>7, <1>8

\* A pool handed a new set keeps its votes.
LEMMA UpdatedPool ==
    ASSUME NEW W, NEW p, PoolOf(p, W), NEW set \in Seq(Validators), NEW q, q = UpdateValidators(p, set)
    PROVE  PoolOf(q, W) /\ q.votes = p.votes /\ q.addresses = set
  BY UpdateValidatorsFields

\* Add: the vote joins the others, or the pool keeps those it had.
LEMMA AddHolds ==
    ASSUME NEW B, NEW V, NEW p, HoldsVotes(p, B, V), NEW a \in AllVotes(B), NEW r, r = Add(p, a)
    PROVE  /\ HoldsVotes(r.pool, B, V \cup {a})
           /\ r.report \notin {"new", "old"} => HoldsVotes(r.pool, B, V)
<1>1. PoolOf(p, AllVotes(B)) /\ VoteSet(AllVotes(B)) /\ p.votes \subseteq V /\ p.addresses \in {Order, Remaining}
  BY AllVotesAreVotes DEF HoldsVotes
<1>2. \/ r.pool = p
      \/ PoolOf(r.pool, AllVotes(B)) /\ r.pool.addresses = p.addresses /\ r.pool.votes = p.votes
      \/ /\ r.report = "new" /\ PoolOf(r.pool, AllVotes(B)) /\ r.pool.addresses = p.addresses
         /\ r.pool.votes = p.votes \cup {a}
  BY <1>1, AddGives
<1>3. CASE r.pool = p
  BY <1>1, <1>3 DEF HoldsVotes
<1>4. CASE PoolOf(r.pool, AllVotes(B)) /\ r.pool.addresses = p.addresses /\ r.pool.votes = p.votes
  BY <1>1, <1>4 DEF HoldsVotes
<1>5. CASE /\ r.report = "new" /\ PoolOf(r.pool, AllVotes(B)) /\ r.pool.addresses = p.addresses
           /\ r.pool.votes = p.votes \cup {a}
  BY <1>1, <1>5 DEF HoldsVotes
<1>6. QED
  BY <1>2, <1>3, <1>4, <1>5, Zenon

\* attest: a vote is broadcast only if the own pool has it or has settled the height.
LEMMA AttestGives ==
    ASSUME NEW B, NEW V, NEW p, HoldsVotes(p, B, V), NEW c, IsChain(c), NEW b \in B, Height(b) \in Nat,
           NEW n \in Online, NEW r, r = Attest(n, c, p, b)
    PROVE  /\ r.vote \subseteq AllVotes(B) /\ \A a \in r.vote : a.number = Height(a.hash)
           /\ HoldsVotes(r.pool, B, V \cup r.vote)
           /\ r.chain = c \/ FinalizedBy(c, r.chain, b, V \cup r.vote)
<1> DEFINE indices == IndexOf(p, n)
           a == Attestation(Height(b), b, CHOOSE i \in indices : TRUE, n)
           s == Add(p, a)
           t == TryFinalize(c, s.pool, Height(b), b)
<1>1. r = IF indices = {} THEN [chain |-> c, pool |-> p, vote |-> {}]
          ELSE IF s.report \in {"new", "old"} THEN [chain |-> t.chain, pool |-> t.pool, vote |-> {a}]
          ELSE [chain |-> c, pool |-> s.pool, vote |-> {}]
  BY DEF Attest
<1>2. CASE indices = {}
  <2>1. r.chain = c /\ r.pool = p /\ r.vote = {}
    <3>1. r = [chain |-> c, pool |-> p, vote |-> {}]
      BY <1>1, <1>2, Zenon
    <3>2. QED
      BY <3>1
  <2>2. QED
    BY <2>1
<1>3. CASE indices # {}
  <2>1. a \in AllVotes(B) /\ a.number = Height(a.hash)
    <3>1. (CHOOSE i \in indices : TRUE) \in indices
      BY <1>3
    <3>2. indices \subseteq Nat
      BY DEF IndexOf
    <3>3. n \in Validators
      BY HandoverAssumption DEF Members
    <3>4. QED
      BY <3>1, <3>2, <3>3 DEF AllVotes, Attestation
  <2> HIDE DEF a, indices
  <2>2. HoldsVotes(s.pool, B, V \cup {a}) /\ (s.report \notin {"new", "old"} => HoldsVotes(s.pool, B, V))
    <3>1. PICK q : q = s
      OBVIOUS
    <3>2. HoldsVotes(q.pool, B, V \cup {a}) /\ (q.report \notin {"new", "old"} => HoldsVotes(q.pool, B, V))
      BY <2>1, <3>1, AddHolds, Zenon
    <3>3. QED
      BY <3>1, <3>2
  <2>3. CASE s.report \in {"new", "old"}
    <3>1. PICK q : q = s.pool
      OBVIOUS
    <3>2. PICK u : u = TryFinalize(c, q, Height(b), b)
      OBVIOUS
    <3>3. r.chain = u.chain /\ r.pool = u.pool /\ r.vote = {a}
      BY <1>1, <1>3, <2>3, <3>1, <3>2
    <3>4. HoldsVotes(u.pool, B, V \cup {a}) /\ (u.chain = c \/ FinalizedBy(c, u.chain, b, V \cup {a}))
      <4>1. HoldsVotes(q, B, V \cup {a})
        BY <2>2, <3>1
      <4>2. QED
        BY <3>2, <4>1, TryFinalizeGives, Zenon
    <3>5. QED
      BY <2>1, <3>3, <3>4
  <2>4. CASE s.report \notin {"new", "old"}
    <3>1. r.chain = c /\ r.pool = s.pool /\ r.vote = {}
      BY <1>1, <1>3, <2>4
    <3>2. QED
      BY <2>2, <2>4, <3>1
  <2>5. QED
    BY <2>3, <2>4
<1>4. QED
  BY <1>2, <1>3

\* insertLocked: the head moves to the block or stays, the floor to its parent, by
\* the certificate in the header, or stays.
LEMMA InsertedGives ==
    ASSUME NEW c, IsChain(c), NEW b, NEW d, d = Inserted(c, b)
    PROVE  /\ IsChain(d) /\ d.head \in {c.head, b} /\ d.stored = c.stored \cup {b}
           /\ HoldsItsOwn(c) => HoldsItsOwn(d)
           /\ d.final = c.final \/ (d.final = Parent(b) /\ b[Height(b)].just # NoCert)
<1> DEFINE c1 == [c EXCEPT !.stored = @ \cup {b}]
           go == b[Height(b)].just # NoCert /\ MayFinalize(c1, Parent(b))
           c2 == IF go THEN [c1 EXCEPT !.final = Parent(b)] ELSE c1
<1>1. d = IF Height(b) > Height(c.head) THEN [c2 EXCEPT !.head = b] ELSE c2
  BY DEF Inserted
<1>2. IsChain(c1) /\ c1.head = c.head /\ c1.final = c.final /\ c1.stored = c.stored \cup {b}
  BY DEF IsChain, ChainFields
<1> HIDE DEF c1
<1>3. /\ IsChain(c2) /\ c2.head = c.head /\ c2.stored = c.stored \cup {b}
      /\ c2.final = c.final \/ (c2.final = Parent(b) /\ go)
  BY <1>2 DEF IsChain, ChainFields
<1> HIDE DEF c2
<1>4. /\ IsChain(d) /\ d.head \in {c.head, b} /\ d.stored = c.stored \cup {b}
      /\ d.final = c.final \/ (d.final = Parent(b) /\ go)
  BY <1>1, <1>3 DEF IsChain, ChainFields
<1>5. go => Parent(b) \in c.stored \cup {b}
  BY <1>2 DEF MayFinalize
<1>6. QED
  BY <1>4, <1>5 DEF HoldsItsOwn

\* The chain of a node as the record the operations work on.
LEMMA ChainOfNode ==
    ASSUME NEW n
    PROVE  /\ IsChain(ChainOf(n)) /\ ChainOf(n).stored = imported[n]
           /\ ChainOf(n).head = head[n] /\ ChainOf(n).final = final[n]
  BY DEF ChainOf, IsChain, ChainFields

-----------------------------------------------------------------------------
(* What one node does.                                                     *)

\* Blocks stay backed as votes come in.
LEMMA BlockOKLarger ==
    ASSUME NEW V, NEW W, V \subseteq W, NEW b, BlockOK(b, V)
    PROVE  BlockOK(b, W)
  BY DEF BlockOK, Backed

\* When the head of a node is known, its pool holds votes that were broadcast, and
\* what becomes final has a quorum of the node's own set, the invariant is kept.
LEMMA NodeStep ==
    ASSUME HandoverInv, NEW n \in Online, NEW c, NEW p, SetNode(n, c, p),
           blocksOut \subseteq blocksOut', votesOut \subseteq votesOut',
           \A b \in blocksOut' : BlockOK(b, votesOut'),
           votesOut' \subseteq AllVotes(Known'), \A a \in votesOut' : a.number = Height(a.hash),
           imported[n] \subseteq c.stored, HoldsItsOwn(c),
           c.head \in Known', HoldsVotes(p, Known', votesOut'),
           \/ c.final = final[n]
           \/ \E tip \in {head[n], c.head} : QuorumVoted(SetOn(tip, Height(c.final)), c.final, votesOut')
    PROVE  HandoverInv' /\ QuorumMoves
<1>1. /\ imported' = [imported EXCEPT ![n] = c.stored] /\ head' = [head EXCEPT ![n] = c.head]
      /\ final' = [final EXCEPT ![n] = c.final] /\ pools' = [pools EXCEPT ![n] = p]
      /\ finals' = finals \cup ({c.final} \ {NoBlock})
  BY DEF SetNode
<1>2. NodesTyped /\ BlocksHeld /\ HeadsKnown /\ PoolsHoldVotes /\ FinalsBacked
  BY DEF HandoverInv
<1>3. NodesTyped'
  BY <1>1, <1>2, Zenon DEF NodesTyped
<1>4. /\ \A m \in Online : imported'[m] = IF m = n THEN c.stored ELSE imported[m]
      /\ \A m \in Online : head'[m] = IF m = n THEN c.head ELSE head[m]
      /\ \A m \in Online : final'[m] = IF m = n THEN c.final ELSE final[m]
      /\ \A m \in Online : pools'[m] = IF m = n THEN p ELSE pools[m]
  BY <1>1, <1>2 DEF NodesTyped
<1>5. Known \subseteq Known'
  BY DEF Known
<1>6. HeadsKnown'
  BY <1>2, <1>4, <1>5 DEF HeadsKnown
<1>7. PoolsHoldVotes'
  <2> SUFFICES ASSUME NEW m \in Online PROVE HoldsVotes(pools'[m], Known', votesOut')
    BY DEF PoolsHoldVotes
  <2>1. HoldsVotes(pools[m], Known, votesOut)
    BY <1>2 DEF PoolsHoldVotes
  <2>2. HoldsVotes(pools[m], Known', votesOut')
    BY <1>5, <2>1, HoldsVotesLarger, Zenon
  <2>3. QED
    BY <1>4, <2>2
<1>8. QuorumMoves
  BY <1>4 DEF QuorumMoves
<1>9. FinalsBacked'
  <2>1. \A m \in Online : final'[m] = NoBlock \/ final'[m] \in finals'
    <3> TAKE m \in Online
    <3>1. final'[m] = final[m] \/ final'[m] = c.final
      BY <1>4, Zenon
    <3>2. QED
      BY <1>1, <1>2, <3>1 DEF FinalsBacked
  <2>2. \A b \in finals : SomeQuorum(b, votesOut')
    <3> TAKE b \in finals
    <3>1. PICK set \in {Order, Remaining} : QuorumVoted(set, b, votesOut)
      BY <1>2 DEF FinalsBacked, SomeQuorum
    <3>2. QuorumVoted(set, b, votesOut')
      BY <3>1, QuorumVotedLarger, Zenon
    <3>3. QED
      BY <3>2 DEF SomeQuorum
  <2>3. c.final = final[n] \/ SomeQuorum(c.final, votesOut')
    <3> SUFFICES ASSUME NEW tip, QuorumVoted(SetOn(tip, Height(c.final)), c.final, votesOut')
                 PROVE  SomeQuorum(c.final, votesOut')
      OBVIOUS
    <3>1. SetOn(tip, Height(c.final)) \in {Order, Remaining}
      BY ValidatorsAtIs DEF SetOn
    <3>2. QED
      BY <3>1 DEF SomeQuorum
  <2>4. \A b \in finals' : SomeQuorum(b, votesOut')
    BY <1>1, <1>2, <2>2, <2>3 DEF FinalsBacked
  <2>5. QED
    BY <2>1, <2>4 DEF FinalsBacked
<1>10. VotesKnown' /\ BlocksBacked'
  BY DEF VotesKnown, BlocksBacked
<1>11. BlocksHeld'
  <2>1. \A m \in Online : head'[m] \in imported'[m] /\ final'[m] \in imported'[m] \cup {NoBlock}
    BY <1>2, <1>4 DEF BlocksHeld, HoldsItsOwn
  <2>2. \A m \in Online : imported[m] \subseteq imported'[m]
    BY <1>4
  <2>3. c.final = NoBlock \/ c.final \in imported'[n]
    BY <1>4 DEF HoldsItsOwn
  <2>4. QED
    BY <1>1, <1>2, <2>1, <2>2, <2>3 DEF BlocksHeld
<1>12. QED
  BY <1>3, <1>6, <1>7, <1>8, <1>9, <1>10, <1>11 DEF HandoverInv

\* Known blocks are paths from genesis.
LEMMA KnownIsPath ==
    ASSUME HandoverInv, NEW b \in Known
    PROVE  IsPath(b) /\ Height(b) \in Nat
<1>1. IsPath(b)
  BY GenesisIsPath DEF HandoverInv, BlocksBacked, BlockOK, Known
<1>2. QED
  BY <1>1, PathFacts

\* Importing a block, by the miner or from a peer: the floor moves by the certificate
\* in its header, by the own vote for it, or not at all.
LEMMA ImportStep ==
    ASSUME HandoverInv, NEW n \in Online, NEW b \in blocksOut', NEW p, HoldsVotes(p, Known', votesOut),
           blocksOut \subseteq blocksOut', \A x \in blocksOut' : BlockOK(x, votesOut),
           Insertable(ChainOf(n), b), Import(n, b, p)
    PROVE  HandoverInv' /\ QuorumMoves
<1>1. PICK c : c = Inserted(ChainOf(n), b)
  OBVIOUS
<1>2. PICK q : q = SyncValidatorSet(c, p)
  OBVIOUS
<1>3. PICK r : r = Attest(n, c, q, b)
  OBVIOUS
<1>4. SetNode(n, r.chain, r.pool) /\ votesOut' = votesOut \cup r.vote
  BY <1>1, <1>2, <1>3 DEF Import
<1>5. /\ IsChain(c) /\ c.head \in {head[n], b}
      /\ imported[n] \subseteq c.stored /\ HoldsItsOwn(c)
      /\ c.final = final[n] \/ (c.final = Parent(b) /\ b[Height(b)].just # NoCert)
  <2>1. HoldsItsOwn(ChainOf(n))
    BY ChainOfNode DEF HandoverInv, BlocksHeld, HoldsItsOwn
  <2>2. QED
    <3>1. PICK d : d = ChainOf(n)
      OBVIOUS
    <3>2. IsChain(d) /\ d.stored = imported[n] /\ d.head = head[n] /\ d.final = final[n] /\ HoldsItsOwn(d)
      BY <2>1, <3>1, ChainOfNode
    <3>3. /\ IsChain(c) /\ c.head \in {d.head, b} /\ c.stored = d.stored \cup {b} /\ HoldsItsOwn(c)
          /\ c.final = d.final \/ (c.final = Parent(b) /\ b[Height(b)].just # NoCert)
      BY <1>1, <3>1, <3>2, InsertedGives
    <3>4. QED
      BY <3>2, <3>3
<1>6. BlockOK(b, votesOut) /\ IsPath(b) /\ b # Genesis /\ b \in Known' /\ Known \subseteq Known'
  BY DEF BlockOK, Known
<1>7. Height(b) \in Nat /\ Height(Parent(b)) = Height(b) - 1
  BY <1>6, PathFacts
<1>8. HoldsVotes(q, Known', votesOut)
  <2>1. PICK set : set = ValidatorsAt(c, Height(c.head) + 1)
    OBVIOUS
  <2>2. set \in {Order, Remaining} /\ set \in Seq(Validators)
    BY <2>1, ValidatorsAtIs, SetsAreSets, Zenon
  <2>3. PICK W : W = AllVotes(Known')
    OBVIOUS
  <2>4. PoolOf(q, W) /\ q.votes = p.votes /\ q.addresses = set
    <3>1. PoolOf(p, W) /\ q = UpdateValidators(p, set)
      BY <1>2, <2>1, <2>3 DEF HoldsVotes, SyncValidatorSet
    <3>2. QED
      BY <2>2, <3>1, UpdatedPool
  <2>5. QED
    BY <2>2, <2>3, <2>4 DEF HoldsVotes
<1>9. /\ r.vote \subseteq AllVotes(Known') /\ \A a \in r.vote : a.number = Height(a.hash)
      /\ HoldsVotes(r.pool, Known', votesOut')
      /\ r.chain = c \/ FinalizedBy(c, r.chain, b, votesOut')
  <2>1. /\ r.vote \subseteq AllVotes(Known') /\ \A a \in r.vote : a.number = Height(a.hash)
        /\ HoldsVotes(r.pool, Known', votesOut \cup r.vote)
        /\ r.chain = c \/ FinalizedBy(c, r.chain, b, votesOut \cup r.vote)
    <3>1. IsChain(c) /\ b \in Known' /\ Height(b) \in Nat /\ HoldsVotes(q, Known', votesOut)
      BY <1>5, <1>6, <1>7, <1>8, Zenon
    <3>2. QED
      BY <1>3, <3>1, AttestGives
  <2>2. QED
    BY <1>4, <2>1
<1>10. c.final = final[n] \/ QuorumVoted(SetOn(head[n], Height(c.final)), c.final, votesOut')
  <2> SUFFICES ASSUME c.final = Parent(b), b[Height(b)].just # NoCert
               PROVE  QuorumVoted(SetOn(head[n], Height(Parent(b))), Parent(b), votesOut')
    BY <1>5
  <2>1. PICK set : set = ValidatorsAt(ChainOf(n), Height(b) - 1)
    OBVIOUS
  <2>2. set \in {Order, Remaining} /\ set = SetOn(head[n], Height(Parent(b)))
    BY <1>7, <2>1, ValidatorsAtIs, ChainOfNode
  <2>3. Verify(b[Height(b)].just, set) /\ Backed(b[Height(b)].just, Parent(b), votesOut)
    BY <1>6, <2>1 DEF Insertable, BlockOK
  <2>4. QuorumVoted(set, Parent(b), votesOut)
    BY <2>2, <2>3, VerifyMeansQuorum, Zenon
  <2>5. QuorumVoted(set, Parent(b), votesOut')
    BY <1>4, <2>2, <2>4, QuorumVotedLarger, Zenon
  <2>6. QED
    BY <2>2, <2>5, Zenon
<1>11. /\ r.chain.head \in Known' /\ imported[n] \subseteq r.chain.stored /\ HoldsItsOwn(r.chain)
       /\ \/ r.chain.final = final[n]
          \/ \E tip \in {head[n], r.chain.head} :
                QuorumVoted(SetOn(tip, Height(r.chain.final)), r.chain.final, votesOut')
  <2>1. head[n] \in Known'
    BY <1>6 DEF HandoverInv, HeadsKnown
  <2>2. CASE r.chain = c
    BY <1>5, <1>6, <1>10, <2>1, <2>2
  <2>3. CASE FinalizedBy(c, r.chain, b, votesOut')
    <3>1. /\ r.chain.final = b /\ r.chain.head = (IF OnBranch(b, c.head) THEN c.head ELSE b)
          /\ QuorumVoted(SetOn(c.head, Height(b)), b, votesOut')
      BY <2>3 DEF FinalizedBy
    <3>2. r.chain.head \in Known'
      BY <1>5, <1>6, <2>1, <3>1
    <3>3. c.head = head[n] \/ c.head = r.chain.head
      BY <1>5, <3>1
    <3>4. imported[n] \subseteq r.chain.stored /\ HoldsItsOwn(r.chain)
      BY <1>5, <2>3 DEF FinalizedBy, HoldsItsOwn
    <3>5. QED
      BY <3>1, <3>2, <3>3, <3>4, Zenon
  <2>4. QED
    BY <1>9, <2>2, <2>3
<1>12. /\ votesOut \subseteq votesOut' /\ votesOut' \subseteq AllVotes(Known')
       /\ \A a \in votesOut' : a.number = Height(a.hash)
  <2>1. AllVotes(Known) \subseteq AllVotes(Known')
    BY <1>6 DEF AllVotes
  <2>2. QED
    BY <1>4, <1>9, <2>1 DEF HandoverInv, VotesKnown
<1>13. \A x \in blocksOut' : BlockOK(x, votesOut')
  BY <1>12, BlockOKLarger, Zenon
<1>14. QED
  BY <1>4, <1>9, <1>11, <1>12, <1>13, NodeStep, Zenon

-----------------------------------------------------------------------------
(* The steps.                                                              *)

\* tryPropose: a header carries only votes that were broadcast.
LEMMA ProposeStep ==
    ASSUME HandoverInv, NEW n \in Online, Propose(n)
    PROVE  HandoverInv' /\ QuorumMoves
<1>1. PICK r : r = Certificate(pools[n], Height(head[n]), head[n])
  OBVIOUS
<1>2. PICK l : l = [by |-> n, exit |-> <<n, Height(head[n]) + 1>> \in Exits, just |-> CertOf(pools[n], r),
                    inputs |-> TransitionInputs(ChainOf(n), Height(head[n]) + 1)]
  BY Zenon
<1>3. PICK b : b = Append(head[n], l)
  BY Zenon
<1>4. BuildBlock(n).block = b /\ BuildBlock(n).pool = r.pool
  BY <1>1, <1>2, <1>3 DEF BuildBlock
<1>5. IF Insertable(ChainOf(n), b)
      THEN blocksOut' = blocksOut \cup {b} /\ Import(n, b, r.pool)
      ELSE SetNode(n, ChainOf(n), r.pool) /\ UNCHANGED <<blocksOut, votesOut>>
  BY <1>4 DEF Propose
<1>6. head[n] \in Known /\ HoldsVotes(pools[n], Known, votesOut)
  BY DEF HandoverInv, HeadsKnown, PoolsHoldVotes
<1>7. HoldsVotes(r.pool, Known, votesOut) /\ Backed(CertOf(pools[n], r), head[n], votesOut)
  BY <1>1, <1>6, CertificateBacked, Zenon
<1>8. CASE Insertable(ChainOf(n), b)
  <2>1. blocksOut' = blocksOut \cup {b} /\ Import(n, b, r.pool)
    BY <1>5, <1>8
  <2>2. IsPath(b) /\ b # Genesis /\ Parent(b) = head[n] /\ b[Height(b)] = l
    BY <1>3, <1>6, KnownIsPath, AppendIsPath, Zenon
  <2>3. l.just = CertOf(pools[n], r)
    BY <1>2
  <2>4. BlockOK(b, votesOut)
    BY <1>7, <2>2, <2>3 DEF BlockOK
  <2>5. \A x \in blocksOut' : BlockOK(x, votesOut)
    BY <2>1, <2>4 DEF HandoverInv, BlocksBacked
  <2>6. Known \subseteq Known' /\ b \in blocksOut' /\ blocksOut \subseteq blocksOut'
    BY <2>1 DEF Known
  <2>7. HoldsVotes(r.pool, Known', votesOut)
    BY <1>7, <2>6, HoldsVotesLarger, Zenon
  <2>8. QED
    BY <1>8, <2>1, <2>5, <2>6, <2>7, ImportStep, Zenon
<1>9. CASE ~Insertable(ChainOf(n), b)
  <2>1. SetNode(n, ChainOf(n), r.pool) /\ blocksOut' = blocksOut /\ votesOut' = votesOut /\ Known' = Known
    BY <1>5, <1>9 DEF Known
  <2>2. /\ ChainOf(n).head = head[n] /\ ChainOf(n).final = final[n]
        /\ imported[n] \subseteq ChainOf(n).stored /\ HoldsItsOwn(ChainOf(n))
    BY ChainOfNode DEF HandoverInv, BlocksHeld, HoldsItsOwn
  <2>3. /\ \A x \in blocksOut' : BlockOK(x, votesOut')
        /\ votesOut' \subseteq AllVotes(Known') /\ \A a \in votesOut' : a.number = Height(a.hash)
        /\ ChainOf(n).head \in Known' /\ HoldsVotes(r.pool, Known', votesOut')
    BY <1>6, <1>7, <2>1, <2>2 DEF HandoverInv, BlocksBacked, VotesKnown
  <2>4. QED
    BY <2>1, <2>2, <2>3, NodeStep
<1>10. QED
  BY <1>8, <1>9

\* HandleBlock of another node's block.
LEMMA HandleBlockStep ==
    ASSUME HandoverInv, NEW n \in Online, NEW b \in blocksOut, HandleBlock(n, b)
    PROVE  HandoverInv' /\ QuorumMoves
<1>1. Insertable(ChainOf(n), b) /\ Import(n, b, pools[n]) /\ blocksOut' = blocksOut /\ Known' = Known
  BY DEF HandleBlock, Known
<1>2. HoldsVotes(pools[n], Known', votesOut) /\ \A x \in blocksOut' : BlockOK(x, votesOut)
  BY <1>1 DEF HandoverInv, PoolsHoldVotes, BlocksBacked
<1>3. b \in blocksOut' /\ blocksOut \subseteq blocksOut'
  BY <1>1
<1>4. QED
  BY <1>1, <1>2, <1>3, ImportStep, Zenon

\* HandleAttestations: a vote from a peer may complete the quorum.
LEMMA HandleAttestationStep ==
    ASSUME HandoverInv, NEW n \in Online, NEW a \in votesOut, HandleAttestation(n, a)
    PROVE  HandoverInv' /\ QuorumMoves
<1>1. PICK r : r = Add(pools[n], a)
  OBVIOUS
<1>2. PICK t : t = TryFinalize(ChainOf(n), r.pool, a.number, a.hash)
  OBVIOUS
<1>3. /\ IF r.report = "new" THEN SetNode(n, t.chain, t.pool) ELSE SetNode(n, ChainOf(n), r.pool)
      /\ blocksOut' = blocksOut /\ votesOut' = votesOut /\ Known' = Known
  BY <1>1, <1>2 DEF HandleAttestation, Known
<1>4. /\ a \in AllVotes(Known) /\ a.hash \in Known /\ a.number = Height(a.hash)
      /\ head[n] \in Known /\ HoldsVotes(pools[n], Known, votesOut)
  BY DEF HandoverInv, VotesKnown, HeadsKnown, PoolsHoldVotes, AllVotes
<1>5. HoldsVotes(r.pool, Known, votesOut)
  <2>1. HoldsVotes(r.pool, Known, votesOut \cup {a})
    BY <1>1, <1>4, AddHolds, Zenon
  <2>2. votesOut \cup {a} = votesOut
    OBVIOUS
  <2>3. QED
    BY <2>1, <2>2
<1>6. /\ IsChain(ChainOf(n)) /\ ChainOf(n).head = head[n] /\ ChainOf(n).final = final[n]
      /\ ChainOf(n).stored = imported[n] /\ HoldsItsOwn(ChainOf(n))
  BY ChainOfNode DEF HandoverInv, BlocksHeld, HoldsItsOwn
<1>7. Height(a.hash) \in Nat
  BY <1>4, KnownIsPath
<1>8. HoldsVotes(t.pool, Known, votesOut) /\ (t.chain = ChainOf(n) \/ FinalizedBy(ChainOf(n), t.chain, a.hash, votesOut))
  <2>1. t = TryFinalize(ChainOf(n), r.pool, Height(a.hash), a.hash)
    BY <1>2, <1>4
  <2>2. QED
    BY <1>5, <1>6, <1>7, <2>1, TryFinalizeGives, Zenon
<1>9. PICK c, p : /\ SetNode(n, c, p) /\ HoldsVotes(p, Known, votesOut)
                  /\ c = ChainOf(n) \/ FinalizedBy(ChainOf(n), c, a.hash, votesOut)
  BY <1>3, <1>5, <1>8
<1>10. /\ c.head \in Known /\ imported[n] \subseteq c.stored /\ HoldsItsOwn(c)
       /\ \/ c.final = final[n]
          \/ \E tip \in {head[n], c.head} : QuorumVoted(SetOn(tip, Height(c.final)), c.final, votesOut)
  <2>1. CASE c = ChainOf(n)
    BY <1>4, <1>6, <2>1
  <2>2. CASE FinalizedBy(ChainOf(n), c, a.hash, votesOut)
    BY <1>4, <1>6, <2>2 DEF FinalizedBy, HoldsItsOwn
  <2>3. QED
    BY <1>9, <2>1, <2>2
<1>11. /\ \A x \in blocksOut' : BlockOK(x, votesOut')
       /\ votesOut' \subseteq AllVotes(Known') /\ \A x \in votesOut' : x.number = Height(x.hash)
       /\ c.head \in Known' /\ HoldsVotes(p, Known', votesOut')
       /\ \/ c.final = final[n]
          \/ \E tip \in {head[n], c.head} : QuorumVoted(SetOn(tip, Height(c.final)), c.final, votesOut')
  BY <1>3, <1>9, <1>10 DEF HandoverInv, BlocksBacked, VotesKnown
<1>12. QED
  BY <1>3, <1>9, <1>10, <1>11, NodeStep, Zenon

\* Every step keeps the invariant, and moves floors by quorums only.
LEMMA HandoverStep ==
    HandoverInv /\ [HandoverNext]_handoverVars => HandoverInv' /\ (QuorumMoves \/ UNCHANGED handoverVars)
<1> SUFFICES ASSUME HandoverInv, [HandoverNext]_handoverVars
             PROVE  HandoverInv' /\ (QuorumMoves \/ UNCHANGED handoverVars)
  OBVIOUS
<1>1. ASSUME NEW n \in Online, Propose(n) PROVE HandoverInv' /\ QuorumMoves
  BY <1>1, ProposeStep
<1>2. ASSUME NEW n \in Online, Deliver(n) PROVE HandoverInv' /\ QuorumMoves
  BY <1>2, HandleBlockStep, HandleAttestationStep DEF Deliver
<1>3. CASE UNCHANGED handoverVars
  BY <1>3, Zenon DEF handoverVars, HandoverInv, NodesTyped, BlocksHeld, HeadsKnown, PoolsHoldVotes, VotesKnown, BlocksBacked,
              FinalsBacked, Known
<1>4. QED
  BY <1>1, <1>2, <1>3 DEF HandoverNext

\* The invariant holds in every reachable state.
THEOREM HandoverInvariant == HandoverSpec => []HandoverInv
<1>1. HandoverInit => HandoverInv
  <2> SUFFICES ASSUME HandoverInit PROVE HandoverInv
    OBVIOUS
  <2>1. HoldsVotes(NewPool(Order), Known, votesOut)
    <3>1. Order \in Seq(Validators)
      BY SetsAreSets
    <3>2. PoolOf(NewPool(Order), AllVotes(Known)) /\ NewPool(Order).votes = {} /\ NewPool(Order).addresses = Order
      BY <3>1, NewPoolFields, Zenon
    <3>3. QED
      BY <3>2 DEF HoldsVotes
  <2>2. PoolsHoldVotes
    BY <2>1 DEF HandoverInit, PoolsHoldVotes
  <2>3. QED
    BY <2>2 DEF HandoverInit, HandoverInv, NodesTyped, BlocksHeld, HeadsKnown, VotesKnown, BlocksBacked, FinalsBacked, Known
<1>2. QED
  BY <1>1, HandoverStep, PTL DEF HandoverSpec

\* BlockChain.Finalize and insertLocked (chain/finality.go:63, chain/blockchain.go:292):
\* however the set changes, and whichever set a certificate was collected under, a
\* floor moves only when a quorum of the set that the node's own canonical chain gives
\* the height has voted for the block.
THEOREM FloorsAlwaysMoveByQuorum == HandoverSpec => FloorsMoveByQuorum
<1>1. HandoverInv /\ [HandoverNext]_handoverVars =>
        [\A n \in Online : final'[n] # final[n] =>
            \E tip \in {head[n], head'[n]} :
                QuorumVoted(SetOn(tip, Height(final'[n])), final'[n], votesOut')]_handoverVars
  BY HandoverStep DEF QuorumMoves
<1>2. QED
  BY <1>1, HandoverInvariant, PTL DEF HandoverSpec, FloorsMoveByQuorum

\* As long as nobody leaves, that set is the one of the block's own branch, and what
\* is final has its quorum (chain/finality.go:66).
THEOREM QuorumsOfAFixedSet ==
    ASSUME Remaining = Order
    PROVE  HandoverSpec => []FinalsHaveTheirQuorum
<1>1. HandoverInv => FinalsHaveTheirQuorum
  <2> SUFFICES ASSUME HandoverInv, NEW b \in finals PROVE QuorumVoted(OwnSet(b), b, votesOut)
    BY DEF FinalsHaveTheirQuorum
  <2>1. OwnSet(b) = Order
    BY ValidatorsAtIs DEF OwnSet, SetOn
  <2>2. QuorumVoted(Order, b, votesOut)
    BY DEF HandoverInv, FinalsBacked, SomeQuorum
  <2>3. QED
    BY <2>1, <2>2
<1>2. QED
  BY <1>1, HandoverInvariant, PTL

\* Heads and floors are blocks the node has, and pools hold votes that were broadcast
\* (node/node.go:253, :288).
THEOREM HandoverTypes == HandoverSpec => []HandoverTypeOK
<1>1. HandoverInv => HandoverTypeOK
  BY DEF HandoverInv, BlocksHeld, PoolsHoldVotes, HoldsVotes, HandoverTypeOK
<1>2. QED
  BY <1>1, HandoverInvariant, PTL
=============================================================================
