------------------------- MODULE FinalityNetProofs -------------------------
(***************************************************************************)
(* The network of validators, for every set of validators, every schedule  *)
(* of turns, any number of goroutines, heights and restarts: it implements *)
(* vote counting, a validator votes twice at a height only when the height *)
(* is settled for it, and the proofs it spreads are genuine.               *)
(***************************************************************************)
EXTENDS FinalityNet, AttestationPoolLemmas

-----------------------------------------------------------------------------
(* Blocks: the only facts about sequences the rest of the proof uses.      *)

\* A block is a sequence of labels no longer than the bound.
LEMMA BlockIsSeq ==
    ASSUME NEW b \in NetBlocks
    PROVE  b \in Seq(Labels) /\ Height(b) \in 0..MaxHeight /\ Height(b) \in Nat
<1>1. PICK h \in 0..MaxHeight : b \in [1..h -> Labels]
  BY DEF NetBlocks
<1>2. h \in Nat
  BY NetAssumption
<1>3. QED
  BY <1>1, <1>2 DEF Height

\* Sequences of labels within the bound are blocks.
LEMMA SeqIsBlock ==
    ASSUME NEW b \in Seq(Labels), Len(b) <= MaxHeight
    PROVE  b \in NetBlocks
<1>1. Len(b) \in Nat /\ b \in [1..Len(b) -> Labels]
  OBVIOUS
<1>2. Len(b) \in 0..MaxHeight
  BY <1>1, NetAssumption
<1>3. QED
  BY <1>1, <1>2 DEF NetBlocks

\* Genesis is a block.
LEMMA GenesisIsBlock == Genesis \in NetBlocks
<1>1. Genesis \in Seq(Labels) /\ Len(Genesis) = 0
  BY DEF Genesis
<1>2. Len(Genesis) <= MaxHeight
  BY <1>1, NetAssumption
<1>3. QED
  BY <1>1, <1>2, SeqIsBlock, Zenon

\* Every other block has a parent.
LEMMA ParentIsBlock ==
    ASSUME NEW b \in NetBlocks, b # Genesis
    PROVE  Parent(b) \in NetBlocks
<1>1. b \in Seq(Labels) /\ Len(b) \in Nat /\ Len(b) <= MaxHeight
  BY BlockIsSeq, NetAssumption DEF Height
<1>2. Len(b) # 0
  BY <1>1 DEF Genesis
<1>3. Parent(b) \in Seq(Labels) /\ Len(Parent(b)) = Len(b) - 1
  <2> DEFINE n == Len(b) - 1
  <2>1. n \in Nat /\ n \in 0..Len(b)
    BY <1>1, <1>2
  <2>2. SubSeq(b, 1, n) \in Seq(Labels) /\ Len(SubSeq(b, 1, n)) = n
    <3> HIDE DEF n
    <3> QED BY <1>1, <2>1
  <2>3. QED
    BY <2>1, <2>2 DEF Parent, Ancestor, Height
<1>4. QED
  BY <1>1, <1>3, SeqIsBlock, NetAssumption

\* Building on a block.
LEMMA AppendIsBlock ==
    ASSUME NEW b \in NetBlocks, Height(b) + 1 <= MaxHeight, NEW l \in Labels
    PROVE  LET c == Append(b, l) IN
           c \in NetBlocks /\ c # Genesis /\ Parent(c) = b /\ c[Height(c)] = l
<1> DEFINE c == Append(b, l)
<1>1. b \in Seq(Labels) /\ Len(b) \in Nat
  BY BlockIsSeq DEF Height
<1>2. c \in Seq(Labels) /\ Len(c) = Len(b) + 1 /\ c[Len(c)] = l
  BY <1>1
<1>3. SubSeq(c, 1, Len(c) - 1) = b
  BY <1>1, <1>2
<1>4. c \in NetBlocks
  BY <1>1, <1>2, SeqIsBlock, Zenon DEF Height
<1>5. c # Genesis
  BY <1>1, <1>2 DEF Genesis
<1>6. Parent(c) = b
  BY <1>3 DEF Height, Parent, Ancestor
<1>7. QED
  BY <1>2, <1>4, <1>5, <1>6 DEF Height

-----------------------------------------------------------------------------
(* Quorums.                                                                *)

NetThreshold == (Cardinality(NetVoters) * 2) \div 3 + 1

(* The validators with a vote for block c in V, and whether they suffice.  *)
VotersFor(c, V) == {v \in NetVoters : \E a \in V : a.signer = v /\ a.hash = c}
QuorumIn(c, V) == Cardinality(VotersFor(c, V)) >= NetThreshold

\* The set has as many members as its order is long.
LEMMA VotersCounted ==
    /\ IsFiniteSet(NetVoters) /\ Cardinality(NetVoters) = Len(Order)
    /\ NetVoters \subseteq Validators /\ NetThreshold \in Nat
<1>1. Order \in Seq(Validators) /\ Len(Order) \in Nat /\ DOMAIN Order = 1..Len(Order)
  BY NetAssumption
<1>2. IsFiniteSet(1..Len(Order)) /\ Cardinality(1..Len(Order)) = Len(Order)
  <2>1. 1 \in Int /\ Len(Order) \in Int
    BY <1>1
  <2>2. /\ IsFiniteSet(1..Len(Order))
        /\ Cardinality(1..Len(Order)) = IF 1 > Len(Order) THEN 0 ELSE Len(Order) - 1 + 1
    BY <2>1, FS_Interval, Zenon
  <2>3. QED
    BY <1>1, <2>2
<1>3. Order \in Surjection(1..Len(Order), NetVoters)
  BY <1>1 DEF Surjection, NetVoters
<1>4. Order \in Injection(1..Len(Order), NetVoters)
  BY <1>1, NetAssumption DEF Injection, IsInjective, NetVoters
<1>5. IsFiniteSet(NetVoters) /\ Cardinality(NetVoters) = Len(Order)
  BY <1>2, <1>3, <1>4, FS_Surjection
<1>6. NetVoters \subseteq Validators
  BY <1>1 DEF NetVoters
<1>7. NetThreshold \in Nat
  BY <1>1, <1>5 DEF NetThreshold
<1>8. QED
  BY <1>5, <1>6, <1>7

\* More votes make no quorum undone.
LEMMA QuorumInLarger ==
    ASSUME NEW V, NEW W, V \subseteq W, NEW c, QuorumIn(c, V)
    PROVE  QuorumIn(c, W)
<1>1. VotersFor(c, V) \subseteq VotersFor(c, W) /\ VotersFor(c, W) \subseteq NetVoters
  BY DEF VotersFor
<1>2. IsFiniteSet(VotersFor(c, W)) /\ IsFiniteSet(VotersFor(c, V))
  BY <1>1, VotersCounted, FS_Subset
<1>3. Cardinality(VotersFor(c, V)) <= Cardinality(VotersFor(c, W))
  BY <1>1, <1>2, FS_Subset
<1>4. Cardinality(VotersFor(c, V)) \in Nat /\ Cardinality(VotersFor(c, W)) \in Nat
  BY <1>2, FS_CardinalityType
<1>5. QED
  BY <1>3, <1>4, VotersCounted DEF QuorumIn

\* A certificate from a pool whose set is Order is a quorum of votes.
LEMMA CertifiedIsQuorum ==
    ASSUME NEW W, VoteSet(W), NEW p, PoolOf(p, W), p.addresses = Order,
           NEW n, NEW h, Certificate(p, n, h).signers # {}
    PROVE  QuorumIn(h, p.votes)
<1> DEFINE M == CertifiedBy(p, n, h)
<1>1. Distinct(p.addresses)
  BY NetAssumption DEF Distinct
<1>2. /\ IsFiniteSet(M) /\ Cardinality(M) \in Nat
      /\ Cardinality(M) >= Quorum(Len(p.addresses))
      /\ \A v \in M : /\ \E i \in DOMAIN p.addresses : p.addresses[i] = v
                      /\ \E a \in p.votes : a.signer = v /\ a.number = n /\ a.hash = h
  BY <1>1, CertificateQuorum
<1>3. M # {}
  BY DEF CertifiedBy
<1> HIDE DEF M
<1>4. M \subseteq VotersFor(h, p.votes) /\ VotersFor(h, p.votes) \subseteq NetVoters
  BY <1>2 DEF VotersFor, NetVoters
<1>5. IsFiniteSet(VotersFor(h, p.votes)) /\ Cardinality(VotersFor(h, p.votes)) \in Nat
  BY <1>4, VotersCounted, FS_Subset, FS_CardinalityType
<1>6. Cardinality(M) <= Cardinality(VotersFor(h, p.votes))
  BY <1>4, <1>5, FS_Subset
<1>7. Len(Order) \in Nat /\ Len(Order) # 0
  <2>1. \E i \in DOMAIN Order : TRUE
    BY <1>2, <1>3
  <2>2. QED
    BY <2>1, NetAssumption
<1>8. Quorum(Len(p.addresses)) = NetThreshold
  BY <1>7, VotersCounted DEF Quorum, NetThreshold
<1>9. QED
  BY <1>2, <1>5, <1>6, <1>8, VotersCounted DEF QuorumIn

-----------------------------------------------------------------------------
(* The inductive invariant.                                                *)

NetVotes == [number : Nat, hash : NetBlocks, index : Nat, signer : NetVoters]

(* A vote names the index its signer has in the set. *)
Indexed(a) == a.index + 1 \in DOMAIN Order /\ Order[a.index + 1] = a.signer

(* Every vote of V verifies, so no pool evicts one. *)
Verified(V) == \A a \in V : Verifies(NewPool(Order), a)

(* A block that embeds a certificate has a quorum of V behind its parent. *)
Backed(b, V) == b # Genesis /\ (b[Height(b)].just => QuorumIn(Parent(b), V))

ChainFields == {"stored", "head", "final"}

(* The chain of one node. *)
ChainOK(c) ==
    /\ c = [f \in ChainFields |-> c[f]]
    /\ c.stored \subseteq NetBlocks /\ Genesis \in c.stored
    /\ c.head \in c.stored /\ c.final \in c.stored \cup {None}

(* The pool of one node: only votes that were broadcast, one per index and *)
(* height, and only genuine proofs, of votes that were signed.             *)
PoolOK(p, S, V) ==
    /\ PoolOf(p, S) /\ p.addresses = Order
    /\ p.votes \subseteq V /\ p.byIndex \subseteq V
    /\ \A a, b \in p.byIndex : a.number = b.number /\ a.index = b.index => a = b
    /\ \A e \in p.evidence : Genuine(e)

(* Validator v finds in its pool p each vote it has broadcast, as long as  *)
(* it still counts votes at that height.                                   *)
Remembers(p, v, V) ==
    \A a \in V : a.signer = v /\ a.number > p.finalized => a \in p.byIndex

NetTypes ==
    /\ stored \in [Nodes -> SUBSET NetBlocks] /\ head \in [Nodes -> NetBlocks]
    /\ final \in [Nodes -> NetBlocks \cup {None}]
    /\ building \in [Nodes -> NetBlocks \cup {None}]
    /\ due \in [Nodes -> [Routines -> NetBlocks \cup {None}]]
    /\ restarts \in [Nodes -> Nat]
    /\ pool = [n \in Nodes |-> pool[n]]

ChainsOK == \A n \in Nodes : ChainOK(ChainOf(n))
PoolsOK == \A n \in Nodes : PoolOK(pool[n], signed, votesOut)
VotesOK ==
    /\ signed \subseteq NetVotes /\ votesOut \subseteq signed /\ Verified(votesOut)
    /\ \A a \in signed : a.number = Height(a.hash)
BlocksOK ==
    /\ blocksOut \subseteq NetBlocks /\ \A b \in blocksOut : Backed(b, votesOut)
    /\ \A n \in Nodes : building[n] # None => Backed(building[n], votesOut)
FinalsOK ==
    /\ finals \subseteq NetBlocks /\ \A n \in Nodes : final[n] # None => final[n] \in finals
    /\ \A c \in finals : QuorumIn(c, votesOut)
ProofsOK == proofsOut \subseteq ProofsFrom(signed) /\ \A e \in proofsOut : Genuine(e)
MemoryOK ==
    \A v \in NetVoters : restarts[v] = 0 => Remembers(pool[v], v, votesOut)

NetInv ==
    /\ NetTypes /\ ChainsOK /\ PoolsOK /\ VotesOK /\ BlocksOK /\ FinalsOK /\ ProofsOK /\ MemoryOK

(* What a step does to the votes and the finalized blocks of the network.  *)
Counts ==
    /\ votesOut' = votesOut \/ \E a \in signed' : votesOut' = votesOut \cup {a}
    /\ finals \subseteq finals'
    /\ \A c \in finals' \ finals : QuorumIn(c, votesOut')

-----------------------------------------------------------------------------
(* Votes and pools.                                                        *)

\* Votes are told apart by what they say and who signed them.
LEMMA VotesAreVotes ==
    ASSUME NEW S, S \subseteq NetVotes
    PROVE  VoteSet(S)
  BY VotersCounted DEF VoteSet, NetVotes

\* The index of a verified vote is its signer's.
LEMMA VerifiedIsIndexed ==
    ASSUME NEW V, Verified(V), NEW a \in V, a.index \in Nat
    PROVE  Indexed(a)
<1>1. NewPool(Order).addresses = Order /\ Order \in Seq(Validators)
  BY NetAssumption DEF NewPool
<1>2. Verifies(NewPool(Order), a)
  BY DEF Verified
<1>3. QED
  BY <1>1, <1>2, VerifiesIsSigned DEF Indexed

\* What is right of a pool stays right as more is signed and broadcast.
LEMMA PoolStaysOK ==
    ASSUME NEW S, NEW V, NEW S2, NEW V2, S \subseteq S2, V \subseteq V2,
           NEW p, PoolOK(p, S, V)
    PROVE  PoolOK(p, S2, V2)
<1>1. PoolOf(p, S2)
  BY PoolOfLarger DEF PoolOK
<1>2. QED
  BY <1>1 DEF PoolOK

\* A new pool is right.
LEMMA NewPoolOK ==
    ASSUME NEW S, NEW V
    PROVE  PoolOK(NewPool(Order), S, V)
<1> DEFINE q == NewPool(Order)
<1>1. /\ PoolOf(q, S) /\ q.addresses = Order /\ q.votes = {} /\ q.byIndex = {}
      /\ q.evidence = {} /\ q.finalized = 0
  BY NewPoolFields, NetAssumption
<1> HIDE DEF q
<1>2. PoolOK(q, S, V)
  BY <1>1 DEF PoolOK
<1>3. QED
  BY <1>2 DEF q

\* Asking for a certificate evicts nothing.
LEMMA CertificateOK ==
    ASSUME NEW S, NEW V, VoteSet(S), Verified(V), NEW p, PoolOK(p, S, V), NEW n, NEW h
    PROVE  LET q == Certificate(p, n, h).pool IN
           /\ PoolOK(q, S, V) /\ q.votes = p.votes /\ q.byIndex = p.byIndex
           /\ q.finalized = p.finalized
<1> DEFINE q == Certificate(p, n, h).pool
<1>1. PoolOf(p, S)
  BY DEF PoolOK
<1>2. /\ PoolOf(q, S)
      /\ q.addresses = p.addresses /\ q.evidence = p.evidence /\ q.finalized = p.finalized
      /\ q.votes \subseteq p.votes /\ q.byIndex \subseteq p.byIndex
      /\ \A a \in p.votes \ q.votes : ~Verifies(p, a)
      /\ \A a \in p.byIndex \ q.byIndex : ~Verifies(p, a)
  BY <1>1, CertificateKeeps
<1> HIDE DEF q
<1>3. \A a \in p.votes \cup p.byIndex : Verifies(p, a)
  <2> TAKE a \in p.votes \cup p.byIndex
  <2>1. a \in V /\ p.addresses = NewPool(Order).addresses
    BY DEF PoolOK, NewPool
  <2>2. QED
    BY <2>1, VerifiesBySet DEF Verified
<1>4. q.votes = p.votes /\ q.byIndex = p.byIndex
  BY <1>2, <1>3, Zenon
<1>5. PoolOK(q, S, V)
  BY <1>2, <1>4 DEF PoolOK
<1>6. QED
  BY <1>2, <1>4, <1>5 DEF q

\* The same of a result by name.
LEMMA CertificateGives ==
    ASSUME NEW S, NEW V, VoteSet(S), Verified(V), NEW p, PoolOK(p, S, V), NEW n, NEW h,
           NEW r, r = Certificate(p, n, h)
    PROVE  /\ PoolOK(r.pool, S, V) /\ r.pool.votes = p.votes /\ r.pool.byIndex = p.byIndex
           /\ r.pool.finalized = p.finalized
BY CertificateOK

\* A vote that is cast or counted joins the pool, or is in it, or comes too late.
LEMMA AddOK ==
    ASSUME NEW S, NEW V, VoteSet(S), V \subseteq S, Verified(V), NEW p, PoolOK(p, S, V),
           NEW a \in S, Indexed(a)
    PROVE  LET r == Add(p, a) IN
           /\ r.report \in {"new", "old"} =>
                /\ Verified(V \cup {a}) /\ PoolOK(r.pool, S, V \cup {a})
                /\ \A v : Remembers(p, v, V) => Remembers(r.pool, v, V \cup {a})
           /\ r.report \notin {"new", "old"} =>
                /\ PoolOK(r.pool, S, V)
                /\ \A v : Remembers(p, v, V) => Remembers(r.pool, v, V)
<1> DEFINE r == Add(p, a)
           V2 == V \cup {a}
<1>a. r = Add(p, a)
  OBVIOUS
<1> HIDE DEF r
<1>0. /\ PoolOf(p, S) /\ p.addresses = Order /\ p.finalized \in Nat
      /\ p.votes \subseteq V /\ p.byIndex \subseteq V
      /\ a.number \in Nat /\ a.index \in Nat
      /\ \A x, y \in p.byIndex : x.number = y.number /\ x.index = y.index => x = y
  BY DEF PoolOK, PoolOf, VoteSet
<1>1. \/ /\ r.report \in {"unknown", "invalid"} /\ r.pool = p
      \/ /\ r.report = "old" /\ r.pool = p /\ KeyAt(p, a.index) # NoKey
         /\ \/ a.number <= p.finalized
            \/ \E q \in p.byIndex : q.number = a.number /\ q.index = a.index /\ q.hash = a.hash
      \/ /\ r.report = "equivocation" /\ PoolOf(r.pool, S)
         /\ r.pool.addresses = p.addresses /\ r.pool.finalized = p.finalized
         /\ r.pool.votes = p.votes /\ r.pool.byIndex = p.byIndex
         /\ \A e \in r.pool.evidence \ p.evidence : Genuine(e)
      \/ /\ r.report = "new" /\ PoolOf(r.pool, S) /\ KeyAt(p, a.index) # NoKey
         /\ \A q \in p.byIndex : ~(q.number = a.number /\ q.index = a.index)
         /\ r.pool.addresses = p.addresses /\ r.pool.finalized = p.finalized
         /\ r.pool.votes = p.votes \cup {a} /\ r.pool.byIndex = p.byIndex \cup {a}
         /\ r.pool.evidence = p.evidence
  BY <1>a, <1>0, AddGives
<1>2. CASE r.report \in {"unknown", "invalid"} /\ r.pool = p
  BY <1>2 DEF r
<1>3. CASE r.report = "equivocation"
  <2>1. /\ PoolOf(r.pool, S)
        /\ r.pool.addresses = p.addresses /\ r.pool.finalized = p.finalized
        /\ r.pool.votes = p.votes /\ r.pool.byIndex = p.byIndex
        /\ \A e \in r.pool.evidence \ p.evidence : Genuine(e)
    BY <1>1, <1>3
  <2>2. PoolOK(r.pool, S, V)
    BY <2>1 DEF PoolOK
  <2>3. \A v : Remembers(p, v, V) => Remembers(r.pool, v, V)
    BY <2>1 DEF Remembers
  <2>4. QED
    BY <1>3, <2>2, <2>3 DEF r
<1>4. ASSUME KeyAt(p, a.index) # NoKey
      PROVE  Verified(V2)
  <2>1. KeyAt(p, a.index) = a.signer
    BY <1>0, <1>4, KeyIsAMember, NetAssumption DEF Indexed
  <2>2. Verifies(p, a)
    BY <1>4, <2>1 DEF Verifies
  <2>3. p.addresses = NewPool(Order).addresses
    BY <1>0 DEF NewPool
  <2>4. Verifies(NewPool(Order), a)
    BY <2>2, <2>3, VerifiesBySet
  <2>5. QED
    BY <2>4 DEF Verified
<1>5. CASE r.report = "new"
  <2>1. /\ PoolOf(r.pool, S) /\ KeyAt(p, a.index) # NoKey
        /\ \A q \in p.byIndex : ~(q.number = a.number /\ q.index = a.index)
        /\ r.pool.addresses = p.addresses /\ r.pool.finalized = p.finalized
        /\ r.pool.votes = p.votes \cup {a} /\ r.pool.byIndex = p.byIndex \cup {a}
        /\ r.pool.evidence = p.evidence
    BY <1>1, <1>5
  <2>2. PoolOK(r.pool, S, V2)
    BY <1>0, <2>1 DEF PoolOK
  <2>3. \A v : Remembers(p, v, V) => Remembers(r.pool, v, V2)
    BY <2>1 DEF Remembers
  <2>4. QED
    BY <1>4, <1>5, <2>1, <2>2, <2>3 DEF r
<1>6. CASE r.report = "old"
  <2>1. /\ r.pool = p /\ KeyAt(p, a.index) # NoKey
        /\ \/ a.number <= p.finalized
           \/ \E q \in p.byIndex : q.number = a.number /\ q.index = a.index /\ q.hash = a.hash
    BY <1>1, <1>6
  <2>2. PoolOK(p, S, V2)
    BY PoolStaysOK
  <2>3. a.number <= p.finalized \/ a \in p.byIndex
    <3>1. ASSUME NEW q \in p.byIndex, q.number = a.number, q.index = a.index, q.hash = a.hash
          PROVE  q = a
      <4>1. q \in V /\ q \in S /\ q.index \in Nat
        BY <1>0, <3>1
      <4>2. Indexed(q)
        BY <4>1, VerifiedIsIndexed
      <4>3. q.signer = a.signer
        BY <3>1, <4>2 DEF Indexed
      <4>4. QED
        BY <3>1, <4>1, <4>3 DEF VoteSet
    <3>2. QED
      BY <2>1, <3>1
  <2>4. \A v : Remembers(p, v, V) => Remembers(p, v, V2)
    BY <1>0, <2>3 DEF Remembers
  <2>5. QED
    BY <1>4, <1>6, <2>1, <2>2, <2>4 DEF r
<1>7. QED
  BY <1>1, <1>2, <1>3, <1>5, <1>6, Zenon DEF r

\* Marking a height final costs a validator no vote it could still contradict.
LEMMA MarkFinalizedOK ==
    ASSUME NEW S, NEW V, VoteSet(S), V \subseteq S, NEW p, PoolOK(p, S, V), NEW n \in Nat
    PROVE  LET q == MarkFinalized(p, n) IN
           /\ PoolOK(q, S, V)
           /\ \A v : Remembers(p, v, V) => Remembers(q, v, V)
<1> DEFINE q == MarkFinalized(p, n)
<1>1. PoolOf(p, S) /\ Retain \in Nat /\ p.finalized \in Nat
  BY NetAssumption DEF PoolOK, PoolOf
<1>2. /\ PoolOf(q, S) /\ q.addresses = p.addresses /\ q.evidence = p.evidence
      /\ q.finalized >= p.finalized
      /\ q.votes \subseteq p.votes /\ q.byIndex \subseteq p.byIndex
      /\ \A a \in (p.votes \ q.votes) \cup (p.byIndex \ q.byIndex) : a.number + Retain < q.finalized
  BY <1>1, MarkFinalizedKeeps, Zenon
<1> HIDE DEF q
<1>3. PoolOK(q, S, V)
  BY <1>2 DEF PoolOK
<1>4. ASSUME NEW v, Remembers(p, v, V)
      PROVE  Remembers(q, v, V)
  <2> SUFFICES ASSUME NEW a \in V, a.signer = v, a.number > q.finalized
               PROVE  a \in q.byIndex
    BY DEF Remembers
  <2>1. a.number \in Nat /\ q.finalized \in Nat
    BY <1>2 DEF VoteSet, PoolOf
  <2>2. a \in p.byIndex
    BY <1>1, <1>2, <1>4, <2>1 DEF Remembers
  <2>3. ~(a.number + Retain < q.finalized)
    BY <1>1, <2>1
  <2>4. QED
    BY <1>2, <2>2, <2>3
<1>5. QED
  BY <1>3, <1>4 DEF q

-----------------------------------------------------------------------------
(* The chain of one node.                                                  *)

\* insertLocked: a block that embeds a certificate may make its parent final,
\* and nothing else becomes final.
LEMMA InsertedOK ==
    ASSUME NEW c, ChainOK(c), NEW b \in NetBlocks, Insertable(c, b)
    PROVE  LET d == Inserted(c, b) IN
           /\ ChainOK(d)
           /\ d.final = c.final \/ (d.final = Parent(b) /\ b[Height(b)].just)
<1> DEFINE d == Inserted(c, b)
           s == c.stored \cup {b}
           h == IF Height(b) > Height(c.head) THEN b ELSE c.head
           f == IF b[Height(b)].just /\ MayFinalize(c, Parent(b)) THEN Parent(b) ELSE c.final
<1>1. d = [stored |-> s, head |-> h, final |-> f]
  BY DEF Inserted
<1>2. /\ s \subseteq NetBlocks /\ Genesis \in s /\ h \in s
      /\ f \in s \cup {None}
  BY DEF ChainOK, MayFinalize
<1>3. f = c.final \/ (f = Parent(b) /\ b[Height(b)].just)
  OBVIOUS
<1> HIDE DEF s, h, f, d
<1>4. d = [x \in ChainFields |-> d[x]] /\ d.stored = s /\ d.head = h /\ d.final = f
  BY <1>1 DEF ChainFields
<1>5. ChainOK(d)
  BY <1>2, <1>4 DEF ChainOK
<1>6. QED
  BY <1>3, <1>4, <1>5 DEF d

\* BlockChain.Finalize: the block becomes final, or nothing changes.
LEMMA FinalizedOK ==
    ASSUME NEW c, ChainOK(c), NEW b \in NetBlocks
    PROVE  LET d == Finalized(c, b) IN ChainOK(d) /\ d.final \in {c.final, b}
<1> DEFINE d == Finalized(c, b)
           h == IF OnBranch(b, c.head) THEN c.head ELSE b
<1>1. CASE ~MayFinalize(c, b)
  BY <1>1 DEF Finalized
<1>2. CASE MayFinalize(c, b)
  <2>1. PICK s : s = d
    OBVIOUS
  <2>2. s = [c EXCEPT !.final = b, !.head = h]
    BY <1>2, <2>1 DEF Finalized
  <2>3. h \in c.stored /\ b \in c.stored
    BY <1>2 DEF MayFinalize, ChainOK
  <2> HIDE DEF h, d
  <2>4. s = [x \in ChainFields |-> IF x = "final" THEN b ELSE IF x = "head" THEN h ELSE c[x]]
    BY <2>2, Zenon DEF ChainOK, ChainFields
  <2>5. s = [x \in ChainFields |-> s[x]] /\ s.stored = c.stored /\ s.head = h /\ s.final = b
    BY <2>4 DEF ChainFields
  <2>6. ChainOK(s)
    BY <2>3, <2>5 DEF ChainOK
  <2>7. QED
    BY <2>1, <2>5, <2>6 DEF d
<1>3. QED
  BY <1>1, <1>2

\* tryFinalize: a block becomes final only by a quorum of votes in the pool, and
\* the pool stays right.
LEMMA TryFinalizeOK ==
    ASSUME NEW S, NEW V, VoteSet(S), V \subseteq S, Verified(V), NEW p, PoolOK(p, S, V),
           NEW c, ChainOK(c), NEW n \in Nat, NEW b \in NetBlocks
    PROVE  LET t == TryFinalize(c, p, n, b) IN
           /\ ChainOK(t.chain) /\ PoolOK(t.pool, S, V)
           /\ t.chain.final = c.final \/ (t.chain.final = b /\ QuorumIn(b, V))
           /\ \A v : Remembers(p, v, V) => Remembers(t.pool, v, V)
<1> DEFINE t == TryFinalize(c, p, n, b)
           q == Certificate(p, n, b).pool
           d == Finalized(c, b)
<1>1. PoolOK(q, S, V) /\ q.byIndex = p.byIndex /\ q.finalized = p.finalized
  BY CertificateOK
<1>2. \A v : Remembers(p, v, V) => Remembers(q, v, V)
  BY <1>1 DEF Remembers
<1>3. \/ t = [chain |-> c, pool |-> q]
      \/ t = [chain |-> d, pool |-> MarkFinalized(q, n)] /\ Certificate(p, n, b).signers # {}
  BY DEF TryFinalize
<1>4. CASE t = [chain |-> c, pool |-> q]
  BY <1>1, <1>2, <1>4
<1>5. CASE t = [chain |-> d, pool |-> MarkFinalized(q, n)] /\ Certificate(p, n, b).signers # {}
  <2>1. /\ PoolOK(MarkFinalized(q, n), S, V)
        /\ \A v : Remembers(q, v, V) => Remembers(MarkFinalized(q, n), v, V)
    <3> HIDE DEF q
    <3> QED BY <1>1, MarkFinalizedOK
  <2>2. ChainOK(d) /\ d.final \in {c.final, b}
    BY FinalizedOK
  <2>3. QuorumIn(b, p.votes) /\ p.votes \subseteq V
    <3>1. PoolOf(p, S) /\ p.addresses = Order
      BY DEF PoolOK
    <3>2. QED
      BY <1>5, <3>1, CertifiedIsQuorum DEF PoolOK
  <2>4. QuorumIn(b, V)
    BY <2>3, QuorumInLarger
  <2>5. t.chain = d /\ t.pool = MarkFinalized(q, n)
    BY <1>5
  <2> HIDE DEF t, d, q
  <2>6. QED
    BY <1>2, <2>1, <2>2, <2>4, <2>5 DEF t
<1>6. QED
  BY <1>3, <1>4, <1>5

-----------------------------------------------------------------------------
(* What one node does.                                                     *)

\* The chain of a node as the record the operations work on.
LEMMA ChainOfFields ==
    ASSUME NEW n
    PROVE  LET c == ChainOf(n) IN
           c.stored = stored[n] /\ c.head = head[n] /\ c.final = final[n]
  BY DEF ChainOf

\* When a node's chain and pool change in a way that is right for them, and what
\* becomes final has a quorum behind it, the nodes are as they should be.
LEMMA SetNodeOK ==
    ASSUME NetTypes, ChainsOK, PoolsOK, FinalsOK, NEW n \in Nodes, NEW c, NEW p,
           SetNode(n, c, p), signed \subseteq signed', votesOut \subseteq votesOut',
           ChainOK(c), PoolOK(p, signed', votesOut'),
           c.final = final[n] \/ QuorumIn(c.final, votesOut')
    PROVE  /\ stored' \in [Nodes -> SUBSET NetBlocks] /\ head' \in [Nodes -> NetBlocks]
           /\ final' \in [Nodes -> NetBlocks \cup {None}]
           /\ pool' = [m \in Nodes |-> pool'[m]]
           /\ ChainsOK' /\ PoolsOK' /\ FinalsOK'
           /\ finals \subseteq finals' /\ \A b \in finals' \ finals : QuorumIn(b, votesOut')
           /\ pool'[n] = p /\ \A m \in Nodes \ {n} : pool'[m] = pool[m]
<1>1. /\ stored' = [stored EXCEPT ![n] = c.stored] /\ head' = [head EXCEPT ![n] = c.head]
      /\ final' = [final EXCEPT ![n] = c.final] /\ pool' = [pool EXCEPT ![n] = p]
      /\ finals' = finals \cup ({c.final} \ {None})
  BY DEF SetNode
<1>2. /\ c.stored \subseteq NetBlocks /\ c.head \in NetBlocks /\ c.final \in NetBlocks \cup {None}
  BY DEF ChainOK
<1>3. /\ stored' \in [Nodes -> SUBSET NetBlocks] /\ head' \in [Nodes -> NetBlocks]
      /\ final' \in [Nodes -> NetBlocks \cup {None}]
  BY <1>1, <1>2 DEF NetTypes
<1>4. /\ pool' = [m \in Nodes |-> pool'[m]]
      /\ pool'[n] = p /\ \A m \in Nodes \ {n} : pool'[m] = pool[m]
  BY <1>1 DEF NetTypes
<1>5. ChainsOK'
  <2> SUFFICES ASSUME NEW m \in Nodes
               PROVE  ChainOK([stored |-> stored'[m], head |-> head'[m], final |-> final'[m]])
    BY Zenon DEF ChainsOK, ChainOf
  <2>1. CASE m = n
    <3>1. /\ c.stored \subseteq NetBlocks /\ Genesis \in c.stored
          /\ c.head \in c.stored /\ c.final \in c.stored \cup {None}
      BY DEF ChainOK
    <3>2. stored'[m] = c.stored /\ head'[m] = c.head /\ final'[m] = c.final
      BY <1>1, <2>1 DEF NetTypes
    <3>3. QED
      BY <3>1, <3>2 DEF ChainOK, ChainFields
  <2>2. CASE m # n
    <3>1. stored'[m] = stored[m] /\ head'[m] = head[m] /\ final'[m] = final[m]
      BY <1>1, <2>2 DEF NetTypes
    <3>2. QED
      BY <3>1, Zenon DEF ChainsOK, ChainOf
  <2>3. QED
    BY <2>1, <2>2
<1>6. PoolsOK'
  <2> SUFFICES ASSUME NEW m \in Nodes
               PROVE  PoolOK(pool'[m], signed', votesOut')
    BY DEF PoolsOK
  <2>1. PoolOK(pool[m], signed, votesOut)
    BY DEF PoolsOK
  <2>2. PoolOK(pool[m], signed', votesOut')
    BY <2>1, PoolStaysOK
  <2>3. QED
    BY <1>4, <2>2
<1>7. finals \subseteq finals' /\ \A b \in finals' \ finals : QuorumIn(b, votesOut')
  BY <1>1 DEF FinalsOK
<1>8. FinalsOK'
  <2>1. \A m \in Nodes : final'[m] = IF m = n THEN c.final ELSE final[m]
    BY <1>1 DEF NetTypes
  <2>2. finals' \subseteq NetBlocks /\ \A m \in Nodes : final'[m] # None => final'[m] \in finals'
    BY <1>1, <1>2, <2>1 DEF FinalsOK
  <2>3. \A b \in finals : QuorumIn(b, votesOut')
    BY QuorumInLarger DEF FinalsOK
  <2>4. QED
    BY <1>7, <2>2, <2>3 DEF FinalsOK
<1>9. QED
  BY <1>3, <1>4, <1>5, <1>6, <1>7, <1>8

\* Blocks stay backed as votes come in.
LEMMA BackedLarger ==
    ASSUME NEW V, NEW W, V \subseteq W, NEW b, Backed(b, V)
    PROVE  Backed(b, W)
  BY QuorumInLarger DEF Backed

\* A step that neither builds nor broadcasts a block leaves the blocks backed.
LEMMA BlocksStay ==
    ASSUME BlocksOK, votesOut \subseteq votesOut', UNCHANGED <<blocksOut, building>>
    PROVE  BlocksOK'
<1>1. \A b : Backed(b, votesOut) => Backed(b, votesOut')
  BY BackedLarger
<1>2. QED
  BY <1>1 DEF BlocksOK

\* A step that spreads no proof leaves those spread as they were.
LEMMA ProofsStay ==
    ASSUME ProofsOK, signed \subseteq signed', UNCHANGED proofsOut
    PROVE  ProofsOK'
<1>1. ProofsFrom(signed) \subseteq ProofsFrom(signed')
  BY DEF ProofsFrom
<1>2. QED
  BY <1>1 DEF ProofsOK

\* A node that forgets none of its votes disturbs nobody's memory, provided only
\* its own votes are new.
LEMMA MemoryStays ==
    ASSUME MemoryOK, NEW n \in Nodes, UNCHANGED restarts,
           \A m \in Nodes \ {n} : pool'[m] = pool[m],
           Remembers(pool[n], n, votesOut) => Remembers(pool'[n], n, votesOut'),
           \A a \in votesOut' \ votesOut : a.signer = n
    PROVE  MemoryOK'
<1> SUFFICES ASSUME NEW v \in NetVoters, restarts[v] = 0
             PROVE  Remembers(pool'[v], v, votesOut')
  BY DEF MemoryOK
<1>1. Remembers(pool[v], v, votesOut)
  BY DEF MemoryOK
<1>2. CASE v = n
  BY <1>1, <1>2
<1>3. CASE v # n
  <2>1. pool'[v] = pool[v]
    BY <1>3 DEF Nodes
  <2>2. QED
    BY <1>1, <1>3, <2>1 DEF Remembers
<1>4. QED
  BY <1>2, <1>3

\* Importing a block, by the miner or from a peer.
LEMMA ImportOK ==
    ASSUME NetInv, NEW n \in Nodes, NEW g \in Routines, NEW b \in NetBlocks,
           Insertable(ChainOf(n), b), Backed(b, votesOut), Import(n, g, b),
           UNCHANGED <<restarts, votesOut, signed>>
    PROVE  /\ stored' \in [Nodes -> SUBSET NetBlocks] /\ head' \in [Nodes -> NetBlocks]
           /\ final' \in [Nodes -> NetBlocks \cup {None}]
           /\ due' \in [Nodes -> [Routines -> NetBlocks \cup {None}]]
           /\ pool' = [m \in Nodes |-> pool'[m]]
           /\ ChainsOK' /\ PoolsOK' /\ VotesOK' /\ FinalsOK' /\ MemoryOK' /\ Counts
<1> DEFINE c == ChainOf(n)
           d == Inserted(c, b)
<1> USE DEF NetInv
<1>1. ChainOK(c) /\ c.final = final[n]
  BY ChainOfFields DEF ChainsOK
<1>2. ChainOK(d) /\ (d.final = c.final \/ (d.final = Parent(b) /\ b[Height(b)].just))
  BY <1>1, InsertedOK
<1>3. d.final = final[n] \/ QuorumIn(d.final, votesOut')
  BY <1>1, <1>2 DEF Backed
<1>4. SetNode(n, d, pool[n]) /\ PoolOK(pool[n], signed', votesOut')
  BY DEF Import, PoolsOK
<1> HIDE DEF c, d
<1>5. /\ stored' \in [Nodes -> SUBSET NetBlocks] /\ head' \in [Nodes -> NetBlocks]
      /\ final' \in [Nodes -> NetBlocks \cup {None}]
      /\ pool' = [m \in Nodes |-> pool'[m]]
      /\ ChainsOK' /\ PoolsOK' /\ FinalsOK'
      /\ finals \subseteq finals' /\ \A x \in finals' \ finals : QuorumIn(x, votesOut')
      /\ pool'[n] = pool[n] /\ \A m \in Nodes \ {n} : pool'[m] = pool[m]
  BY <1>2, <1>3, <1>4, SetNodeOK
<1>6. due' \in [Nodes -> [Routines -> NetBlocks \cup {None}]]
  BY DEF Import, NetTypes
<1>7. MemoryOK'
  BY <1>5, MemoryStays
<1>8. VotesOK'
  BY DEF VotesOK
<1>9. Counts
  BY <1>5 DEF Counts
<1>10. QED
  BY <1>5, <1>6, <1>7, <1>8, <1>9

\* Each action of the network preserves the invariant, and counts votes.
Preserved == NetInv' /\ Counts

\* A node that receives a block.
LEMMA HandleBlockOK ==
    ASSUME NetInv, NEW n \in Nodes, NEW g \in Routines, NEW b \in blocksOut,
           HandleBlock(n, g, b)
    PROVE  Preserved
<1>1. /\ Insertable(ChainOf(n), b) /\ Import(n, g, b)
      /\ UNCHANGED <<building, restarts, blocksOut, votesOut, proofsOut, signed>>
  BY DEF HandleBlock, netVars
<1>2. b \in NetBlocks /\ Backed(b, votesOut)
  BY DEF NetInv, BlocksOK
<1>3. /\ stored' \in [Nodes -> SUBSET NetBlocks] /\ head' \in [Nodes -> NetBlocks]
      /\ final' \in [Nodes -> NetBlocks \cup {None}]
      /\ due' \in [Nodes -> [Routines -> NetBlocks \cup {None}]]
      /\ pool' = [m \in Nodes |-> pool'[m]]
      /\ ChainsOK' /\ PoolsOK' /\ VotesOK' /\ FinalsOK' /\ MemoryOK' /\ Counts
  BY <1>1, <1>2, ImportOK
<1>4. NetTypes'
  BY <1>1, <1>3 DEF NetTypes, NetInv
<1>5. BlocksOK' /\ ProofsOK'
  BY <1>1, BlocksStay, ProofsStay DEF NetInv
<1>6. QED
  BY <1>3, <1>4, <1>5 DEF Preserved, NetInv

\* A proposer that inserts the block it sealed.
LEMMA CommitOK ==
    ASSUME NetInv, NEW n \in Nodes, Commit(n)
    PROVE  Preserved
<1> DEFINE b == building[n]
<1>1. /\ b # None /\ building' = [building EXCEPT ![n] = None]
      /\ UNCHANGED <<restarts, votesOut, proofsOut, signed>>
  BY DEF Commit
<1>2. b \in NetBlocks /\ Backed(b, votesOut)
  BY <1>1 DEF NetInv, NetTypes, BlocksOK
<1>3. building' \in [Nodes -> NetBlocks \cup {None}] /\ restarts' \in [Nodes -> Nat]
  BY <1>1 DEF NetInv, NetTypes
<1>4. \A m \in Nodes : building'[m] # None => Backed(building'[m], votesOut')
  <2> TAKE m \in Nodes
  <2>1. building'[m] = IF m = n THEN None ELSE building[m]
    BY <1>1 DEF NetInv, NetTypes
  <2>2. QED
    BY <1>1, <2>1 DEF NetInv, BlocksOK
<1>5. ProofsOK'
  BY <1>1, ProofsStay DEF NetInv
<1>6. CASE Insertable(ChainOf(n), b)
  <2>1. blocksOut' = blocksOut \cup {b} /\ Import(n, "miner", b) /\ "miner" \in Routines
    BY <1>6 DEF Commit, Routines
  <2> HIDE DEF b
  <2>2. /\ stored' \in [Nodes -> SUBSET NetBlocks] /\ head' \in [Nodes -> NetBlocks]
        /\ final' \in [Nodes -> NetBlocks \cup {None}]
        /\ due' \in [Nodes -> [Routines -> NetBlocks \cup {None}]]
        /\ pool' = [m \in Nodes |-> pool'[m]]
        /\ ChainsOK' /\ PoolsOK' /\ VotesOK' /\ FinalsOK' /\ MemoryOK' /\ Counts
    BY <1>1, <1>2, <1>6, <2>1, ImportOK
  <2>3. NetTypes'
    BY <1>3, <2>2 DEF NetTypes
  <2>4. BlocksOK'
    BY <1>1, <1>2, <1>4, <2>1 DEF BlocksOK, NetInv
  <2>5. QED
    BY <1>5, <2>2, <2>3, <2>4 DEF Preserved, NetInv
<1>7. CASE ~Insertable(ChainOf(n), b)
  <2>1. UNCHANGED <<stored, head, final, pool, finals, due, blocksOut>>
    BY <1>7 DEF Commit, nodeVars
  <2>2. NetTypes'
    BY <1>3, <2>1 DEF NetTypes, NetInv
  <2>3. BlocksOK'
    BY <1>1, <1>4, <2>1 DEF BlocksOK, NetInv
  <2>4. ChainsOK' /\ PoolsOK' /\ FinalsOK'
    BY <1>1, <2>1 DEF NetInv, ChainsOK, ChainOf, PoolsOK, FinalsOK
  <2>5. VotesOK' /\ MemoryOK'
    BY <1>1, <2>1 DEF NetInv, VotesOK, MemoryOK
  <2>6. Counts
    BY <1>1, <2>1 DEF Counts
  <2>7. QED
    BY <1>5, <2>2, <2>3, <2>4, <2>5, <2>6 DEF Preserved, NetInv
<1>8. QED
  BY <1>6, <1>7

\* A proposer that seals a block: it embeds a certificate only when the votes of a
\* quorum for the parent are in its pool.
LEMMA BuildOK ==
    ASSUME NetInv, NEW n \in Proposers, n \in Nodes, Build(n)
    PROVE  Preserved
<1> DEFINE cert == Certificate(pool[n], Height(head[n]), head[n])
           l == [by |-> n, just |-> cert.signers # {}]
           b == Append(head[n], l)
<1>1. /\ building' = [building EXCEPT ![n] = b] /\ pool' = [pool EXCEPT ![n] = cert.pool]
      /\ UNCHANGED <<stored, head, final, finals, due, restarts>>
      /\ UNCHANGED <<blocksOut, votesOut, proofsOut, signed>>
      /\ <<n, Height(head[n]) + 1>> \in Turns
  BY DEF Build, netVars
<1>2. head[n] \in NetBlocks /\ Height(head[n]) + 1 <= MaxHeight
  <2>1. head[n] \in NetBlocks
    BY DEF NetInv, NetTypes
  <2>2. Height(head[n]) + 1 \in 1..MaxHeight
    BY <1>1, NetAssumption
  <2>3. QED
    BY <2>1, <2>2, NetAssumption, BlockIsSeq
<1>3. l \in Labels
  BY DEF Labels
<1>4. b \in NetBlocks /\ b # Genesis /\ Parent(b) = head[n] /\ b[Height(b)] = l
  <2> HIDE DEF l
  <2> QED BY <1>2, <1>3, AppendIsBlock, Zenon
<1>5. /\ VoteSet(signed) /\ Verified(votesOut) /\ PoolOK(pool[n], signed, votesOut)
  BY VotesAreVotes DEF NetInv, VotesOK, PoolsOK
<1>6. /\ PoolOK(cert.pool, signed, votesOut)
      /\ cert.pool.byIndex = pool[n].byIndex /\ cert.pool.finalized = pool[n].finalized
  <2>1. cert = Certificate(pool[n], Height(head[n]), head[n])
    OBVIOUS
  <2> HIDE DEF cert, l, b
  <2>2. QED
    BY <1>5, <2>1, CertificateGives
<1>7. cert.signers # {} => QuorumIn(head[n], votesOut)
  <2> HAVE cert.signers # {}
  <2>1. PoolOf(pool[n], signed) /\ pool[n].addresses = Order /\ pool[n].votes \subseteq votesOut
    BY <1>5 DEF PoolOK
  <2>2. QuorumIn(head[n], pool[n].votes)
    BY <1>5, <2>1, CertifiedIsQuorum
  <2>3. QED
    BY <2>1, <2>2, QuorumInLarger
<1>8. Backed(b, votesOut)
  <2>1. l.just => QuorumIn(head[n], votesOut)
    BY <1>7, Zenon
  <2> HIDE DEF l, b
  <2>2. QED
    BY <1>4, <2>1 DEF Backed
<1> HIDE DEF cert, b
<1>9. NetTypes'
  BY <1>1, <1>4, Zenon DEF NetInv, NetTypes
<1>10. pool'[n] = cert.pool /\ \A m \in Nodes \ {n} : pool'[m] = pool[m]
  BY <1>1 DEF NetInv, NetTypes
<1>11. PoolsOK'
  BY <1>1, <1>6, <1>10, Zenon DEF NetInv, PoolsOK
<1>12. MemoryOK'
  <2>1. Remembers(pool[n], n, votesOut) => Remembers(pool'[n], n, votesOut')
    BY <1>1, <1>6, <1>10 DEF Remembers
  <2>2. QED
    BY <1>1, <1>10, <2>1, MemoryStays DEF NetInv
<1>13. BlocksOK'
  <2>1. \A m \in Nodes : building'[m] = IF m = n THEN b ELSE building[m]
    BY <1>1 DEF NetInv, NetTypes
  <2>2. QED
    BY <1>1, <1>8, <2>1 DEF NetInv, BlocksOK
<1>14. ChainsOK' /\ FinalsOK' /\ VotesOK' /\ ProofsOK'
  BY <1>1, Zenon DEF NetInv, ChainsOK, ChainOf, FinalsOK, VotesOK, ProofsOK
<1>15. Counts
  BY <1>1 DEF Counts
<1>16. QED
  BY <1>9, <1>11, <1>12, <1>13, <1>14, <1>15 DEF Preserved, NetInv

\* A node that receives a vote.
LEMMA HandleAttestationOK ==
    ASSUME NetInv, NEW n \in Nodes, NEW a \in votesOut, HandleAttestation(n, a)
    PROVE  Preserved
<1> DEFINE c == ChainOf(n)
           r == Add(pool[n], a)
           t == TryFinalize(c, r.pool, a.number, a.hash)
<1>1. /\ IF r.report = "new" THEN SetNode(n, t.chain, t.pool) ELSE SetNode(n, c, r.pool)
      /\ proofsOut' = IF r.report = "equivocation"
                      THEN proofsOut \cup r.pool.evidence ELSE proofsOut
      /\ UNCHANGED <<building, due, restarts, blocksOut, votesOut, signed>>
  BY DEF HandleAttestation
<1>2. /\ VoteSet(signed) /\ votesOut \subseteq signed /\ Verified(votesOut)
      /\ PoolOK(pool[n], signed, votesOut) /\ ChainOK(c)
  BY VotesAreVotes DEF NetInv, VotesOK, PoolsOK, ChainsOK
<1>3. a \in signed /\ a.number \in Nat /\ a.hash \in NetBlocks /\ a.index \in Nat
  BY DEF NetInv, VotesOK, NetVotes
<1>4. Indexed(a)
  BY <1>2, <1>3, VerifiedIsIndexed
<1>5. /\ PoolOK(r.pool, signed, votesOut)
      /\ \A v : Remembers(pool[n], v, votesOut) => Remembers(r.pool, v, votesOut)
  <2>1. votesOut \cup {a} = votesOut
    OBVIOUS
  <2>2. /\ r.report \in {"new", "old"} =>
             /\ PoolOK(r.pool, signed, votesOut \cup {a})
             /\ \A v : Remembers(pool[n], v, votesOut) => Remembers(r.pool, v, votesOut \cup {a})
        /\ r.report \notin {"new", "old"} =>
             /\ PoolOK(r.pool, signed, votesOut)
             /\ \A v : Remembers(pool[n], v, votesOut) => Remembers(r.pool, v, votesOut)
    BY <1>2, <1>3, <1>4, AddOK, Zenon
  <2> HIDE DEF r
  <2>3. QED
    BY <2>1, <2>2, Zenon
<1> HIDE DEF r, c
<1>6. /\ ChainOK(t.chain) /\ PoolOK(t.pool, signed, votesOut)
      /\ t.chain.final = c.final \/ (t.chain.final = a.hash /\ QuorumIn(a.hash, votesOut))
      /\ \A v : Remembers(r.pool, v, votesOut) => Remembers(t.pool, v, votesOut)
  BY <1>2, <1>3, <1>5, TryFinalizeOK, Zenon
<1> HIDE DEF t
<1>7. PICK d, p : /\ SetNode(n, d, p) /\ ChainOK(d) /\ PoolOK(p, signed, votesOut)
                  /\ d.final = c.final \/ QuorumIn(d.final, votesOut)
                  /\ \A v : Remembers(pool[n], v, votesOut) => Remembers(p, v, votesOut)
  <2>1. CASE r.report = "new"
    BY <1>1, <1>5, <1>6, <2>1, Zenon
  <2>2. CASE r.report # "new"
    BY <1>1, <1>2, <1>5, <2>2, Zenon
  <2>3. QED
    BY <2>1, <2>2, Zenon
<1>8. c.final = final[n]
  BY ChainOfFields DEF c
<1>9. /\ NetTypes /\ ChainsOK /\ PoolsOK /\ FinalsOK
      /\ signed \subseteq signed' /\ votesOut \subseteq votesOut'
      /\ PoolOK(p, signed', votesOut')
      /\ d.final = final[n] \/ QuorumIn(d.final, votesOut')
  BY <1>1, <1>7, <1>8 DEF NetInv
<1>10. /\ stored' \in [Nodes -> SUBSET NetBlocks] /\ head' \in [Nodes -> NetBlocks]
       /\ final' \in [Nodes -> NetBlocks \cup {None}]
       /\ pool' = [m \in Nodes |-> pool'[m]]
       /\ ChainsOK' /\ PoolsOK' /\ FinalsOK'
       /\ finals \subseteq finals' /\ \A x \in finals' \ finals : QuorumIn(x, votesOut')
       /\ pool'[n] = p /\ \A m \in Nodes \ {n} : pool'[m] = pool[m]
  BY <1>7, <1>9, SetNodeOK
<1>11. NetTypes'
  BY <1>1, <1>10 DEF NetInv, NetTypes
<1>12. MemoryOK'
  BY <1>1, <1>7, <1>10, MemoryStays DEF NetInv
<1>13. BlocksOK' /\ VotesOK'
  BY <1>1, BlocksStay DEF NetInv, VotesOK
<1>14. ProofsOK'
  BY <1>1, <1>5, Zenon DEF NetInv, ProofsOK, PoolOK, PoolOf
<1>15. Counts
  BY <1>1, <1>10 DEF Counts
<1>16. QED
  BY <1>10, <1>11, <1>12, <1>13, <1>14, <1>15 DEF Preserved, NetInv

\* A node that receives a proof.
LEMMA HandleEvidenceOK ==
    ASSUME NetInv, NEW n \in Nodes, NEW e \in proofsOut, HandleEvidence(n, e)
    PROVE  Preserved
<1> DEFINE c == ChainOf(n)
           p == AddEvidence(pool[n], e)
<1>1. /\ SetNode(n, c, p)
      /\ UNCHANGED <<building, due, restarts, blocksOut, votesOut, proofsOut, signed>>
  BY DEF HandleEvidence, netVars
<1>2. /\ VoteSet(signed) /\ PoolOK(pool[n], signed, votesOut) /\ ChainOK(c)
      /\ PoolOf(pool[n], signed) /\ e \in ProofsFrom(signed)
  BY VotesAreVotes DEF NetInv, VotesOK, PoolsOK, ChainsOK, PoolOK, ProofsOK
<1>3. /\ PoolOf(p, signed) /\ p.addresses = pool[n].addresses /\ p.finalized = pool[n].finalized
      /\ p.votes = pool[n].votes /\ p.byIndex = pool[n].byIndex
      /\ \A k \in p.evidence \ pool[n].evidence : Genuine(k)
  <2>1. p = AddEvidence(pool[n], e)
    OBVIOUS
  <2> HIDE DEF p
  <2>2. MoreEvidence(pool[n], p, signed)
    BY <1>2, <2>1, AddEvidenceGives, Zenon
  <2>3. QED
    BY <2>2 DEF MoreEvidence
<1> HIDE DEF p
<1>4. PoolOK(p, signed, votesOut)
  BY <1>2, <1>3, Zenon DEF PoolOK
<1>5. /\ NetTypes /\ ChainsOK /\ PoolsOK /\ FinalsOK
      /\ signed \subseteq signed' /\ votesOut \subseteq votesOut'
      /\ PoolOK(p, signed', votesOut') /\ c.final = final[n]
  BY <1>1, <1>4, ChainOfFields DEF NetInv
<1> HIDE DEF c
<1>6. /\ stored' \in [Nodes -> SUBSET NetBlocks] /\ head' \in [Nodes -> NetBlocks]
      /\ final' \in [Nodes -> NetBlocks \cup {None}]
      /\ pool' = [m \in Nodes |-> pool'[m]]
      /\ ChainsOK' /\ PoolsOK' /\ FinalsOK'
      /\ finals \subseteq finals' /\ \A x \in finals' \ finals : QuorumIn(x, votesOut')
      /\ pool'[n] = p /\ \A m \in Nodes \ {n} : pool'[m] = pool[m]
  BY <1>1, <1>2, <1>5, SetNodeOK
<1>7. NetTypes'
  BY <1>1, <1>6 DEF NetInv, NetTypes
<1>8. MemoryOK'
  <2>1. Remembers(pool[n], n, votesOut) => Remembers(pool'[n], n, votesOut')
    BY <1>1, <1>3, <1>6 DEF Remembers
  <2>2. QED
    BY <1>1, <1>6, <2>1, MemoryStays DEF NetInv
<1>9. BlocksOK' /\ VotesOK' /\ ProofsOK'
  BY <1>1, BlocksStay DEF NetInv, VotesOK, ProofsOK
<1>10. Counts
  BY <1>1, <1>6 DEF Counts
<1>11. QED
  BY <1>6, <1>7, <1>8, <1>9, <1>10 DEF Preserved, NetInv

\* A node that restarts: its votes are forgotten, which the invariant allows for.
LEMMA RestartOK ==
    ASSUME NetInv, NEW n \in Nodes, Restart(n)
    PROVE  Preserved
<1>1. /\ restarts' = [restarts EXCEPT ![n] = @ + 1]
      /\ pool' = [pool EXCEPT ![n] = NewPool(Order)]
      /\ building' = [building EXCEPT ![n] = None]
      /\ due' = [due EXCEPT ![n] = [g \in Routines |-> None]]
      /\ UNCHANGED <<stored, head, final, finals, blocksOut, votesOut, proofsOut, signed>>
  BY DEF Restart, netVars
<1>2. NetTypes'
  <2>1. restarts' \in [Nodes -> Nat]
    BY <1>1 DEF NetInv, NetTypes
  <2>2. due' \in [Nodes -> [Routines -> NetBlocks \cup {None}]]
    BY <1>1 DEF NetInv, NetTypes
  <2>3. building' \in [Nodes -> NetBlocks \cup {None}]
    BY <1>1 DEF NetInv, NetTypes
  <2>4. pool' = [m \in Nodes |-> pool'[m]]
    BY <1>1, Zenon DEF NetInv, NetTypes
  <2>5. QED
    BY <1>1, <2>1, <2>2, <2>3, <2>4 DEF NetInv, NetTypes
<1>3. PoolsOK'
  <2> SUFFICES ASSUME NEW m \in Nodes PROVE PoolOK(pool'[m], signed, votesOut)
    BY <1>1 DEF PoolsOK
  <2>1. pool'[m] = IF m = n THEN NewPool(Order) ELSE pool[m]
    BY <1>1 DEF NetInv, NetTypes
  <2>2. PoolOK(NewPool(Order), signed, votesOut)
    BY NewPoolOK
  <2>3. QED
    BY <2>1, <2>2 DEF NetInv, PoolsOK
<1>4. MemoryOK'
  <2> SUFFICES ASSUME NEW v \in NetVoters, restarts'[v] = 0
               PROVE  Remembers(pool'[v], v, votesOut)
    BY <1>1 DEF MemoryOK
  <2>1. v \in Nodes
    BY DEF Nodes
  <2>2. v # n /\ restarts'[v] = restarts[v]
    BY <1>1, <2>1 DEF NetInv, NetTypes
  <2>3. pool'[v] = pool[v]
    BY <1>1, <2>1, <2>2 DEF NetInv, NetTypes
  <2>4. QED
    BY <2>2, <2>3 DEF NetInv, MemoryOK
<1>5. BlocksOK'
  <2>1. \A m \in Nodes : building'[m] = IF m = n THEN None ELSE building[m]
    BY <1>1 DEF NetInv, NetTypes
  <2>2. QED
    BY <1>1, <2>1 DEF NetInv, BlocksOK
<1>6. ChainsOK' /\ FinalsOK' /\ VotesOK' /\ ProofsOK'
  BY <1>1, Zenon DEF NetInv, ChainsOK, ChainOf, FinalsOK, VotesOK, ProofsOK
<1>7. Counts
  BY <1>1 DEF Counts
<1>8. QED
  BY <1>2, <1>3, <1>4, <1>5, <1>6, <1>7 DEF Preserved, NetInv

\* attest finds the index of the validator it signs for.
LEMMA IndexFound ==
    ASSUME NEW p, p.addresses = Order, NEW n \in NetVoters
    PROVE  LET i == CHOOSE i \in IndexOf(p, n) : TRUE IN
           i \in Nat /\ i + 1 \in DOMAIN Order /\ Order[i + 1] = n
<1>1. Len(Order) \in Nat /\ DOMAIN Order = 1..Len(Order)
  BY NetAssumption
<1>2. PICK k \in DOMAIN Order : Order[k] = n
  BY DEF NetVoters
<1>3. k - 1 \in IndexOf(p, n)
  <2>1. k - 1 \in 0..(Len(Order) - 1) /\ (k - 1) + 1 = k
    BY <1>1
  <2>2. ASSUME NEW j \in 0..((k - 1) - 1) PROVE Order[j + 1] # n
    <3>1. j + 1 \in DOMAIN Order /\ j + 1 # k
      BY <1>1
    <3>2. QED
      BY <1>2, <3>1, NetAssumption
  <2>3. QED
    BY <1>2, <2>1, <2>2, Zenon DEF IndexOf
<1>4. (CHOOSE i \in IndexOf(p, n) : TRUE) \in IndexOf(p, n)
  BY <1>3
<1>5. QED
  BY <1>1, <1>4 DEF IndexOf

\* A validator that votes for a block it imported.
LEMMA AttestOK ==
    ASSUME NetInv, NEW n \in NetVoters, NEW g \in Routines, Attest(n, g)
    PROVE  Preserved
<1> DEFINE b == due[n][g]
           i == CHOOSE i \in IndexOf(pool[n], n) : TRUE
           a == Attestation(Height(b), b, i, n)
           c == ChainOf(n)
           r == Add(pool[n], a)
           t == TryFinalize(c, r.pool, Height(b), b)
<1>1. /\ b # None /\ due' = [due EXCEPT ![n][g] = None] /\ signed' = signed \cup {a}
      /\ \/ /\ r.report \in {"new", "old"} /\ SetNode(n, t.chain, t.pool)
            /\ votesOut' = votesOut \cup {a}
         \/ /\ r.report \notin {"new", "old"} /\ SetNode(n, c, r.pool)
            /\ UNCHANGED votesOut
      /\ UNCHANGED <<building, restarts, blocksOut, proofsOut>>
  BY Zenon DEF Attest
<1>2. n \in Nodes
  BY DEF Nodes
<1>3. b \in NetBlocks /\ Height(b) \in Nat
  <2>1. b \in NetBlocks
    <3>1. due \in [Nodes -> [Routines -> NetBlocks \cup {None}]]
      BY DEF NetInv, NetTypes
    <3>2. due[n][g] \in NetBlocks \cup {None}
      BY <1>2, <3>1
    <3>3. QED
      BY <1>1, <3>2
  <2>2. QED
    BY <2>1, BlockIsSeq
<1>4. PoolOK(pool[n], signed, votesOut) /\ ChainOK(c) /\ c.final = final[n]
  BY <1>2, ChainOfFields, Zenon DEF NetInv, PoolsOK, ChainsOK
<1>5. i \in Nat /\ i + 1 \in DOMAIN Order /\ Order[i + 1] = n
  BY <1>4, IndexFound DEF PoolOK
<1> HIDE DEF b, i, c
<1>6. /\ a \in NetVotes /\ a.signer = n /\ a.number = Height(b) /\ a.hash = b
      /\ Indexed(a)
  BY <1>3, <1>5 DEF Attestation, NetVotes, Indexed
<1> HIDE DEF a
<1>7. /\ signed' \subseteq NetVotes /\ a \in signed' /\ signed \subseteq signed'
      /\ votesOut \subseteq votesOut' /\ votesOut' \subseteq signed'
      /\ votesOut \subseteq signed' /\ Verified(votesOut)
      /\ \A x \in votesOut' \ votesOut : x.signer = n
  BY <1>1, <1>6 DEF NetInv, VotesOK
<1>8. VoteSet(signed') /\ PoolOK(pool[n], signed', votesOut)
  BY <1>4, <1>7, VotesAreVotes, PoolStaysOK
<1>9. /\ r.report \in {"new", "old"} =>
           /\ Verified(votesOut \cup {a}) /\ PoolOK(r.pool, signed', votesOut \cup {a})
           /\ \A v : Remembers(pool[n], v, votesOut) => Remembers(r.pool, v, votesOut \cup {a})
      /\ r.report \notin {"new", "old"} =>
           /\ PoolOK(r.pool, signed', votesOut)
           /\ \A v : Remembers(pool[n], v, votesOut) => Remembers(r.pool, v, votesOut)
  BY <1>6, <1>7, <1>8, AddOK, Zenon
<1> HIDE DEF r
<1>10. PICK d, p : /\ SetNode(n, d, p) /\ ChainOK(d) /\ PoolOK(p, signed', votesOut')
                   /\ d.final = c.final \/ QuorumIn(d.final, votesOut')
                   /\ \A v : Remembers(pool[n], v, votesOut) => Remembers(p, v, votesOut')
                   /\ Verified(votesOut')
  <2>1. CASE r.report \in {"new", "old"}
    <3>1. votesOut' = votesOut \cup {a} /\ SetNode(n, t.chain, t.pool)
      BY <1>1, <2>1
    <3>2. /\ Verified(votesOut') /\ PoolOK(r.pool, signed', votesOut')
          /\ \A v : Remembers(pool[n], v, votesOut) => Remembers(r.pool, v, votesOut')
      BY <1>9, <2>1, <3>1, Zenon
    <3>3. /\ ChainOK(t.chain) /\ PoolOK(t.pool, signed', votesOut')
          /\ t.chain.final = c.final \/ (t.chain.final = b /\ QuorumIn(b, votesOut'))
          /\ \A v : Remembers(r.pool, v, votesOut') => Remembers(t.pool, v, votesOut')
      BY <1>3, <1>4, <1>7, <1>8, <3>2, TryFinalizeOK, Zenon
    <3> HIDE DEF t
    <3>4. QED
      BY <3>1, <3>2, <3>3, Zenon
  <2>2. CASE r.report \notin {"new", "old"}
    <3>1. votesOut' = votesOut /\ SetNode(n, c, r.pool)
      BY <1>1, <2>2
    <3>2. /\ PoolOK(r.pool, signed', votesOut')
          /\ \A v : Remembers(pool[n], v, votesOut) => Remembers(r.pool, v, votesOut')
      BY <1>9, <2>2, <3>1, Zenon
    <3>3. QED
      BY <1>4, <1>7, <3>1, <3>2, Zenon
  <2>3. QED
    BY <2>1, <2>2, Zenon
<1>11. /\ NetTypes /\ ChainsOK /\ PoolsOK /\ FinalsOK
       /\ d.final = final[n] \/ QuorumIn(d.final, votesOut')
  BY <1>4, <1>10 DEF NetInv
<1>12. /\ stored' \in [Nodes -> SUBSET NetBlocks] /\ head' \in [Nodes -> NetBlocks]
       /\ final' \in [Nodes -> NetBlocks \cup {None}]
       /\ pool' = [m \in Nodes |-> pool'[m]]
       /\ ChainsOK' /\ PoolsOK' /\ FinalsOK'
       /\ finals \subseteq finals' /\ \A x \in finals' \ finals : QuorumIn(x, votesOut')
       /\ pool'[n] = p /\ \A m \in Nodes \ {n} : pool'[m] = pool[m]
  BY <1>2, <1>7, <1>10, <1>11, SetNodeOK
<1>13. NetTypes'
  BY <1>1, <1>12, Zenon DEF NetInv, NetTypes
<1>14. MemoryOK'
  BY <1>1, <1>2, <1>7, <1>10, <1>12, MemoryStays DEF NetInv
<1>15. BlocksOK' /\ ProofsOK'
  BY <1>1, <1>7, BlocksStay, ProofsStay DEF NetInv
<1>16. VotesOK'
  BY <1>1, <1>6, <1>7, <1>10 DEF NetInv, VotesOK
<1>17. Counts
  BY <1>1, <1>7, <1>12 DEF Counts
<1>18. QED
  BY <1>12, <1>13, <1>14, <1>15, <1>16, <1>17 DEF Preserved, NetInv

-----------------------------------------------------------------------------
(* The results.                                                            *)

\* The network starts in the invariant.
LEMMA InitOK == Init => NetInv
<1> SUFFICES ASSUME Init PROVE NetInv
  OBVIOUS
<1> USE DEF Init
<1>1. NetTypes
  BY GenesisIsBlock DEF NetTypes
<1>2. ChainsOK
  BY GenesisIsBlock, Zenon DEF ChainsOK, ChainOf, ChainOK, ChainFields
<1>3. PoolsOK
  BY NewPoolOK DEF PoolsOK
<1>4. VotesOK /\ BlocksOK /\ FinalsOK /\ ProofsOK
  BY DEF VotesOK, Verified, BlocksOK, FinalsOK, ProofsOK
<1>5. MemoryOK
  BY DEF MemoryOK, Remembers
<1>6. QED
  BY <1>1, <1>2, <1>3, <1>4, <1>5 DEF NetInv

\* Every step preserves the invariant and counts votes.
LEMMA StepOK == NetInv /\ [Next]_vars => Preserved
<1> SUFFICES ASSUME NetInv, [Next]_vars PROVE Preserved
  OBVIOUS
<1>1. Proposers \subseteq Nodes /\ Peers \subseteq Routines /\ Restarting \subseteq Nodes
  BY NetAssumption DEF Proposers, Nodes, Routines
<1>2. CASE \E n \in Proposers : Build(n) \/ Commit(n)
  BY <1>1, <1>2, BuildOK, CommitOK
<1>3. CASE \E n \in Nodes, g \in Peers : Deliver(n, g)
  BY <1>1, <1>3, HandleBlockOK, HandleAttestationOK, HandleEvidenceOK DEF Deliver
<1>4. CASE \E n \in NetVoters, g \in Routines : Attest(n, g)
  BY <1>4, AttestOK
<1>5. CASE \E n \in Restarting : Restart(n)
  BY <1>1, <1>5, RestartOK
<1>6. CASE UNCHANGED vars
  <2>1. /\ UNCHANGED <<stored, head, final, pool, finals, building, due, restarts>>
        /\ UNCHANGED <<blocksOut, votesOut, proofsOut, signed>>
    BY <1>6 DEF vars, nodeVars, netVars
  <2>2. NetInv'
    BY <2>1 DEF NetInv, NetTypes, ChainsOK, ChainOf, PoolsOK, VotesOK, BlocksOK, FinalsOK,
                ProofsOK, MemoryOK
  <2>3. QED
    BY <2>1, <2>2 DEF Preserved, Counts
<1>7. QED
  BY <1>2, <1>3, <1>4, <1>5, <1>6 DEF Next

\* The invariant of the network: chains and pools are well formed, pools hold what
\* was broadcast, a block that embeds a certificate has its quorum, and who has not
\* restarted remembers its votes.
THEOREM NetInvariant == Spec => []NetInv
<1>1. NetInv /\ [Next]_vars => NetInv'
  BY StepOK DEF Preserved
<1>2. QED
  BY <1>1, InitOK, PTL DEF Spec

\* No node ever holds a block final, by certificate or by embedded justification,
\* without the votes of a quorum: the network implements vote counting, whatever
\* the forks, restarts and races between a node's goroutines.
THEOREM NetImplementsVoteCounting == Spec => ImplementsVoteCounting
<1>1. Init => Counting!CountInit
  BY DEF Init, Counting!CountInit
<1>2. NetInv /\ [Next]_vars => [Counting!CountNext]_(Counting!vcvars)
  <2> SUFFICES ASSUME NetInv, [Next]_vars PROVE Counting!CountNext
    OBVIOUS
  <2>1. NetInv' /\ Counts
    BY StepOK DEF Preserved
  <2>2. \/ UNCHANGED {<<a.signer, a.hash>> : a \in votesOut}
        \/ \E v \in NetVoters, c \in NetBlocks : Counting!Cast(v, c)
    <3>1. CASE votesOut' = votesOut
      BY <3>1
    <3>2. ASSUME NEW a \in signed', votesOut' = votesOut \cup {a}
          PROVE  \E v \in NetVoters, c \in NetBlocks : Counting!Cast(v, c)
      <4>1. a.signer \in NetVoters /\ a.hash \in NetBlocks
        BY <2>1 DEF NetInv, VotesOK, NetVotes
      <4>2. Counting!Cast(a.signer, a.hash)
        BY <3>2 DEF Counting!Cast
      <4>3. QED
        BY <4>1, <4>2
    <3>3. QED
      BY <2>1, <3>1, <3>2, Zenon DEF Counts
  <2>3. Counting!Count
    <3>1. finals' \subseteq NetBlocks /\ finals \subseteq finals'
      BY <2>1, Zenon DEF NetInv, FinalsOK, Counts
    <3>2. \A T : Counting!Cardinality(T) = Cardinality(T)
      BY DEF Cardinality, Counting!Cardinality
    <3>3. ASSUME NEW c \in finals' \ finals
          PROVE  Counting!Cardinality(Counting!Supporters(c)') >= Counting!Threshold
      <4>1. Counting!Supporters(c)' = VotersFor(c, votesOut')
        BY DEF Counting!Supporters, VotersFor
      <4>2. QuorumIn(c, votesOut')
        BY <2>1 DEF Counts
      <4>3. QED
        BY <3>2, <4>1, <4>2 DEF QuorumIn, NetThreshold, Counting!Threshold
    <3>4. QED
      BY <3>1, <3>3 DEF Counting!Count
  <2>4. QED
    BY <2>2, <2>3 DEF Counting!CountNext
<1>3. QED
  BY <1>1, <1>2, NetInvariant, PTL DEF Spec, ImplementsVoteCounting, Counting!CountSpec

\* A validator that has not restarted broadcasts a second vote at a height only
\* once it no longer counts votes there.
THEOREM SecondVotesAreSettled == Spec => []SecondVoteOnlyWhenSettled
<1>1. NetInv => SecondVoteOnlyWhenSettled
  <2> SUFFICES ASSUME NetInv PROVE SecondVoteOnlyWhenSettled
    OBVIOUS
  <2> SUFFICES ASSUME NEW a \in votesOut, NEW b \in votesOut,
                      a.signer = b.signer, a.number = b.number, a.hash # b.hash,
                      restarts[a.signer] = 0, ~(pool[a.signer].finalized >= a.number)
               PROVE  FALSE
    <3>1. \A v \in NetVoters : restarts[v] \in Nat
      BY DEF NetInv, NetTypes, Nodes
    <3>2. \A x \in votesOut : x.signer \in NetVoters
      BY DEF NetInv, VotesOK, NetVotes
    <3>3. QED
      BY <3>1, <3>2 DEF SecondVoteOnlyWhenSettled
  <2> DEFINE v == a.signer
  <2>1. /\ v \in NetVoters /\ v \in Nodes /\ a.number \in Nat
        /\ a.index \in Nat /\ b.index \in Nat /\ Verified(votesOut)
    BY DEF NetInv, VotesOK, NetVotes, Nodes
  <2>2. PoolOK(pool[v], signed, votesOut) /\ Remembers(pool[v], v, votesOut)
    BY <2>1 DEF NetInv, PoolsOK, MemoryOK
  <2>3. pool[v].finalized \in Nat
    BY <2>2 DEF PoolOK, PoolOf
  <2>4. a \in pool[v].byIndex /\ b \in pool[v].byIndex
    <3>1. a.number > pool[v].finalized
      BY <2>1, <2>3
    <3>2. QED
      BY <2>2, <3>1, Zenon DEF Remembers
  <2>5. a.index = b.index
    <3>1. Indexed(a) /\ Indexed(b)
      BY <2>1, VerifiedIsIndexed
    <3>2. a.index + 1 = b.index + 1
      BY <3>1, NetAssumption DEF Indexed
    <3>3. QED
      BY <2>1, <3>2
  <2>6. a = b
    BY <2>2, <2>4, <2>5 DEF PoolOK
  <2>7. QED
    BY <2>6
<1>2. QED
  BY <1>1, NetInvariant, PTL

\* HandleAttestations and HandleEvidence spread only proofs that name a validator
\* that signed two different votes at one height.
THEOREM ProofsAlwaysGenuine == Spec => []ProofsAreGenuine
<1>1. NetInv => ProofsAreGenuine
  BY DEF NetInv, ProofsOK, ProofsFrom, Genuine, ProofsAreGenuine
<1>2. QED
  BY <1>1, NetInvariant, PTL

-----------------------------------------------------------------------------
(* What conflicting finality takes.                                        *)

(* The validators that broadcast two different votes at a height. *)
SplitVoters(h) ==
    {v \in NetVoters : \E a, b \in votesOut : /\ a.signer = v /\ b.signer = v
                                              /\ a.number = h /\ b.number = h
                                              /\ a.hash # b.hash}

\* If two blocks of one height are ever final, on whatever nodes, then more than a
\* third of the validators voted twice there, and each of those had restarted or no
\* longer counts votes at that height.
ConflictsTakeAThird ==
    \A c, d \in finals :
        Height(c) = Height(d) /\ c # d =>
            /\ 3 * Cardinality(SplitVoters(Height(c))) > Cardinality(NetVoters)
            /\ \A v \in SplitVoters(Height(c)) :
                  restarts[v] > 0 \/ pool[v].finalized >= Height(c)

\* Quorum intersection, for the set of the network.
LEMMA NetQuorumsIntersect ==
    ASSUME NEW S \in SUBSET NetVoters, NEW T \in SUBSET NetVoters,
           Cardinality(S) >= NetThreshold, Cardinality(T) >= NetThreshold
    PROVE  3 * Cardinality(S \cap T) > Cardinality(NetVoters)
BY VotersCounted, QuorumsIntersect DEF NetThreshold

\* Safety of finality with its price: tryFinalize and insertLocked on different nodes
\* make different blocks of a height final only if more than a third of the set
\* voted for both.
THEOREM ConflictsTakeAThirdAlways == Spec => []ConflictsTakeAThird
<1>1. NetInv /\ SecondVoteOnlyWhenSettled => ConflictsTakeAThird
  <2> SUFFICES ASSUME NetInv, SecondVoteOnlyWhenSettled,
                      NEW c \in finals, NEW d \in finals, Height(c) = Height(d), c # d
               PROVE  /\ 3 * Cardinality(SplitVoters(Height(c))) > Cardinality(NetVoters)
                      /\ \A v \in SplitVoters(Height(c)) :
                            restarts[v] > 0 \/ pool[v].finalized >= Height(c)
    BY DEF ConflictsTakeAThird
  <2> DEFINE C == VotersFor(c, votesOut)
             D == VotersFor(d, votesOut)
             X == SplitVoters(Height(c))
  <2>1. /\ Cardinality(C) >= NetThreshold /\ Cardinality(D) >= NetThreshold
        /\ C \in SUBSET NetVoters /\ D \in SUBSET NetVoters
    BY DEF NetInv, FinalsOK, QuorumIn, VotersFor
  <2>2. 3 * Cardinality(C \cap D) > Cardinality(NetVoters)
    <3> HIDE DEF C, D
    <3> QED BY <2>1, NetQuorumsIntersect
  <2>3. C \cap D \subseteq X /\ X \subseteq NetVoters
    <3>1. \A a \in votesOut : a.number = Height(a.hash)
      BY DEF NetInv, VotesOK
    <3>2. QED
      BY <3>1 DEF VotersFor, SplitVoters
  <2>4. IsFiniteSet(X) /\ Cardinality(X) \in Nat /\ Cardinality(C \cap D) \in Nat
    BY <2>3, VotersCounted, FS_Subset, FS_CardinalityType
  <2>5. Cardinality(C \cap D) <= Cardinality(X)
    BY <2>3, <2>4, FS_Subset
  <2>6. Cardinality(NetVoters) \in Nat
    BY VotersCounted, FS_CardinalityType
  <2>7. 3 * Cardinality(X) > Cardinality(NetVoters)
    <3> HIDE DEF C, D, X
    <3> QED BY <2>2, <2>4, <2>5, <2>6
  <2>8. \A v \in X : restarts[v] > 0 \/ pool[v].finalized >= Height(c)
    BY DEF SplitVoters, SecondVoteOnlyWhenSettled
  <2>9. QED
    BY <2>7, <2>8
<1>2. QED
  BY <1>1, NetInvariant, SecondVotesAreSettled, PTL

\* The state of every node is what the code's types say.
THEOREM NetTypeOK == Spec => []TypeOK
<1>1. NetInv => TypeOK
  <2> SUFFICES ASSUME NetInv PROVE TypeOK
    OBVIOUS
  <2>1. \A n \in Nodes : stored[n] \subseteq NetBlocks /\ head[n] \in stored[n]
                         /\ final[n] \in stored[n] \cup {None}
    BY ChainOfFields DEF NetInv, ChainsOK, ChainOK
  <2>2. QED
    BY <2>1 DEF NetInv, NetTypes, BlocksOK, FinalsOK, VotesOK, NetVotes, TypeOK
<1>2. QED
  BY <1>1, NetInvariant, PTL
=============================================================================
