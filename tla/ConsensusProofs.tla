--------------------------- MODULE ConsensusProofs ---------------------------
(***************************************************************************)
(* The chain, the vote pool and the counting of votes.                     *)
(*                                                                         *)
(* Module Chain, for every tree of blocks, every assignment of             *)
(* transactions to blocks and every set of certificates.  The vote pool,   *)
(* for every sequence of validator sets, every set of votes and every      *)
(* length of the retained history: what a certificate stands for, whom     *)
(* evidence accuses, and which votes may be lost.  Counting votes, for     *)
(* sets of any size: what two quorums share.                               *)
(***************************************************************************)
EXTENDS Chain, VoteCounting, AttestationPoolSpec, AttestationPoolLemmas

-----------------------------------------------------------------------------
(* The vote pool.                                                          *)

(* The inductive invariant.  A certificate is built from what the pool     *)
(* holds, so the pool is what has to be kept in order: its votes are votes *)
(* that were sent, finitely many, one for each index and height.           *)
PInv ==
    /\ PoolOf(pool, Votes)
    /\ PoolTypeOK
    /\ EachIndexCountedOnce
    /\ OldVotesDropped
    /\ CertificateIsAQuorum
    /\ EvidenceIsGenuine

\* The votes of a run are votes in the sense of the lemmas.
LEMMA VotesTyped == VoteSet(Votes) /\ Numbers \in SUBSET Nat
  BY PoolAssumption DEF VoteSet, Numbers

\* Add keeps the invariant: a vote is recorded in both maps or in neither.
LEMMA AddVoteStep ==
    ASSUME PInv, NEW a \in Votes, AddVote(a)
    PROVE  PInv'
<1> DEFINE r == Add(pool, a)
<1>0. pool' = r.pool /\ certs' = certs
  BY DEF AddVote
<1>1. a.number \in Nat /\ a.index \in Nat /\ \A b \in Votes : b.number \in Nat
  BY VotesTyped DEF VoteSet
<1>2. PoolOf(pool, Votes) /\ pool.finalized \in Nat /\ pool.byIndex \subseteq Votes
  BY DEF PInv, PoolOf
<1>3. CASE pool' = pool
  BY <1>0, <1>3 DEF PInv, PoolTypeOK, EachIndexCountedOnce, OldVotesDropped, CertificateIsAQuorum,
                    EvidenceIsGenuine
<1>4. CASE /\ PoolOf(r.pool, Votes)
           /\ r.pool.addresses = pool.addresses /\ r.pool.finalized = pool.finalized
           /\ r.pool.votes = pool.votes /\ r.pool.byIndex = pool.byIndex
           /\ \A e \in r.pool.evidence \ pool.evidence : Genuine(e)
  <2> HIDE DEF r
  <2>1. EvidenceIsGenuine'
    BY <1>0, <1>4 DEF PInv, EvidenceIsGenuine, Genuine
  <2>2. QED
    BY <1>0, <1>4, <2>1 DEF PInv, PoolTypeOK, EachIndexCountedOnce, OldVotesDropped, CertificateIsAQuorum
<1>5. CASE /\ PoolOf(r.pool, Votes)
           /\ pool.finalized > 0 => a.number > pool.finalized
           /\ \A q \in pool.byIndex : ~(q.number = a.number /\ q.index = a.index)
           /\ r.pool.addresses = pool.addresses /\ r.pool.finalized = pool.finalized
           /\ r.pool.votes = pool.votes \cup {a} /\ r.pool.byIndex = pool.byIndex \cup {a}
           /\ r.pool.evidence = pool.evidence
  <2> HIDE DEF r
  <2>1. EachIndexCountedOnce'
    BY <1>0, <1>5 DEF PInv, EachIndexCountedOnce
  <2>2. OldVotesDropped'
    BY <1>0, <1>1, <1>2, <1>5, PoolAssumption DEF PInv, OldVotesDropped
  <2>3. QED
    BY <1>0, <1>5, <2>1, <2>2 DEF PInv, PoolTypeOK, CertificateIsAQuorum, EvidenceIsGenuine
<1>6. QED
  BY <1>0, <1>2, <1>3, <1>4, <1>5, VotesTyped, AddCases

\* Certificate keeps the invariant, and what it returns is a quorum.
LEMMA AskCertificateStep ==
    ASSUME PInv, NEW n \in Numbers, NEW h \in Hashes, AskCertificate(n, h)
    PROVE  PInv' /\ \A a \in pool.votes \ pool'.votes : ~Verifies(pool, a)
<1> DEFINE res == Certificate(pool, n, h)
           M == CertifiedBy(pool, n, h)
           c == [number |-> n, hash |-> h, signers |-> M, set |-> pool.addresses]
<1>0. /\ pool' = res.pool
      /\ certs' = IF res.signers = {} THEN certs ELSE certs \cup {c}
  BY DEF AskCertificate, CertifiedBy
<1>1. PoolOf(pool, Votes) /\ pool.addresses \in Sets /\ pool.votes \subseteq Votes
  BY DEF PInv, PoolTypeOK
<1>2. /\ PoolOf(pool', Votes)
      /\ pool'.addresses = pool.addresses /\ pool'.evidence = pool.evidence
      /\ pool'.finalized = pool.finalized
      /\ pool'.votes \subseteq pool.votes /\ pool'.byIndex \subseteq pool.byIndex
      /\ \A a \in pool.votes \ pool'.votes : ~Verifies(pool, a)
      /\ pool'.votes \subseteq pool'.byIndex
  BY <1>0, <1>1, VotesTyped, CertificateKeeps DEF PInv, EachIndexCountedOnce
<1>3. res.signers # {} =>
        /\ Cardinality(M) >= Quorum(Len(pool.addresses))
        /\ \A v \in M : /\ \E i \in DOMAIN pool.addresses : pool.addresses[i] = v
                        /\ \E a \in pool.votes : a.signer = v /\ a.number = n /\ a.hash = h
  <2> HAVE res.signers # {}
  <2>1. Distinct(pool.addresses)
    BY <1>1, PoolAssumption DEF Distinct
  <2>2. VoteSet(Votes)
    BY VotesTyped
  <2>3. QED
    BY <1>1, <2>1, <2>2, CertificateQuorum
<1> HIDE DEF res, M
<1>4. CertificateIsAQuorum'
  BY <1>0, <1>1, <1>3 DEF PInv, CertificateIsAQuorum
<1>5. PoolTypeOK'
  BY <1>0, <1>1, <1>2 DEF PInv, PoolTypeOK
<1>6. QED
  BY <1>2, <1>4, <1>5 DEF PInv, EachIndexCountedOnce, OldVotesDropped, EvidenceIsGenuine

\* UpdateValidators keeps the invariant: nothing in it depends on the present set.
LEMMA ChangeSetStep ==
    ASSUME PInv, NEW set \in Sets, ChangeSet(set)
    PROVE  PInv' /\ pool'.votes = pool.votes
<1>1. set \in Seq(Validators)
  BY PoolAssumption
<1>2. /\ PoolOf(pool', Votes) /\ pool'.addresses = set /\ pool'.votes = pool.votes
      /\ pool'.byIndex = pool.byIndex /\ pool'.evidence = pool.evidence
      /\ pool'.finalized = pool.finalized /\ certs' = certs
  BY <1>1, UpdateValidatorsFields DEF PInv, ChangeSet
<1>3. QED
  BY <1>2 DEF PInv, PoolTypeOK, EachIndexCountedOnce, OldVotesDropped, CertificateIsAQuorum,
              EvidenceIsGenuine

\* MarkFinalized keeps the invariant, and drops what is below the retained history.
LEMMA SettleStep ==
    ASSUME PInv, NEW n \in Numbers, Settle(n)
    PROVE  PInv' /\ \A a \in pool.votes \ pool'.votes : a.number + Retain < pool'.finalized
<1>1. n \in Nat /\ Retain \in Nat /\ certs' = certs
  BY VotesTyped, PoolAssumption DEF Settle
<1>2. /\ PoolOf(pool', Votes)
      /\ pool'.addresses = pool.addresses /\ pool'.evidence = pool.evidence
      /\ pool'.finalized \in {pool.finalized, n}
      /\ pool'.votes \subseteq pool.votes /\ pool'.byIndex \subseteq pool.byIndex
      /\ \A a \in pool.votes \ pool'.votes : a.number + Retain < pool'.finalized
      /\ \A a \in pool'.votes \cup pool'.byIndex :
            pool'.finalized # pool.finalized /\ pool'.finalized > Retain
                => a.number + Retain >= pool'.finalized
      /\ pool'.votes \subseteq pool'.byIndex
  <2>1. PoolOf(pool, Votes) /\ pool.votes \subseteq pool.byIndex /\ pool' = MarkFinalized(pool, n)
    BY DEF PInv, EachIndexCountedOnce, Settle
  <2>2. VoteSet(Votes)
    BY VotesTyped
  <2>3. QED
    BY <1>1, <2>1, <2>2, MarkFinalizedKeeps
<1>3. \A a \in Votes : a.number \in Nat
  BY VotesTyped DEF VoteSet
<1>4. pool'.finalized \in Nat /\ pool'.votes \cup pool'.byIndex \subseteq Votes
  BY <1>2 DEF PoolOf
<1>5. OldVotesDropped'
  <2>1. CASE pool'.finalized = pool.finalized
    BY <1>2, <2>1 DEF PInv, OldVotesDropped
  <2>2. CASE pool'.finalized # pool.finalized
    BY <1>1, <1>2, <1>3, <1>4, <2>2 DEF OldVotesDropped
  <2>3. QED
    BY <2>1, <2>2
<1>6. QED
  BY <1>1, <1>2, <1>5 DEF PInv, PoolTypeOK, EachIndexCountedOnce, CertificateIsAQuorum,
                          EvidenceIsGenuine

\* AddEvidence keeps the invariant, although peers assembled the proof under
\* another set.
LEMMA ReceiveProofStep ==
    ASSUME PInv, NEW e \in Proofs, ReceiveProof(e)
    PROVE  PInv' /\ pool'.votes = pool.votes
<1>1. e \in ProofsFrom(Votes)
  BY VotesTyped DEF Proofs, ProofsFrom, VoteSet
<1>2. /\ PoolOf(pool', Votes)
      /\ pool'.addresses = pool.addresses /\ pool'.finalized = pool.finalized
      /\ pool'.votes = pool.votes /\ pool'.byIndex = pool.byIndex /\ certs' = certs
      /\ \A k \in pool'.evidence \ pool.evidence : Genuine(k)
  BY <1>1, VotesTyped, AddEvidenceKeeps DEF PInv, ReceiveProof
<1>3. EvidenceIsGenuine'
  BY <1>2 DEF PInv, EvidenceIsGenuine, Genuine
<1>4. QED
  BY <1>2, <1>3 DEF PInv, PoolTypeOK, EachIndexCountedOnce, OldVotesDropped, CertificateIsAQuorum

\* What one step may do to the votes.
LostForCause ==
    \A a \in pool.votes \ pool'.votes :
        ~Verifies(pool, a) \/ a.number + Retain < pool'.finalized

\* Every step keeps the invariant and loses votes for a cause only.
LEMMA PoolStep == PInv /\ [PoolNext]_poolVars => PInv' /\ (LostForCause \/ UNCHANGED poolVars)
<1> SUFFICES ASSUME PInv, [PoolNext]_poolVars PROVE PInv' /\ (LostForCause \/ UNCHANGED poolVars)
  OBVIOUS
<1>1. ASSUME NEW a \in Votes, AddVote(a) PROVE PInv' /\ LostForCause
  <2>1. pool.votes \subseteq pool'.votes
    BY <1>1, VotesTyped, AddCases DEF AddVote, PInv
  <2>2. QED
    BY <1>1, <2>1, AddVoteStep DEF LostForCause
<1>2. ASSUME NEW n \in Numbers, NEW h \in Hashes, AskCertificate(n, h) PROVE PInv' /\ LostForCause
  BY <1>2, AskCertificateStep DEF LostForCause
<1>3. ASSUME NEW set \in Sets, ChangeSet(set) PROVE PInv' /\ LostForCause
  BY <1>3, ChangeSetStep DEF LostForCause
<1>4. ASSUME NEW n \in Numbers, Settle(n) PROVE PInv' /\ LostForCause
  BY <1>4, SettleStep DEF LostForCause
<1>5. ASSUME NEW e \in Proofs, ReceiveProof(e) PROVE PInv' /\ LostForCause
  BY <1>5, ReceiveProofStep DEF LostForCause
<1>6. CASE UNCHANGED poolVars
  BY <1>6 DEF poolVars, PInv, PoolTypeOK, EachIndexCountedOnce, OldVotesDropped,
              CertificateIsAQuorum, EvidenceIsGenuine
<1>7. QED
  BY <1>1, <1>2, <1>3, <1>4, <1>5, <1>6 DEF PoolNext

\* The pool (consensus/finality.go) keeps its invariant under every sequence of
\* calls.
THEOREM PoolInvariant == PoolSpec => []PInv
<1>1. PoolInit => PInv
  <2> SUFFICES ASSUME PoolInit PROVE PInv
    OBVIOUS
  <2>1. InitSet \in Seq(Validators) /\ InitSet \in Sets
    BY PoolAssumption
  <2>2. /\ PoolOf(pool, Votes) /\ pool.addresses = InitSet /\ pool.votes = {} /\ pool.byIndex = {}
        /\ pool.evidence = {} /\ pool.finalized = 0 /\ certs = {}
    BY <2>1, NewPoolFields DEF PoolInit
  <2>3. QED
    BY <2>1, <2>2 DEF PInv, PoolTypeOK, EachIndexCountedOnce, OldVotesDropped,
                      CertificateIsAQuorum, EvidenceIsGenuine
<1>2. QED
  BY <1>1, PoolStep, PTL DEF PoolSpec

\* Certificate (consensus/finality.go:203): a certificate names a quorum of the set
\* it was built for, each of whom signed for its block, however the sets moved.
THEOREM CertificatesAreQuorums == PoolSpec => []CertificateIsAQuorum
<1>1. PInv => CertificateIsAQuorum
  BY DEF PInv
<1>2. QED
  BY <1>1, PoolInvariant, PTL

\* Add and AddEvidence (consensus/finality.go:127, :299): nobody is accused who did
\* not sign both votes, although votes are recorded before they are verified.
THEOREM EvidenceAlwaysGenuine == PoolSpec => []EvidenceIsGenuine
<1>1. PInv => EvidenceIsGenuine
  BY DEF PInv
<1>2. QED
  BY <1>1, PoolInvariant, PTL

\* Add, evictInvalidLocked and MarkFinalized: at one height an index counts once, the
\* two maps stay together, and old votes go.
THEOREM IndexCountsOnce == PoolSpec => [](EachIndexCountedOnce /\ OldVotesDropped)
<1>1. PInv => EachIndexCountedOnce /\ OldVotesDropped
  BY DEF PInv
<1>2. QED
  BY <1>1, PoolInvariant, PTL

\* evictInvalidLocked and MarkFinalized (consensus/finality.go:231, :264): a vote that
\* verifies is lost only when its height leaves the retained history.
THEOREM VotesAreLostForCause == PoolSpec => VotesLostOnlyForCause
<1>1. PInv /\ [PoolNext]_poolVars =>
        [\A a \in pool.votes \ pool.votes' :
            ~Verifies(pool, a) \/ a.number + Retain < pool'.finalized]_poolVars
  BY PoolStep DEF LostForCause
<1>2. QED
  BY <1>1, PoolInvariant, PTL DEF PoolSpec, VotesLostOnlyForCause

-----------------------------------------------------------------------------
(* Counting votes.                                                         *)

\* Votes are never withdrawn, so what is settled keeps its quorum.
CountInv ==
    /\ CountTypeOK
    /\ \A c \in settled : Cardinality(Supporters(c)) >= Threshold

\* Every step keeps CountInv.
LEMMA CountInvStep == CountInv /\ [CountNext]_vcvars => CountInv'
<1> SUFFICES ASSUME CountInv, [CountNext]_vcvars PROVE CountInv'
  OBVIOUS
<1>1. CASE UNCHANGED vcvars
  BY <1>1 DEF CountInv, CountTypeOK, Supporters, vcvars
<1>2. CASE CountNext
  <2>1. ballots \subseteq ballots' /\ ballots' \subseteq Voters \X Choices
    BY <1>2 DEF CountNext, Cast, CountInv, CountTypeOK
  <2>2. ASSUME NEW c \in settled PROVE Cardinality(Supporters(c)') >= Threshold
    <3>1. Supporters(c) \subseteq Supporters(c)' /\ Supporters(c)' \subseteq Voters
      BY <2>1 DEF Supporters
    <3>2. IsFiniteSet(Supporters(c)') /\ IsFiniteSet(Voters)
      BY <3>1, VotersAssumption, FS_Subset
    <3>3. Cardinality(Supporters(c)) <= Cardinality(Supporters(c)')
          /\ Cardinality(Supporters(c)) \in Nat /\ Cardinality(Supporters(c)') \in Nat
          /\ Cardinality(Voters) \in Nat
      BY <3>1, <3>2, FS_Subset, FS_CardinalityType
    <3>4. QED
      BY <3>3 DEF CountInv, Threshold
  <2>3. \A c \in settled' : Cardinality(Supporters(c)') >= Threshold
    BY <1>2, <2>2 DEF CountNext, Count
  <2>4. settled' \subseteq Choices
    BY <1>2 DEF CountNext, Count
  <2>5. QED
    BY <2>1, <2>3, <2>4 DEF CountInv, CountTypeOK
<1>3. QED
  BY <1>1, <1>2

\* CountInv holds in every reachable state.
THEOREM VoteCountingInvariant == CountSpec => []CountInv
<1>1. CountInit => CountInv
  BY DEF CountInit, CountInv, CountTypeOK
<1>2. QED
  BY <1>1, CountInvStep, PTL DEF CountSpec

\* Quorum (core/attestation.go:101): two certified blocks of one height have
\* more than a third of the set among their common voters, for any size of it.
THEOREM ConflictsNameAThird == CountSpec => []ConflictsAreAccountable
<1>1. CountInv => ConflictsAreAccountable
  <2> SUFFICES ASSUME CountInv PROVE ConflictsAreAccountable
    OBVIOUS
  <2>1. \A c \in settled : Supporters(c) \in SUBSET Voters
    BY DEF Supporters
  <2>2. QED
    BY <2>1, VotersAssumption, QuorumsIntersect, Zenon DEF CountInv, Threshold, Supporters, ConflictsAreAccountable
<1>2. QED
  BY <1>1, VoteCountingInvariant, PTL

-----------------------------------------------------------------------------
(* Ancestors: the only facts about sequences the rest of the proof uses.    *)

\* A block has an ancestor at each height up to its own, and it is a block.
LEMMA AncestorType ==
    ASSUME NEW b \in Blocks, NEW n \in 0..Height(b)
    PROVE  Ancestor(b, n) \in Blocks /\ Height(Ancestor(b, n)) = n /\ Height(b) \in Nat
<1>1. b \in Seq(Label) /\ Ancestor(b, n) \in Blocks
  BY ConstantsAssumption
<1>2. QED
  BY <1>1 DEF Ancestor, Height

\* An ancestor of an ancestor is an ancestor.
LEMMA AncestorOfAncestor ==
    ASSUME NEW b \in Blocks, NEW n \in 0..Height(b), NEW m \in 0..n
    PROVE  Ancestor(Ancestor(b, n), m) = Ancestor(b, m)
<1>1. b \in Seq(Label) /\ n \in 0..Len(b) /\ m \in 0..n
  BY ConstantsAssumption DEF Height
<1>2. QED
  BY <1>1 DEF Ancestor

\* Every block is its own highest ancestor, and genesis is everyone's lowest.
LEMMA AncestorEnds ==
    ASSUME NEW b \in Blocks
    PROVE  Ancestor(b, Height(b)) = b /\ Ancestor(b, 0) = Genesis
<1>1. b \in Seq(Label)
  BY ConstantsAssumption
<1>2. QED
  BY <1>1 DEF Ancestor, Height, Genesis

\* Heights are within the bound, and only genesis has height zero.
LEMMA HeightFacts ==
    ASSUME NEW b \in Blocks
    PROVE  Height(b) \in Heights /\ Height(b) \in Nat /\ (Height(b) = 0 <=> b = Genesis)
<1>1. b \in Seq(Label) /\ Height(b) <= MaxHeight /\ MaxHeight \in Nat
  BY ConstantsAssumption
<1>2. QED
  BY <1>1 DEF Height, Heights, Genesis
-----------------------------------------------------------------------------
(* The inductive invariant.  "base" is where the node's history starts:     *)
(* genesis, or the snapshot it imported.  Below base nothing need be        *)
(* stored; above it every branch is stored without gaps.                    *)

RootedAt(base) ==
    /\ base \in stored
    /\ current \in stored
    /\ OnBranch(base, current)
    /\ finalized = None => base = Genesis
    /\ finalized # None => OnBranch(base, finalized)
    /\ \A b \in stored : \A n \in 0..Height(b) :
          (OnBranch(base, b) => n >= Height(base)) => Ancestor(b, n) \in stored

FloorBelowHead == finalized # None => Height(finalized) <= Height(current)

FreshAtGenesis ==
    Height(current) = 0 => stored = {Genesis} /\ finalized = None

IInv ==
    /\ TypeOK
    /\ CanonicalIndexMatchesHead
    /\ LookupsMatchCanonical
    /\ FloorBelowHead
    /\ FreshAtGenesis
    /\ Genesis \in stored
    /\ \E base \in stored : RootedAt(base)
-----------------------------------------------------------------------------
(* Branches.                                                                *)

\* A block on the branch of a block on the branch of c is on the branch of c.
LEMMA OnBranchTrans ==
    ASSUME NEW a \in Blocks, NEW b \in Blocks, NEW c \in Blocks,
           OnBranch(a, b), OnBranch(b, c)
    PROVE  OnBranch(a, c)
<1>1. Height(a) \in Nat /\ Height(b) \in Nat /\ Height(c) \in Nat
  BY HeightFacts
<1>2. Height(a) \in 0..Height(b) /\ Height(b) \in 0..Height(c)
  BY <1>1 DEF OnBranch
<1>3. Ancestor(Ancestor(c, Height(b)), Height(a)) = Ancestor(c, Height(a))
  BY <1>2, AncestorOfAncestor
<1>4. Height(a) <= Height(c)
  BY <1>1, <1>2
<1>5. Ancestor(c, Height(a)) = a
  BY <1>3, Zenon DEF OnBranch
<1>6. QED
  BY <1>4, <1>5 DEF OnBranch

\* Genesis is on every branch.
LEMMA GenesisOnBranch ==
    ASSUME NEW b \in Blocks
    PROVE  OnBranch(Genesis, b)
<1>1. Height(Genesis) = 0 /\ Height(b) \in Nat
  BY HeightFacts, ConstantsAssumption
<1>2. QED
  BY <1>1, AncestorEnds DEF OnBranch

\* What isDescendantLocked accepts is a branch.
LEMMA DescendsIsBranch ==
    ASSUME NEW a \in Blocks, NEW b \in Blocks, NEW known, DescendsFrom(b, a, known)
    PROVE  OnBranch(a, b)
BY DEF DescendsFrom, OnBranch

\* Two blocks on the branch of base differ only above base.
LEMMA BeyondAboveBase ==
    ASSUME NEW base \in Blocks, NEW x \in Blocks, NEW y \in Blocks,
           OnBranch(base, x), OnBranch(base, y), NEW n \in Beyond(x, y)
    PROVE  n \in 1..Height(x) /\ n - 1 \in Height(base)..Height(x)
<1>1. /\ Height(base) \in Nat /\ Height(x) \in Nat /\ Height(y) \in Nat
      /\ n \in 1..Height(x) /\ Height(base) <= Height(x) /\ Height(base) <= Height(y)
  BY HeightFacts DEF Beyond, OnBranch
<1>2. ASSUME n <= Height(base) PROVE FALSE
  <2>1. Ancestor(x, n) = Ancestor(base, n) /\ Ancestor(y, n) = Ancestor(base, n)
    BY <1>1, <1>2, AncestorOfAncestor DEF OnBranch
  <2>2. QED
    BY <1>1, <1>2, <2>1 DEF Beyond
<1>3. QED
  BY <1>1, <1>2

\* Neither walk of reorgTo meets a missing parent between two blocks whose
\* ancestors down to a common base are stored.
LEMMA CanReorgAboveBase ==
    ASSUME NEW base \in Blocks, NEW x \in Blocks, NEW y \in Blocks, NEW known,
           OnBranch(base, x), OnBranch(base, y),
           \A n \in Height(base)..(Height(x) - 1) : Ancestor(x, n) \in known,
           \A n \in Height(base)..(Height(y) - 1) : Ancestor(y, n) \in known
    PROVE  CanReorg(x, y, known)
<1>1. /\ Height(base) \in Nat /\ Height(x) \in Nat /\ Height(y) \in Nat
  BY HeightFacts
<1>2. ASSUME NEW n \in Beyond(x, y) PROVE Ancestor(x, n - 1) \in known
  BY <1>1, BeyondAboveBase
<1>3. ASSUME NEW n \in Beyond(y, x) PROVE Ancestor(y, n - 1) \in known
  BY <1>1, BeyondAboveBase
<1>4. QED
  BY <1>2, <1>3 DEF CanReorg
-----------------------------------------------------------------------------
(* reorgTo.                                                                 *)

\* The canonical index after a reorganisation is the new head's branch.
LEMMA ReorgCanon ==
    ASSUME TypeOK, CanonicalIndexMatchesHead, NEW b \in Blocks,
           canon' = CanonAfter(current, b), NEW n \in Heights
    PROVE  /\ canon'[n] \in BlockOrNone
           /\ canon'[n] # None => n <= Height(b) /\ canon'[n] = Ancestor(b, n)
           /\ canon'[n] = None /\ n <= Height(b) => canon[n] = None /\ n <= Height(current)
<1>1. /\ current \in Blocks /\ Height(b) \in Nat /\ Height(current) \in Nat
      /\ n \in Nat /\ None \notin Blocks
  BY HeightFacts, ConstantsAssumption DEF TypeOK, Heights
<1>2. CASE n \in Beyond(b, current)
  <2>1. canon'[n] = Ancestor(b, n) /\ n \in 0..Height(b)
    BY <1>1, <1>2 DEF CanonAfter, Beyond
  <2>2. QED
    BY <1>1, <2>1, AncestorType DEF BlockOrNone
<1>3. CASE n \notin Beyond(b, current) /\ n \in Beyond(current, b)
  <2>1. canon'[n] = None
    BY <1>3 DEF CanonAfter
  <2>2. n > Height(b)
    BY <1>1, <1>3 DEF Beyond
  <2>3. QED
    BY <1>1, <2>1, <2>2 DEF BlockOrNone
<1>4. CASE n \notin Beyond(b, current) /\ n \notin Beyond(current, b)
  <2>1. canon'[n] = canon[n] /\ canon[n] \in BlockOrNone
    BY <1>4 DEF CanonAfter, TypeOK
  <2>2. n = 0 \/ (n > Height(b) /\ n > Height(current))
              \/ (n <= Height(b) /\ n <= Height(current) /\ Ancestor(b, n) = Ancestor(current, n))
    BY <1>1, <1>4 DEF Beyond
  <2>3. n = 0 => Ancestor(b, n) = Ancestor(current, n)
    BY <1>1, AncestorEnds
  <2>4. canon[n] # None => n <= Height(current) /\ canon[n] = Ancestor(current, n)
    BY DEF CanonicalIndexMatchesHead
  <2>5. QED
    BY <1>1, <2>1, <2>2, <2>3, <2>4
<1>5. QED
  BY <1>2, <1>3, <1>4

\* The transaction index after a reorganisation matches the new canonical index.
LEMMA ReorgLookups ==
    ASSUME TypeOK, CanonicalIndexMatchesHead, LookupsMatchCanonical, NEW b \in Blocks,
           canon' = CanonAfter(current, b), lookups' = LookupsAfter(current, b)
    PROVE  LookupsMatchCanonical' /\ lookups' \in [Txs -> BlockOrNone]
<1> DEFINE joining(t) == {n \in Beyond(b, current) : t \in TxsOf[Ancestor(b, n)]}
           leaving(t) == {n \in Beyond(current, b) : t \in TxsOf[Ancestor(current, n)]}
<1>1. /\ current \in Blocks /\ Height(b) \in Nat /\ Height(current) \in Nat
      /\ None \notin Blocks
  BY HeightFacts, ConstantsAssumption DEF TypeOK
<1>2. ASSUME NEW n \in Beyond(b, current)
      PROVE  n \in 0..Height(b) /\ n \in Heights /\ canon'[n] = Ancestor(b, n)
             /\ Ancestor(b, n) \in Blocks /\ Height(Ancestor(b, n)) = n
  <2>1. n \in 0..Height(b) /\ Height(b) <= MaxHeight /\ MaxHeight \in Nat
    BY <1>1, ConstantsAssumption DEF Beyond
  <2>2. n \in Heights
    BY <1>1, <2>1 DEF Heights
  <2>3. QED
    BY <2>1, <2>2, AncestorType DEF CanonAfter
<1>3. ASSUME NEW t \in Txs, NEW m \in Heights, canon'[m] # None, t \in TxsOf[canon'[m]],
             NEW n \in joining(t)
      PROVE  m = n
  <2>1. m \in 0..Height(b) /\ canon'[m] = Ancestor(b, m)
    BY <1>1, <1>3, ReorgCanon DEF Heights
  <2>2. n \in 0..Height(b) /\ t \in TxsOf[Ancestor(b, n)]
    BY <1>2
  <2>3. QED
    BY <1>3, <2>1, <2>2, NonceAssumption
<1>4. ASSUME NEW t \in Txs, joining(t) # {}
      PROVE  \E n \in joining(t) : lookups'[t] = Ancestor(b, n)
  <2>1. ASSUME NEW m \in joining(t), NEW n \in joining(t) PROVE m = n
    BY <1>2, NonceAssumption
  <2>2. PICK n \in joining(t) : TRUE
    BY <1>4
  <2>3. \A m \in joining(t) : m <= n
    <3>1. n <= n
      BY <1>2
    <3>2. QED
      BY <2>1, <3>1
  <2>4. (CHOOSE k \in joining(t) : \A m \in joining(t) : m <= k) \in joining(t)
    BY <2>2, <2>3
  <2>5. QED
    BY <1>4, <2>4 DEF LookupsAfter
<1>5. ASSUME NEW t \in Txs, joining(t) = {}, NEW m \in Heights,
             canon'[m] # None, t \in TxsOf[canon'[m]]
      PROVE  /\ canon'[m] = canon[m] /\ m \notin Beyond(current, b)
             /\ m \in 0..Height(current) /\ canon[m] = Ancestor(current, m)
  <2>1. canon'[m] = Ancestor(b, m) /\ m \notin Beyond(b, current)
    BY <1>5, ReorgCanon
  <2>2. canon'[m] = canon[m] /\ m \notin Beyond(current, b)
    BY <1>5, <2>1 DEF CanonAfter
  <2>3. QED
    BY <1>1, <1>5, <2>2 DEF CanonicalIndexMatchesHead, Heights
<1>6. ASSUME NEW t \in Txs, joining(t) = {}, leaving(t) # {}
      PROVE  lookups'[t] = None /\ \A m \in Heights : ~(canon'[m] # None /\ t \in TxsOf[canon'[m]])
  <2>1. lookups'[t] = None
    BY <1>6 DEF LookupsAfter
  <2>2. ASSUME NEW m \in Heights, canon'[m] # None, t \in TxsOf[canon'[m]] PROVE FALSE
    <3>1. m \notin Beyond(current, b) /\ m \in 0..Height(current)
          /\ t \in TxsOf[Ancestor(current, m)]
      BY <1>5, <1>6, <2>2
    <3>2. PICK n \in leaving(t) : TRUE
      BY <1>6
    <3>3. n \in 0..Height(current) /\ t \in TxsOf[Ancestor(current, n)] /\ n \in Beyond(current, b)
      BY <1>1, <3>2 DEF Beyond
    <3>4. QED
      BY <1>1, <3>1, <3>3, NonceAssumption
  <2>3. QED
    BY <2>1, <2>2
<1>7. ASSUME NEW t \in Txs, joining(t) = {}, leaving(t) = {}
      PROVE  /\ lookups'[t] = lookups[t]
             /\ lookups[t] # None => canon'[Height(lookups[t])] = lookups[t]
  <2>1. lookups'[t] = lookups[t]
    BY <1>7 DEF LookupsAfter
  <2>2. ASSUME lookups[t] # None PROVE canon'[Height(lookups[t])] = lookups[t]
    <3> DEFINE h == Height(lookups[t])
    <3>1. lookups[t] \in Blocks /\ h \in Heights /\ h \in Nat
      BY <2>2, HeightFacts DEF TypeOK, BlockOrNone
    <3>2. canon[h] = lookups[t] /\ t \in TxsOf[lookups[t]]
      BY <2>2 DEF LookupsMatchCanonical
    <3>3. h <= Height(current) /\ canon[h] = Ancestor(current, h)
      BY <1>1, <3>1, <3>2 DEF CanonicalIndexMatchesHead
    <3>4. h \notin Beyond(current, b)
      BY <1>7, <3>2, <3>3
    <3>5. h \notin Beyond(b, current)
      BY <1>1, <3>1, <3>3, <3>4 DEF Beyond
    <3>6. QED
      BY <3>1, <3>2, <3>4, <3>5 DEF CanonAfter
  <2>3. QED
    BY <2>1, <2>2
<1>8. ASSUME NEW t \in Txs
      PROVE  /\ lookups'[t] \in BlockOrNone
             /\ lookups'[t] # None =>
                   t \in TxsOf[lookups'[t]] /\ canon'[Height(lookups'[t])] = lookups'[t]
             /\ \A n \in Heights : canon'[n] # None /\ t \in TxsOf[canon'[n]]
                                     => lookups'[t] = canon'[n]
  <2>1. CASE joining(t) # {}
    BY <1>1, <1>2, <1>3, <1>4, <2>1 DEF BlockOrNone
  <2>2. CASE joining(t) = {} /\ leaving(t) # {}
    BY <1>6, <2>2 DEF BlockOrNone
  <2>3. CASE joining(t) = {} /\ leaving(t) = {}
    BY <1>5, <1>7, <2>3 DEF LookupsMatchCanonical, TypeOK
  <2>4. QED
    BY <2>1, <2>2, <2>3
<1>9. lookups' = [t \in Txs |-> lookups'[t]]
  BY DEF LookupsAfter
<1>10. QED
  BY <1>8, <1>9 DEF LookupsMatchCanonical
-----------------------------------------------------------------------------
(* One lemma per action.                                                    *)

\* The floor moves, if it moves, to a higher block of its own branch.
LEMMA FinalizeLockedFacts ==
    ASSUME NEW fin \in BlockOrNone, NEW qc \in BlockOrNone, NEW known
    PROVE  /\ FinalizeLocked(fin, qc, known) \in {fin, qc}
           /\ FinalizeLocked(fin, qc, known) = None => fin = None
           /\ FinalizeLocked(fin, qc, known) # fin =>
                 /\ FinalizeLocked(fin, qc, known) = qc /\ qc \in Blocks
                 /\ fin # None => OnBranch(fin, qc)
BY DescendsIsBranch DEF FinalizeLocked, BlockOrNone

\* A block that passes the floor check and is higher than the head shares the
\* node's base, and the reorganisation to it cannot fail.
LEMMA InsertReorgs ==
    ASSUME TypeOK, FloorBelowHead, NEW base \in stored, RootedAt(base),
           NEW b \in Blocks, Executable(b), Height(b) > Height(current)
    PROVE  OnBranch(base, b) /\ CanReorg(current, b, stored \cup {b})
<1>1. /\ current \in Blocks /\ base \in Blocks /\ Height(b) \in Nat /\ Height(current) \in Nat
      /\ Height(base) \in Nat /\ Parent(b) \in stored
  BY HeightFacts DEF TypeOK, Executable
<1>2. OnBranch(base, b)
  <2>1. CASE finalized = None
    BY <2>1, GenesisOnBranch DEF RootedAt
  <2>2. CASE finalized # None
    <3>1. finalized \in Blocks /\ Height(finalized) \in Nat /\ Height(finalized) <= Height(current)
      BY <2>2, HeightFacts DEF TypeOK, BlockOrNone, FloorBelowHead
    <3>2. OnBranch(finalized, b)
      BY <1>1, <2>2, <3>1, DescendsIsBranch DEF Executable, CheckFinality
    <3>3. QED
      BY <1>1, <2>2, <3>1, <3>2, OnBranchTrans DEF RootedAt
  <2>3. QED
    BY <2>1, <2>2
<1>3. ASSUME NEW n \in Height(base)..(Height(b) - 1) PROVE Ancestor(b, n) \in stored
  <2>1. Height(b) - 1 \in 0..Height(b) /\ n \in 0..(Height(b) - 1)
    BY <1>1
  <2>2. Height(Parent(b)) = Height(b) - 1 /\ Ancestor(Parent(b), n) = Ancestor(b, n)
    BY <2>1, AncestorType, AncestorOfAncestor DEF Parent
  <2>3. QED
    BY <1>1, <2>1, <2>2 DEF RootedAt
<1>4. ASSUME NEW n \in Height(base)..(Height(current) - 1) PROVE Ancestor(current, n) \in stored
  <2>1. Height(current) - 1 \in Nat /\ n \in 0..Height(current)
    BY <1>1
  <2>2. QED
    BY <1>1, <2>1 DEF RootedAt
<1>5. QED
  BY <1>1, <1>2, <1>3, <1>4, CanReorgAboveBase DEF RootedAt
\* Storing a block whose parent is stored leaves no gap above the base.
LEMMA StoreKeepsRooted ==
    ASSUME TypeOK, NEW base \in stored, RootedAt(base),
           NEW b \in Blocks, Executable(b), NEW c \in stored \cup {b},
           NEW n \in 0..Height(c), OnBranch(base, c) => n >= Height(base)
    PROVE  Ancestor(c, n) \in stored \cup {b}
<1>1. /\ base \in Blocks /\ Height(b) \in Nat /\ Height(base) \in Nat /\ b # base /\ b # Genesis
      /\ Parent(b) \in stored /\ Parent(b) \in Blocks
  BY HeightFacts DEF TypeOK, Executable
<1>2. CASE c \in stored
  BY <1>2 DEF RootedAt
<1>3. CASE c = b /\ n = Height(b)
  BY <1>3, AncestorEnds
<1>4. CASE c = b /\ n # Height(b)
  <2>1. Height(b) - 1 \in 0..Height(b) /\ n \in 0..(Height(b) - 1)
    BY <1>1, <1>4, HeightFacts
  <2>2. Height(Parent(b)) = Height(b) - 1 /\ Ancestor(Parent(b), n) = Ancestor(b, n)
    BY <2>1, AncestorType, AncestorOfAncestor DEF Parent
  <2>3. OnBranch(Parent(b), b)
    BY <1>1, <2>1, <2>2 DEF OnBranch, Parent
  <2>4. OnBranch(base, Parent(b)) => OnBranch(base, b)
    BY <1>1, <2>3, OnBranchTrans
  <2>5. Ancestor(Parent(b), n) \in stored
    BY <1>1, <1>4, <2>1, <2>2, <2>4 DEF RootedAt
  <2>6. QED
    BY <1>4, <2>2, <2>5
<1>5. QED
  BY <1>2, <1>3, <1>4

\* InsertBlock preserves the invariant: with a higher block the head moves,
\* otherwise only the store and the floor change.
LEMMA InsertPreserves ==
    ASSUME IInv, NEW b \in Blocks, InsertBlock(b)
    PROVE  IInv'
<1> DEFINE fin == FinalizeLocked(finalized, Justification[b], stored \cup {b})
<1>1. PICK base \in stored : RootedAt(base)
  BY DEF IInv
<1>2. /\ TypeOK /\ CanonicalIndexMatchesHead /\ LookupsMatchCanonical
      /\ FloorBelowHead /\ FreshAtGenesis /\ Genesis \in stored
      /\ Executable(b)
  BY DEF IInv, InsertBlock
<1>3. /\ current \in Blocks /\ base \in Blocks /\ finalized \in BlockOrNone
      /\ Height(b) \in Nat /\ Height(b) # 0 /\ Height(current) \in Nat /\ Height(base) \in Nat
      /\ stored' = stored \cup {b} /\ states' = states \cup {b} /\ finalized' = fin
      /\ None \notin Blocks
  BY <1>2, HeightFacts, ConstantsAssumption DEF TypeOK, InsertBlock, Executable, BlockOrNone
<1>4. /\ fin \in BlockOrNone
      /\ fin = None => finalized = None
      /\ fin # finalized => fin \in Blocks /\ Height(fin) < Height(b)
                            /\ (finalized # None => OnBranch(finalized, fin))
  <2>1. Justification[b] \in BlockOrNone
    BY ConstantsAssumption DEF BlockOrNone
  <2>2. Justification[b] # None => Height(Justification[b]) < Height(b)
    BY <1>2 DEF Executable, VerifyBlock
  <2>3. QED
    BY <1>3, <2>1, <2>2, FinalizeLockedFacts DEF BlockOrNone
<1> fin \in stored \cup {b, None}
  BY <1>2 DEF FinalizeLocked, TypeOK
<1>5. fin # None => OnBranch(base, fin)
  <2>1. CASE fin = finalized
    BY <1>1, <2>1 DEF RootedAt
  <2>2. CASE fin # finalized /\ finalized = None
    BY <1>1, <1>4, <2>2, GenesisOnBranch DEF RootedAt
  <2>3. CASE fin # finalized /\ finalized # None
    <3>1. finalized \in Blocks /\ OnBranch(base, finalized)
      BY <1>1, <1>3, <2>3 DEF RootedAt, BlockOrNone
    <3>2. QED
      BY <1>3, <1>4, <2>3, <3>1, OnBranchTrans
  <2>4. QED
    BY <2>1, <2>2, <2>3
<1>6. finalized # None => fin # None /\ Height(finalized) <= Height(fin)
  <2>1. ASSUME finalized # None PROVE Height(finalized) \in Nat
    BY <1>3, <2>1, HeightFacts DEF BlockOrNone
  <2>2. QED
    BY <1>4, <2>1 DEF OnBranch
<1>7. CASE Height(b) > Height(current)
  <2>1. OnBranch(base, b) /\ CanReorg(current, b, stored \cup {b})
    BY <1>1, <1>2, <1>7, InsertReorgs
  <2>2. canon' = CanonAfter(current, b) /\ lookups' = LookupsAfter(current, b) /\ current' = b
    BY <1>7, <2>1 DEF InsertBlock, ReorgTo
  <2>3. LookupsMatchCanonical' /\ lookups' \in [Txs -> BlockOrNone]
    BY <1>2, <2>2, ReorgLookups
  <2>4. canon' \in [Heights -> BlockOrNone]
    <3>1. canon' = [n \in Heights |-> canon'[n]]
      BY <2>2 DEF CanonAfter
    <3>2. \A n \in Heights : canon'[n] \in BlockOrNone
      BY <1>2, <2>2, ReorgCanon
    <3>3. QED
      BY <3>1, <3>2
  <2>5. ASSUME NEW n \in Heights
        PROVE  /\ canon'[n] # None => n <= Height(b) /\ canon'[n] = Ancestor(b, n)
               /\ canon'[n] = None /\ n <= Height(b) => fin # None /\ n < Height(fin)
    <3>1. n \in Nat
      BY DEF Heights
    <3>2. canon[n] = None /\ n <= Height(current) => finalized # None /\ n < Height(finalized)
      BY <1>2 DEF CanonicalIndexMatchesHead
    <3>3. finalized # None => Height(finalized) \in Nat /\ Height(fin) \in Nat
      BY <1>3, <1>4, <1>6, HeightFacts DEF BlockOrNone
    <3>4. canon[n] = None /\ n <= Height(current) => fin # None /\ n < Height(fin)
      BY <1>6, <3>1, <3>2, <3>3
    <3>5. QED
      BY <1>2, <2>2, <3>4, ReorgCanon
  <2>6. CanonicalIndexMatchesHead'
    BY <1>3, <2>2, <2>5 DEF CanonicalIndexMatchesHead
  <2>7. TypeOK'
    BY <1>2, <1>3, <1>4, <2>2, <2>3, <2>4 DEF TypeOK
  <2>8. fin # None => Height(fin) <= Height(b)
    <3>1. ASSUME fin # None PROVE Height(fin) \in Nat
      BY <1>4, <3>1, HeightFacts DEF BlockOrNone
    <3>2. QED
      BY <1>2, <1>3, <1>4, <1>7, <3>1 DEF FloorBelowHead
  <2>9. FloorBelowHead' /\ FreshAtGenesis'
    BY <1>3, <2>2, <2>8 DEF FloorBelowHead, FreshAtGenesis
  <2>10. RootedAt(base)'
    BY <1>1, <1>2, <1>3, <1>4, <1>5, <2>1, <2>2, StoreKeepsRooted DEF RootedAt
  <2>11. QED
    BY <1>2, <1>3, <2>3, <2>6, <2>7, <2>9, <2>10 DEF IInv
<1>8. CASE ~(Height(b) > Height(current))
  <2>1. canon' = canon /\ lookups' = lookups /\ current' = current
    BY <1>8 DEF InsertBlock
  <2>2. TypeOK'
    BY <1>2, <1>3, <1>4, <2>1 DEF TypeOK
  <2>3. LookupsMatchCanonical'
    BY <1>2, <2>1, Zenon DEF LookupsMatchCanonical
  <2>4. CanonicalIndexMatchesHead'
    <3>1. ASSUME NEW n \in Heights, canon[n] = None, n <= Height(current)
          PROVE  fin # None /\ n < Height(fin)
      <4>1. n \in Nat /\ finalized # None /\ n < Height(finalized)
        BY <1>2, <3>1 DEF CanonicalIndexMatchesHead, Heights
      <4>2. Height(finalized) \in Nat /\ Height(fin) \in Nat
        BY <1>3, <1>4, <1>6, <4>1, HeightFacts DEF BlockOrNone
      <4>3. QED
        BY <1>6, <4>1, <4>2
    <3>2. QED
      BY <1>2, <1>3, <2>1, <3>1 DEF CanonicalIndexMatchesHead
  <2>5. fin # None => Height(fin) <= Height(current)
    <3>1. ASSUME fin # None PROVE Height(fin) \in Nat
      BY <1>4, <3>1, HeightFacts DEF BlockOrNone
    <3>2. QED
      BY <1>2, <1>3, <1>4, <1>8, <3>1 DEF FloorBelowHead
  <2>6. FloorBelowHead' /\ FreshAtGenesis'
    BY <1>3, <1>8, <2>1, <2>5 DEF FloorBelowHead, FreshAtGenesis
  <2>7. RootedAt(base)'
    BY <1>1, <1>2, <1>3, <1>4, <1>5, <2>1, StoreKeepsRooted DEF RootedAt
  <2>8. QED
    BY <1>2, <1>3, <2>2, <2>3, <2>4, <2>6, <2>7 DEF IInv
<1>9. QED
  BY <1>7, <1>8
\* Finalize preserves the invariant: the head moves to the finalized block, or
\* stays above it.
LEMMA FinalizePreserves ==
    ASSUME IInv, NEW b \in Blocks, Finalize(b)
    PROVE  IInv'
<1>1. PICK base \in stored : RootedAt(base)
  BY DEF IInv
<1>2. /\ TypeOK /\ CanonicalIndexMatchesHead /\ LookupsMatchCanonical
      /\ FloorBelowHead /\ FreshAtGenesis /\ Genesis \in stored
  BY DEF IInv
<1>3. /\ current \in Blocks /\ base \in Blocks /\ b \in stored
      /\ Height(b) \in Nat /\ Height(b) # 0 /\ Height(current) \in Nat /\ Height(b) \in Heights
      /\ stored' = stored /\ states' = states /\ finalized' = b
      /\ None \notin Blocks /\ b # None
  BY <1>2, HeightFacts, ConstantsAssumption DEF TypeOK, Finalize
<1>4. finalized # None => finalized \in Blocks /\ Height(finalized) \in Nat
                          /\ Height(finalized) < Height(b) /\ OnBranch(finalized, b)
  <2>1. ASSUME finalized # None PROVE finalized \in Blocks /\ Height(finalized) \in Nat
    BY <1>2, <2>1, HeightFacts DEF TypeOK, BlockOrNone
  <2>2. QED
    BY <1>3, <2>1, DescendsIsBranch DEF Finalize
<1>5. OnBranch(base, b)
  <2>1. CASE finalized = None
    BY <1>1, <2>1, GenesisOnBranch DEF RootedAt
  <2>2. CASE finalized # None
    BY <1>1, <1>3, <1>4, <2>2, OnBranchTrans DEF RootedAt
  <2>3. QED
    BY <2>1, <2>2
<1>6. ASSUME NEW n \in Heights, canon[n] = None, n <= Height(current)
      PROVE  n < Height(b)
  <2>1. n \in Nat /\ finalized # None /\ n < Height(finalized)
    BY <1>2, <1>6 DEF CanonicalIndexMatchesHead, Heights
  <2>2. QED
    BY <1>3, <1>4, <2>1
<1>7. CASE canon[Height(b)] # b
  <2>1. canon' = CanonAfter(current, b) /\ lookups' = LookupsAfter(current, b) /\ current' = b
    BY <1>7 DEF Finalize, ReorgTo
  <2>2. LookupsMatchCanonical' /\ lookups' \in [Txs -> BlockOrNone]
    BY <1>2, <2>1, ReorgLookups
  <2>3. canon' \in [Heights -> BlockOrNone]
    <3>1. canon' = [n \in Heights |-> canon'[n]]
      BY <2>1 DEF CanonAfter
    <3>2. \A n \in Heights : canon'[n] \in BlockOrNone
      BY <1>2, <2>1, ReorgCanon
    <3>3. QED
      BY <3>1, <3>2
  <2>4. CanonicalIndexMatchesHead'
    BY <1>2, <1>3, <1>6, <2>1, ReorgCanon, Zenon DEF CanonicalIndexMatchesHead
  <2>5. TypeOK'
    BY <1>2, <1>3, <2>1, <2>2, <2>3 DEF TypeOK, BlockOrNone
  <2>6. FloorBelowHead' /\ FreshAtGenesis'
    BY <1>3, <2>1 DEF FloorBelowHead, FreshAtGenesis
  <2>7. RootedAt(base)'
    BY <1>1, <1>3, <1>5, <2>1 DEF RootedAt
  <2>8. QED
    BY <1>2, <1>3, <2>2, <2>4, <2>5, <2>6, <2>7 DEF IInv
<1>8. CASE canon[Height(b)] = b
  <2>1. canon' = canon /\ lookups' = lookups /\ current' = current
    BY <1>8 DEF Finalize
  <2>2. Height(b) <= Height(current)
    BY <1>2, <1>3, <1>8 DEF CanonicalIndexMatchesHead
  <2>3. CanonicalIndexMatchesHead'
    BY <1>2, <1>3, <1>6, <2>1 DEF CanonicalIndexMatchesHead
  <2>4. TypeOK' /\ LookupsMatchCanonical'
    BY <1>2, <1>3, <2>1 DEF TypeOK, BlockOrNone, LookupsMatchCanonical
  <2>5. FloorBelowHead' /\ FreshAtGenesis'
    BY <1>3, <2>1, <2>2 DEF FloorBelowHead, FreshAtGenesis
  <2>6. RootedAt(base)'
    BY <1>1, <1>3, <1>5, <2>1 DEF RootedAt
  <2>7. QED
    BY <1>2, <1>3, <2>3, <2>4, <2>5, <2>6 DEF IInv
<1>9. QED
  BY <1>7, <1>8

\* ImportSnapshot preserves the invariant: the snapshot becomes the base.
LEMMA ImportPreserves ==
    ASSUME IInv, NEW b \in Blocks, ImportSnapshot(b)
    PROVE  IInv'
<1>1. /\ TypeOK /\ CanonicalIndexMatchesHead /\ LookupsMatchCanonical
      /\ stored = {Genesis} /\ current = Genesis /\ finalized = None
  BY HeightFacts DEF IInv, TypeOK, FreshAtGenesis, ImportSnapshot
<1>2. /\ Height(b) \in Nat /\ Height(b) # 0 /\ Height(b) \in Heights
      /\ b # None /\ b # Genesis /\ None \notin Blocks
      /\ Genesis \in Blocks /\ Height(Genesis) = 0
  BY HeightFacts, ConstantsAssumption DEF ImportSnapshot
<1>3. /\ stored' = {Genesis, b} /\ states' = states /\ current' = b /\ finalized' = b
      /\ canon' = [canon EXCEPT ![Height(b)] = b]
      /\ lookups' = [t \in Txs |-> IF t \in TxsOf[b] THEN b ELSE lookups[t]]
  BY <1>1 DEF ImportSnapshot
<1>4. \A n \in Heights : n # 0 => canon[n] = None
  BY <1>1, <1>2 DEF CanonicalIndexMatchesHead, Heights
<1>5. canon[0] = Genesis
  <2>1. 0 \in Heights
    BY <1>2, HeightFacts
  <2>2. QED
    BY <1>1, <1>2, <2>1, AncestorEnds DEF CanonicalIndexMatchesHead
<1>6. \A t \in Txs : lookups[t] = None
  <2>1. ASSUME NEW t \in Txs, lookups[t] # None PROVE FALSE
    <3>1. /\ lookups[t] \in Blocks /\ t \in TxsOf[lookups[t]]
          /\ canon[Height(lookups[t])] = lookups[t]
          /\ Height(lookups[t]) \in Heights
      BY <1>1, <2>1, HeightFacts DEF TypeOK, BlockOrNone, LookupsMatchCanonical
    <3>2. lookups[t] = Genesis
      BY <1>2, <1>4, <3>1, HeightFacts
    <3>3. QED
      BY <3>1, <3>2, NonceAssumption
  <2>2. QED
    BY <2>1
<1>7. TypeOK'
  BY <1>1, <1>2, <1>3 DEF TypeOK, BlockOrNone
<1>8. ASSUME NEW n \in Heights
      PROVE  /\ n = Height(b) => canon'[n] = b
             /\ n = 0 => canon'[n] = Genesis
             /\ n # 0 /\ n # Height(b) => canon'[n] = None
  BY <1>1, <1>2, <1>3, <1>4, <1>5 DEF TypeOK
<1>9. CanonicalIndexMatchesHead'
  <2>1. ASSUME NEW n \in Heights
        PROVE  /\ canon'[n] # None => n <= Height(b) /\ canon'[n] = Ancestor(b, n)
               /\ canon'[n] = None /\ n <= Height(b) => b # None /\ n < Height(b)
    <3>1. n \in Nat
      BY DEF Heights
    <3>2. Ancestor(b, 0) = Genesis /\ Ancestor(b, Height(b)) = b
      BY AncestorEnds
    <3>3. CASE n = 0
      BY <1>2, <1>8, <3>2, <3>3
    <3>4. CASE n = Height(b)
      BY <1>2, <1>8, <3>2, <3>4
    <3>5. CASE n # 0 /\ n # Height(b)
      BY <1>2, <1>8, <3>1, <3>5
    <3>6. QED
      BY <3>3, <3>4, <3>5
  <2>2. QED
    BY <1>3, <2>1 DEF CanonicalIndexMatchesHead
<1>10. LookupsMatchCanonical'
  <2>1. ASSUME NEW t \in Txs
        PROVE  /\ lookups'[t] # None =>
                     t \in TxsOf[lookups'[t]] /\ canon'[Height(lookups'[t])] = lookups'[t]
               /\ \A n \in Heights : canon'[n] # None /\ t \in TxsOf[canon'[n]]
                                       => lookups'[t] = canon'[n]
    <3>1. lookups'[t] = IF t \in TxsOf[b] THEN b ELSE None
      BY <1>3, <1>6
    <3>2. ASSUME NEW n \in Heights, canon'[n] # None, t \in TxsOf[canon'[n]]
          PROVE  canon'[n] = b
      BY <1>2, <1>8, <3>2, NonceAssumption
    <3>3. canon'[Height(b)] = b
      BY <1>2, <1>8
    <3>4. QED
      BY <1>2, <3>1, <3>2, <3>3
  <2>2. QED
    BY <2>1 DEF LookupsMatchCanonical
<1>11. RootedAt(b)'
  <2>1. OnBranch(b, b) /\ ~OnBranch(b, Genesis)
    BY <1>2, AncestorEnds DEF OnBranch
  <2>2. ASSUME NEW c \in {Genesis, b}, NEW n \in 0..Height(c),
               OnBranch(b, c) => n >= Height(b)
        PROVE  Ancestor(c, n) \in {Genesis, b}
    BY <1>2, <2>1, <2>2, AncestorEnds
  <2>3. QED
    BY <1>2, <1>3, <2>1, <2>2 DEF RootedAt
<1>12. FloorBelowHead' /\ FreshAtGenesis'
  BY <1>2, <1>3 DEF FloorBelowHead, FreshAtGenesis
<1>13. QED
  BY <1>3, <1>7, <1>9, <1>10, <1>11, <1>12 DEF IInv
-----------------------------------------------------------------------------
(* The theorems.                                                            *)

\* IInv holds initially and every step preserves it.
LEMMA InitInvariant == Init => IInv
<1> SUFFICES ASSUME Init PROVE IInv
  OBVIOUS
<1>1. /\ Genesis \in Blocks /\ Height(Genesis) = 0 /\ None \notin Blocks /\ None # Genesis
      /\ Ancestor(Genesis, 0) = Genesis
  BY ConstantsAssumption, HeightFacts, AncestorEnds
<1>2. TypeOK
  BY <1>1 DEF Init, TypeOK, BlockOrNone
<1>3. CanonicalIndexMatchesHead
  BY <1>1 DEF Init, CanonicalIndexMatchesHead, Heights
<1>4. LookupsMatchCanonical
  BY <1>1, NonceAssumption DEF Init, LookupsMatchCanonical
<1>5. RootedAt(Genesis)
  BY <1>1, GenesisOnBranch DEF Init, RootedAt
<1>6. QED
  BY <1>2, <1>3, <1>4, <1>5 DEF Init, IInv, FloorBelowHead, FreshAtGenesis

\* Every operation of the chain preserves IInv.
LEMMA NextInvariant == IInv /\ [Next]_vars => IInv'
<1> SUFFICES ASSUME IInv, [Next]_vars PROVE IInv'
  OBVIOUS
<1>1. ASSUME NEW b \in Blocks, InsertBlock(b) PROVE IInv'
  BY <1>1, InsertPreserves
<1>2. ASSUME NEW b \in Blocks, Finalize(b) PROVE IInv'
  BY <1>2, FinalizePreserves
<1>3. ASSUME NEW b \in Blocks, ImportSnapshot(b) PROVE IInv'
  BY <1>3, ImportPreserves
<1>4. ASSUME NEW b \in Blocks, StateSynced(b) PROVE IInv'
  <2>1. /\ stored' = stored /\ canon' = canon /\ lookups' = lookups /\ current' = current
        /\ finalized' = finalized /\ states' = states \cup {b}
    BY <1>4 DEF StateSynced
  <2>2. QED
    BY <2>1, Zenon DEF IInv, TypeOK, CanonicalIndexMatchesHead, LookupsMatchCanonical,
                FloorBelowHead, FreshAtGenesis, RootedAt
<1>5. CASE UNCHANGED vars
  BY <1>5, Zenon DEF vars, IInv, TypeOK, CanonicalIndexMatchesHead, LookupsMatchCanonical,
              FloorBelowHead, FreshAtGenesis, RootedAt
<1>6. QED
  BY <1>1, <1>2, <1>3, <1>4, <1>5 DEF Next

\* The inductive invariant holds in every reachable state.
THEOREM ChainInvariant == Spec => []IInv
BY InitInvariant, NextInvariant, PTL DEF Spec

\* The variables of the chain keep their types.
THEOREM ChainTypeOK == Spec => []TypeOK
<1>1. IInv => TypeOK
  BY DEF IInv
<1>2. QED
  BY <1>1, ChainInvariant, PTL

\* reorgTo, Finalize and ImportSnapshot keep the canonical index equal to the
\* branch of the head, whatever the tree and the order of calls.
THEOREM CanonicalIndexCorrect == Spec => []CanonicalIndexMatchesHead
<1>1. IInv => CanonicalIndexMatchesHead
  BY DEF IInv
<1>2. QED
  BY <1>1, ChainInvariant, PTL

\* The transaction index follows the canonical chain through every
\* reorganisation.
THEOREM LookupsCorrect == Spec => []LookupsMatchCanonical
<1>1. IInv => LookupsMatchCanonical
  BY DEF IInv
<1>2. QED
  BY <1>1, ChainInvariant, PTL

\* reorgTo never returns ErrUnknownAncestor: every stored block the fork choice
\* may pick is connected to the head by stored blocks.
THEOREM ReorgAlwaysPossible == Spec => []ReorgNeverFails
<1>1. IInv => ReorgNeverFails
  <2> SUFFICES ASSUME IInv, NEW b \in stored,
                      finalized = None \/ DescendsFrom(b, finalized, stored)
               PROVE  CanReorg(current, b, stored)
    BY DEF ReorgNeverFails
  <2>1. PICK base \in stored : RootedAt(base)
    BY DEF IInv
  <2>2. /\ TypeOK /\ b \in Blocks /\ base \in Blocks /\ current \in Blocks
        /\ Height(b) \in Nat /\ Height(base) \in Nat /\ Height(current) \in Nat
    BY HeightFacts DEF IInv, TypeOK
  <2>3. OnBranch(base, b)
    <3>1. CASE finalized = None
      BY <2>1, <2>2, <3>1, GenesisOnBranch DEF RootedAt
    <3>2. CASE finalized # None
      <4>1. finalized \in Blocks
        BY <2>2, <3>2 DEF TypeOK, BlockOrNone
      <4>2. QED
        BY <2>1, <2>2, <3>2, <4>1, DescendsIsBranch, OnBranchTrans DEF RootedAt
    <3>3. QED
      BY <3>1, <3>2
  <2>4. \A c \in {b, current} : \A n \in Height(base)..(Height(c) - 1) : Ancestor(c, n) \in stored
    BY <2>1, <2>2 DEF RootedAt
  <2>5. QED
    BY <2>1, <2>2, <2>3, <2>4, CanReorgAboveBase DEF RootedAt
<1>2. QED
  BY <1>1, ChainInvariant, PTL

\* Finality only moves forward along one branch, by either path.
THEOREM FinalityNeverRegresses == Spec => FinalityOnlyAdvances
<1>1. IInv /\ [Next]_vars =>
        [finalized # None => finalized' # None /\ OnBranch(finalized, finalized')]_vars
  <2> SUFFICES ASSUME IInv, Next, finalized # None
               PROVE  finalized' # None /\ OnBranch(finalized, finalized')
    OBVIOUS
  <2>1. finalized \in Blocks /\ None \notin Blocks /\ Height(finalized) \in Nat
        /\ OnBranch(finalized, finalized)
    BY ConstantsAssumption, HeightFacts, AncestorEnds DEF IInv, TypeOK, BlockOrNone, OnBranch
  <2>2. ASSUME NEW b \in Blocks, InsertBlock(b)
        PROVE  finalized' # None /\ OnBranch(finalized, finalized')
    <3>1. Justification[b] \in BlockOrNone /\ finalized \in BlockOrNone
      BY <2>1, ConstantsAssumption DEF BlockOrNone
    <3>2. finalized' = FinalizeLocked(finalized, Justification[b], stored \cup {b})
      BY <2>2, Zenon DEF InsertBlock
    <3>3. QED
      BY <2>1, <3>1, <3>2, FinalizeLockedFacts
  <2>3. ASSUME NEW b \in Blocks, Finalize(b)
        PROVE  finalized' # None /\ OnBranch(finalized, finalized')
    BY <2>1, <2>3, DescendsIsBranch DEF Finalize
  <2>4. ASSUME NEW b \in Blocks, ImportSnapshot(b)
        PROVE  FALSE
    BY <2>4 DEF ImportSnapshot, IInv, FreshAtGenesis
  <2>5. QED
    BY <2>1, <2>2, <2>3, <2>4 DEF Next, StateSynced
<1>2. QED
  BY <1>1, ChainInvariant, PTL DEF Spec, FinalityOnlyAdvances

\* No block, however long its branch, moves the head off finalized history.
THEOREM HeadRespectsFloor == Spec => ReorgKeepsFinalized
<1>1. IInv /\ [Next]_vars =>
        [finalized # None /\ finalized' = finalized /\ OnBranch(finalized, current)
            => OnBranch(finalized, current')]_vars
  <2> SUFFICES ASSUME IInv, Next, finalized # None, finalized' = finalized,
                      OnBranch(finalized, current)
               PROVE  OnBranch(finalized, current')
    OBVIOUS
  <2>1. finalized \in Blocks /\ current \in Blocks /\ FloorBelowHead
        /\ Height(finalized) \in Nat /\ Height(current) \in Nat
    BY HeightFacts DEF IInv, TypeOK, BlockOrNone
  <2>2. ASSUME NEW b \in Blocks, InsertBlock(b) PROVE OnBranch(finalized, current')
    <3>1. CASE current' = current
      BY <3>1
    <3>2. CASE current' # current
      <4>1. current' = b /\ Height(b) > Height(current) /\ Height(b) \in Nat
        BY <2>2, <3>2, HeightFacts DEF InsertBlock, ReorgTo
      <4>2. DescendsFrom(b, finalized, stored \cup {b})
        <5>1. ~(Height(b) <= Height(finalized))
          BY <2>1, <4>1 DEF FloorBelowHead
        <5>2. CheckFinality(b)
          BY <2>2, Zenon DEF InsertBlock, Executable
        <5>3. QED
          BY <5>1, <5>2, Zenon DEF CheckFinality
      <4>3. QED
        BY <2>1, <4>1, <4>2, DescendsIsBranch
    <3>3. QED
      BY <3>1, <3>2
  <2>3. ASSUME NEW b \in Blocks, Finalize(b) PROVE FALSE
    BY <2>1, <2>3 DEF Finalize
  <2>4. ASSUME NEW b \in Blocks, ImportSnapshot(b) PROVE FALSE
    BY <2>4 DEF ImportSnapshot, IInv, FreshAtGenesis
  <2>5. QED
    BY <2>2, <2>3, <2>4 DEF Next, StateSynced
<1>2. QED
  BY <1>1, ChainInvariant, PTL DEF Spec, ReorgKeepsFinalized

=============================================================================
