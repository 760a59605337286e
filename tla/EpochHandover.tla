--------------------------- MODULE EpochHandover ---------------------------
(***************************************************************************)
(* The validator set as it passes from one epoch to the next on a network: *)
(* who derives which set for which height, which set a vote is indexed in, *)
(* and what the block that opens an epoch is executed from                 *)
(* (chain/blockchain.go, chain/finality.go, node/node.go,                  *)
(* miner/builder.go, processor/staking.go).                                *)
(*                                                                         *)
(* Each handler runs alone here; module FinalityNet interleaves the        *)
(* goroutines of a node within one epoch.  Blocks and votes reach a node   *)
(* late, in any order, or never.  Validators may leave: a block may carry  *)
(* their exits, and the sets of later epochs are without them.             *)
(*                                                                         *)
(* The state root of a block that opens an epoch commits to what the       *)
(* transition was given besides the parent's state, the participation and  *)
(* the finalized epoch.  Execution reproduces the root exactly when it is  *)
(* given the same.                                                         *)
(***************************************************************************)
EXTENDS BlockTree, AttestationPool

CONSTANTS
    Order,        \* the genesis set, in registry order
    EpochLength,  \* blocks in an epoch (32 in the code)
    Leavers,      \* the validators whose exits a block may carry
    Exits,        \* pairs <<validator, height>>: the proposals whose transactions hold them
    Turns,        \* pairs <<validator, height>>: who gets a turn, in its own or a fallback round
    Online,       \* the validators whose nodes are running
    Listeners,    \* the nodes that votes reach
    NoBlock       \* no block is final yet

Members == {Order[i] : i \in DOMAIN Order}
\* Those that stay, in registry order.
Remaining == SelectSeq(Order, LAMBDA v : v \notin Leavers)

ASSUME HandoverAssumption ==
    /\ EpochLength \in Nat \ {0} /\ Retain \in Nat
    /\ Turns \subseteq Members \X (Nat \ {0}) /\ Exits \subseteq Turns
    /\ Online \subseteq Members /\ Listeners \subseteq Online
    /\ \A set \in {Order, Remaining} :
          set \in Seq(Validators) /\ \A i, j \in DOMAIN set : set[i] = set[j] => i = j

VARIABLES
    imported, head, final,  \* by node: the blocks, bc.current, bc.finalized
    pools,                  \* by node: the attestation pool
    blocksOut, votesOut,    \* what was broadcast
    finals                  \* history: every block some node has held final

handoverVars == <<imported, head, final, pools, blocksOut, votesOut, finals>>

EpochOf(number) == number \div EpochLength
EpochStart(epoch) == epoch * EpochLength
IsEpochBoundary(number) == number > 0 /\ number % EpochLength = 0

-----------------------------------------------------------------------------
(* What a node derives from its chain, a record of stored, head and final. *)

(* ActiveAddressesAt, from the registry as the block at the end of the    *)
(* previous epoch left it: an exit asked for in one epoch takes effect in *)
(* the next.                                                              *)
ActiveAfter(boundary) ==
    IF \E h \in 1..Height(boundary) : boundary[h].exit THEN Remaining ELSE Order

(* ValidatorsAt and BLSKeysAt.  The boundary block is looked up by number, *)
(* so it is the one on the canonical chain of the node.                    *)
ValidatorsAt(c, number) ==
    LET boundary == EpochStart(EpochOf(number)) - 1
    IN  IF EpochOf(number) = 0 \/ Height(c.head) < boundary \/ ActiveAfter(Ancestor(c.head, boundary)) = <<>>
        THEN Order
        ELSE ActiveAfter(Ancestor(c.head, boundary))

NoCert == [order |-> <<>>, signers |-> {}]

\* Variant with a fault: nothing is checked.
VerifyNothing(cert, keys) == TRUE

(* AggregateAttestation.Verify.  The signature is the sum of those of the   *)
(* signers by their place in cert.order, the set it was collected under; it *)
(* is checked against the keys at the same places.  The bitfield must have  *)
(* the bytes for "keys" and mark nothing past their end, and a quorum of    *)
(* "keys" is required.                                                      *)
Verify(cert, keys) ==
    /\ (Len(cert.order) + 7) \div 8 = (Len(keys) + 7) \div 8
    /\ cert.signers # {} /\ cert.signers \subseteq 0..(Len(keys) - 1)
    /\ {keys[i + 1] : i \in cert.signers} = {cert.order[i + 1] : i \in cert.signers}
    /\ Cardinality(cert.signers) >= Quorum(Len(keys))

(* EpochParticipation: proposers and signers of the epoch's headers, again  *)
(* by number, the signers named by their place in the epoch's set.          *)
EpochParticipation(c, epoch) ==
    LET set     == ValidatorsAt(c, EpochStart(epoch))
        numbers == {h \in EpochStart(epoch)..(EpochStart(epoch + 1) - 1) : h > 0 /\ h <= Height(c.head)}
    IN  IF epoch = 0
        THEN [attested |-> {}, proposed |-> [v \in Members |-> 0]]
        ELSE [attested |-> {set[i + 1] : i \in UNION {c.head[h].just.signers \cap 0..(Len(set) - 1) : h \in numbers}},
              proposed |-> [v \in Members |-> Cardinality({h \in numbers : c.head[h].by = v})]]

(* What ProcessEpochBoundary passes to the transition at this height. *)
TransitionInputs(c, number) ==
    IF IsEpochBoundary(number)
    THEN <<EpochParticipation(c, EpochOf(number) - 1),
           EpochOf(IF c.final = NoBlock THEN 0 ELSE Height(c.final))>>
    ELSE <<>>

(* checkFinalityLocked *)
RespectsFloor(c, b) ==
    c.final # NoBlock =>
        IF Height(b) <= Height(c.final)
        THEN Height(b) <= Height(c.head) => Ancestor(c.head, Height(b)) = b
        ELSE OnBranch(c.final, b)

(* insertLocked up to the write: the proposer and the justification by the   *)
(* sets this node derives, the floor, the state root.  Any member of the set *)
(* may have the turn in some round.                                          *)
Insertable(c, b) ==
    LET label == b[Height(b)]
        set   == ValidatorsAt(c, Height(b))
    IN  /\ b \notin c.stored /\ Parent(b) \in c.stored
        /\ \E i \in DOMAIN set : set[i] = label.by
        /\ label.just # NoCert => Verify(label.just, ValidatorsAt(c, Height(b) - 1))
        /\ RespectsFloor(c, b)
        /\ label.inputs = TransitionInputs(c, Height(b))

(* A certificate for b may move the floor to b. *)
MayFinalize(c, b) ==
    /\ b \in c.stored /\ b # Genesis
    /\ c.final # NoBlock => Height(b) > Height(c.final) /\ OnBranch(c.final, b)

(* The rest of insertLocked: the justification, checked again, then the fork *)
(* choice.                                                                   *)
Inserted(c, b) ==
    LET just == b[Height(b)].just
        c1   == [c EXCEPT !.stored = @ \cup {b}]
        c2   == IF just # NoCert /\ MayFinalize(c1, Parent(b)) THEN [c1 EXCEPT !.final = Parent(b)] ELSE c1
    IN  IF Height(b) > Height(c.head) THEN [c2 EXCEPT !.head = b] ELSE c2

(* Certificate of the pool, as the header carries it. *)
CertOf(p, cert) == IF cert.signers = {} THEN NoCert ELSE [order |-> p.addresses, signers |-> cert.signers]

(* tryFinalize and BlockChain.Finalize. *)
TryFinalize(c, p, number, hash) ==
    LET cert == Certificate(p, number, hash)
        ok   == /\ cert.signers # {} /\ Verify(CertOf(p, cert), ValidatorsAt(c, number))
                /\ MayFinalize(c, hash)
    IN  [chain |-> IF ok THEN [c EXCEPT !.final = hash, !.head = IF OnBranch(hash, @) THEN @ ELSE hash] ELSE c,
         pool  |-> IF ok THEN MarkFinalized(cert.pool, number) ELSE cert.pool]

(* syncValidatorSet: the set of the height above the head. *)
SyncValidatorSet(c, p) == UpdateValidators(p, ValidatorsAt(c, Height(c.head) + 1))

(* attest: an index in whatever set the pool holds now. *)
Attest(n, c, p, b) ==
    LET indices == IndexOf(p, n)
        a == Attestation(Height(b), b, CHOOSE i \in indices : TRUE, n)
        r == Add(p, a)
        t == TryFinalize(c, r.pool, Height(b), b)
    IN  IF indices = {} THEN [chain |-> c, pool |-> p, vote |-> {}]
        ELSE IF r.report \in {"new", "old"} THEN [chain |-> t.chain, pool |-> t.pool, vote |-> {a}]
        ELSE [chain |-> c, pool |-> r.pool, vote |-> {}]

-----------------------------------------------------------------------------
ChainOf(n) == [stored |-> imported[n], head |-> head[n], final |-> final[n]]

SetNode(n, c, p) ==
    /\ imported' = [imported EXCEPT ![n] = c.stored]
    /\ head' = [head EXCEPT ![n] = c.head]
    /\ final' = [final EXCEPT ![n] = c.final]
    /\ pools' = [pools EXCEPT ![n] = p]
    /\ finals' = finals \cup ({c.final} \ {NoBlock})

HandoverInit ==
    /\ imported = [n \in Online |-> {Genesis}]
    /\ head = [n \in Online |-> Genesis]
    /\ final = [n \in Online |-> NoBlock]
    /\ pools = [n \in Online |-> NewPool(Order)]
    /\ blocksOut = {} /\ votesOut = {} /\ finals = {}

(* Import, follow the set, vote. *)
Import(n, b, p) ==
    \E c \in {Inserted(ChainOf(n), b)} :
        \E a \in {Attest(n, c, SyncValidatorSet(c, p), b)} :
            SetNode(n, a.chain, a.pool) /\ votesOut' = votesOut \cup a.vote

(* BuildBlock: on the head, with the certificate of the parent if the pool  *)
(* has the votes.                                                           *)
BuildBlock(n) ==
    LET next == Height(head[n]) + 1
        cert == Certificate(pools[n], Height(head[n]), head[n])
    IN  [block |-> Append(head[n], [by |-> n, exit |-> <<n, next>> \in Exits, just |-> CertOf(pools[n], cert),
                                    inputs |-> TransitionInputs(ChainOf(n), next)]),
         pool  |-> cert.pool]

NextSet(n) == ValidatorsAt(ChainOf(n), Height(head[n]) + 1)

(* tryPropose: BuildBlock, then Commit.  A block the own chain refuses is *)
(* dropped, and the next tick builds again.                               *)
Propose(n) ==
    /\ <<n, Height(head[n]) + 1>> \in Turns
    /\ \E i \in DOMAIN NextSet(n) : NextSet(n)[i] = n
    /\ \E built \in {BuildBlock(n)} :
         IF Insertable(ChainOf(n), built.block)
         THEN blocksOut' = blocksOut \cup {built.block} /\ Import(n, built.block, built.pool)
         ELSE SetNode(n, ChainOf(n), built.pool) /\ UNCHANGED <<blocksOut, votesOut>>

HandleBlock(n, b) ==
    /\ Insertable(ChainOf(n), b)
    /\ Import(n, b, pools[n])
    /\ UNCHANGED blocksOut

(* HandleAttestations, one vote at a time. *)
HandleAttestation(n, a) ==
    \E r \in {Add(pools[n], a)} :
        \E t \in {TryFinalize(ChainOf(n), r.pool, a.number, a.hash)} :
            /\ IF r.report = "new" THEN SetNode(n, t.chain, t.pool) ELSE SetNode(n, ChainOf(n), r.pool)
            /\ UNCHANGED <<blocksOut, votesOut>>

Deliver(n) ==
    \/ \E b \in blocksOut : HandleBlock(n, b)
    \/ n \in Listeners /\ \E a \in votesOut : HandleAttestation(n, a)

HandoverNext ==
    \/ \E n \in Online : Propose(n)
    \/ \E n \in Online : Deliver(n)

HandoverSpec == HandoverInit /\ [][HandoverNext]_handoverVars

-----------------------------------------------------------------------------
(* Heads and floors are blocks the node has; a pool holds only votes that   *)
(* were broadcast, and indexes them in one of the two sets.                 *)
HandoverTypeOK ==
    /\ \A n \in Online : head[n] \in imported[n] /\ final[n] \in imported[n] \cup {NoBlock}
    /\ \A n \in Online : pools[n].votes \subseteq votesOut /\ pools[n].addresses \in {Order, Remaining}
    /\ finals \subseteq UNION {imported[n] : n \in Online}

(* The set that a branch gives a height, and the one that governs a block by  *)
(* the branch of the block itself.                                            *)
SetOn(tip, number) == ValidatorsAt([stored |-> {}, head |-> tip, final |-> NoBlock], number)
OwnSet(b) == SetOn(Parent(b), Height(b))

(* A quorum of the set has voted for b. *)
QuorumVoted(set, b, votes) ==
    Cardinality({v \in {set[i] : i \in DOMAIN set} : \E a \in votes : a.signer = v /\ a.hash = b})
        >= Quorum(Len(set))

(* BlockChain.Finalize and insertLocked: whichever certificate moves the    *)
(* floor of a node, one it counted itself or one in a header, and whatever  *)
(* set it was collected under, a quorum of the set that the node's own      *)
(* canonical chain gives the height has voted for the block.                *)
FloorsMoveByQuorum ==
    [][\A n \in Online : final'[n] # final[n] =>
          \E tip \in {head[n], head'[n]} :
              QuorumVoted(SetOn(tip, Height(final'[n])), final'[n], votesOut')]_handoverVars

(* BlockChain.Finalize: "The certificate is checked against the set that    *)
(* governed the height it names": the set by the branch of the block.       *)
FinalsHaveTheirQuorum == \A b \in finals : QuorumVoted(OwnSet(b), b, votesOut)

(* A block sealed by one node that another could import next. *)
Importable(n, b) == b \in blocksOut \ imported[n] /\ Parent(b) \in imported[n] /\ RespectsFloor(ChainOf(n), b)

(* ProcessEpoch "depends only on the state and the participation derived    *)
(* from the chain, so every node computes the same result": here, whatever  *)
(* each node happens to hold final when it executes the block.              *)
SameFinalizedEpoch ==
    \A n \in Online, b \in blocksOut :
        Importable(n, b) /\ IsEpochBoundary(Height(b))
            => TransitionInputs(ChainOf(n), Height(b))[2] = b[Height(b)].inputs[2]
=============================================================================
