---------------------------- MODULE FinalityNet ----------------------------
(***************************************************************************)
(* A network of validators: block production, import, voting, certificates *)
(* and finality, composed from the chain and the vote pool of each node    *)
(* (node/node.go, miner/builder.go, chain/*.go, consensus/finality.go).    *)
(*                                                                         *)
(* Blocks and votes that were broadcast may reach a node late, in any      *)
(* order, more than once or never.  A node keeps its chain over a restart  *)
(* but not its pool, which lives in memory.  In a node one goroutine reads *)
(* each peer's messages and another seals blocks: each does one thing at a *)
(* time, but they interleave.  The validator set is fixed: one epoch.      *)
(*                                                                         *)
(* The canonical chain of a node is the branch of its head (theorem        *)
(* CanonicalIndexCorrect of ChainProofs), so the index is left out here.   *)
(***************************************************************************)
EXTENDS BlockTree, AttestationPool

CONSTANTS
    Order,        \* the validator set, in the order every node derives
    Observers,    \* nodes that follow the chain without a validator key
    Turns,        \* pairs <<validator, height>>: who gets a turn, in its own or a fallback round
    Listeners,    \* the nodes that votes reach
    Peers,        \* the goroutines of a node that read from a peer
    MaxHeight,    \* bound: nobody gets a turn above this height
    Restarting,   \* the nodes that get restarted
    MaxRestarts,  \* bound: restarts of each of them
    None

NetVoters == {Order[i] : i \in DOMAIN Order}
Nodes == NetVoters \cup Observers
Routines == Peers \cup {"miner"}
Proposers == {turn[1] : turn \in Turns}

ASSUME NetAssumption ==
    /\ MaxHeight \in Nat /\ MaxRestarts \in Nat /\ Retain \in Nat
    /\ Order \in Seq(Validators)
    /\ Turns \subseteq NetVoters \X (1..MaxHeight) /\ Listeners \subseteq Nodes /\ Restarting \subseteq Nodes
    /\ \A i, j \in DOMAIN Order : Order[i] = Order[j] => i = j

(* Blocks are told apart by proposer and by whether they embed a           *)
(* certificate for their parent.                                           *)
Labels == [by : Proposers, just : BOOLEAN]
NetBlocks == UNION {[1..h -> Labels] : h \in 0..MaxHeight}

VARIABLES
    stored,     \* stored[n]: the blocks n has imported
    head,       \* head[n]: bc.current
    final,      \* final[n]: bc.finalized
    pool,       \* pool[n]: the attestation pool
    building,   \* building[n]: a block sealed and not yet inserted
    due,        \* due[n][g]: the block goroutine g of n imported and has yet to vote for
    restarts,   \* restarts[n]: how often n was restarted
    blocksOut,  \* blocks broadcast
    votesOut,   \* votes broadcast
    proofsOut,  \* equivocation proofs broadcast
    signed,     \* history: every vote a validator signed, broadcast or not
    finals      \* history: every block some node has held final

nodeVars == <<stored, head, final, pool, finals>>
netVars == <<blocksOut, votesOut, proofsOut, signed>>
vars == <<nodeVars, building, due, restarts, netVars>>

Init ==
    /\ stored = [n \in Nodes |-> {Genesis}]
    /\ head = [n \in Nodes |-> Genesis]
    /\ final = [n \in Nodes |-> None]
    /\ pool = [n \in Nodes |-> NewPool(Order)]
    /\ building = [n \in Nodes |-> None]
    /\ due = [n \in Nodes |-> [g \in Routines |-> None]]
    /\ restarts = [n \in Nodes |-> 0]
    /\ blocksOut = {} /\ votesOut = {} /\ proofsOut = {}
    /\ signed = {} /\ finals = {}
-----------------------------------------------------------------------------
(* The chain of one node, as in module Chain, on a record of its own.      *)
ChainOf(n) == [stored |-> stored[n], head |-> head[n], final |-> final[n]]

(* checkFinalityLocked *)
RespectsFloor(c, b) ==
    c.final # None =>
        IF Height(b) <= Height(c.final)
        THEN Height(b) <= Height(c.head) => Ancestor(c.head, Height(b)) = b
        ELSE OnBranch(c.final, b)

Insertable(c, b) == b \notin c.stored /\ Parent(b) \in c.stored /\ RespectsFloor(c, b)

(* A certificate for b may move the floor to b. *)
MayFinalize(c, b) ==
    /\ b \in c.stored
    /\ c.final # None => Height(b) > Height(c.final) /\ OnBranch(c.final, b)

(* insertLocked: the justification first, then the fork choice. *)
Inserted(c, b) ==
    [stored |-> c.stored \cup {b},
     head   |-> IF Height(b) > Height(c.head) THEN b ELSE c.head,
     final  |-> IF b[Height(b)].just /\ MayFinalize(c, Parent(b)) THEN Parent(b) ELSE c.final]

(* BlockChain.Finalize *)
Finalized(c, b) ==
    IF MayFinalize(c, b)
    THEN [c EXCEPT !.final = b, !.head = IF OnBranch(b, @) THEN @ ELSE b]
    ELSE c

\* Variant with a fault: the heights are compared the wrong way round.
TryFinalizeBackwards(c, p, number, hash) ==
    LET cert == Certificate(p, number, hash) IN
    IF cert.signers = {} \/ (c.final # None /\ number >= Height(c.final))
    THEN [chain |-> c, pool |-> cert.pool]
    ELSE [chain |-> Finalized(c, hash), pool |-> MarkFinalized(cert.pool, number)]

(* tryFinalize: the pool stays behind when the chain is already past it. *)
TryFinalize(c, p, number, hash) ==
    LET cert == Certificate(p, number, hash)
        after == Finalized(c, hash)
    IN  IF \/ cert.signers = {}
           \/ c.final # None /\ number <= Height(c.final)
           \/ after = c
        THEN [chain |-> c, pool |-> cert.pool]
        ELSE [chain |-> after, pool |-> MarkFinalized(cert.pool, number)]

SetNode(n, c, p) ==
    /\ stored' = [stored EXCEPT ![n] = c.stored]
    /\ head' = [head EXCEPT ![n] = c.head]
    /\ final' = [final EXCEPT ![n] = c.final]
    /\ pool' = [pool EXCEPT ![n] = p]
    /\ finals' = finals \cup ({c.final} \ {None})

(* A block goes in under the chain's lock; the vote for it is cast after    *)
(* the lock is released, so other goroutines may act in between.            *)
Import(n, g, b) ==
    /\ SetNode(n, Inserted(ChainOf(n), b), pool[n])
    /\ due' = IF n \in NetVoters THEN [due EXCEPT ![n][g] = b] ELSE due

(* attest: sign, record the vote in the own pool, count, broadcast.  A vote *)
(* the own pool refuses is not broadcast, but it has been signed.           *)
Attest(n, g) ==
    LET b == due[n][g]
        a == Attestation(Height(b), b, CHOOSE i \in IndexOf(pool[n], n) : TRUE, n)
        r == Add(pool[n], a)
        t == TryFinalize(ChainOf(n), r.pool, Height(b), b)
    IN  /\ b # None
        /\ due' = [due EXCEPT ![n][g] = None]
        /\ signed' = signed \cup {a}
        /\ \/ /\ r.report \in {"new", "old"}
              /\ SetNode(n, t.chain, t.pool)
              /\ votesOut' = votesOut \cup {a}
           \/ /\ r.report \notin {"new", "old"}
              /\ SetNode(n, ChainOf(n), r.pool)
              /\ UNCHANGED votesOut
        /\ UNCHANGED <<building, restarts, blocksOut, proofsOut>>

-----------------------------------------------------------------------------
(* BuildBlock: on the head of the moment, with the certificate of the       *)
(* parent if the votes are in.  Blocks may be imported before the insertion *)
(* that follows.                                                            *)
Build(n) ==
    /\ building[n] = None /\ due[n]["miner"] = None
    /\ <<n, Height(head[n]) + 1>> \in Turns
    /\ LET cert == Certificate(pool[n], Height(head[n]), head[n])
           b == Append(head[n], [by |-> n, just |-> cert.signers # {}])
       IN  /\ building' = [building EXCEPT ![n] = b]
           /\ pool' = [pool EXCEPT ![n] = cert.pool]
    /\ UNCHANGED <<stored, head, final, finals, due, restarts, netVars>>

(* Commit and the rest of tryPropose: insert and broadcast; a vote follows. *)
Commit(n) ==
    /\ building[n] # None
    /\ building' = [building EXCEPT ![n] = None]
    /\ IF Insertable(ChainOf(n), building[n])
       THEN blocksOut' = blocksOut \cup {building[n]} /\ Import(n, "miner", building[n])
       ELSE UNCHANGED <<nodeVars, due, blocksOut>>
    /\ UNCHANGED <<restarts, votesOut, proofsOut, signed>>

(* HandleBlock *)
HandleBlock(n, g, b) ==
    /\ Insertable(ChainOf(n), b)
    /\ Import(n, g, b)
    /\ UNCHANGED <<building, restarts, netVars>>

(* HandleAttestations, one vote at a time.  A conflict spreads every proof  *)
(* the pool holds, not only the new one.                                    *)
HandleAttestation(n, a) ==
    LET r == Add(pool[n], a)
        t == TryFinalize(ChainOf(n), r.pool, a.number, a.hash)
    IN  /\ IF r.report = "new" THEN SetNode(n, t.chain, t.pool)
                               ELSE SetNode(n, ChainOf(n), r.pool)
        /\ proofsOut' = IF r.report = "equivocation"
                        THEN proofsOut \cup r.pool.evidence ELSE proofsOut
        /\ UNCHANGED <<building, due, restarts, blocksOut, votesOut, signed>>

(* HandleEvidence *)
HandleEvidence(n, e) ==
    /\ SetNode(n, ChainOf(n), AddEvidence(pool[n], e))
    /\ UNCHANGED <<building, due, restarts, netVars>>

(* Stop and start again: the chain is reopened, the pool is new, and a vote *)
(* that was due is never cast.                                              *)
Restart(n) ==
    /\ restarts[n] < MaxRestarts
    /\ restarts' = [restarts EXCEPT ![n] = @ + 1]
    /\ pool' = [pool EXCEPT ![n] = NewPool(Order)]
    /\ building' = [building EXCEPT ![n] = None]
    /\ due' = [due EXCEPT ![n] = [g \in Routines |-> None]]
    /\ UNCHANGED <<stored, head, final, finals, netVars>>

Deliver(n, g) ==
    /\ due[n][g] = None
    /\ \/ \E b \in blocksOut : HandleBlock(n, g, b)
       \/ n \in Listeners /\ \E a \in votesOut : HandleAttestation(n, a)
       \/ n \in Listeners /\ \E e \in proofsOut : HandleEvidence(n, e)

Next ==
    \/ \E n \in Proposers : Build(n) \/ Commit(n)
    \/ \E n \in Nodes, g \in Peers : Deliver(n, g)
    \/ \E n \in NetVoters, g \in Routines : Attest(n, g)
    \/ \E n \in Restarting : Restart(n)

Spec == Init /\ [][Next]_vars

(* The ticker of mineLoop runs for ever, and a connected peer eventually     *)
(* delivers what was broadcast.                                              *)
Fairness ==
    /\ \A n \in Proposers : WF_vars(Build(n)) /\ WF_vars(Commit(n))
    /\ \A n \in Nodes, g \in Peers : WF_vars(Deliver(n, g))
    /\ \A n \in NetVoters, g \in Routines : WF_vars(Attest(n, g))

-----------------------------------------------------------------------------
TypeOK ==
    /\ \A n \in Nodes : stored[n] \subseteq NetBlocks /\ head[n] \in stored[n]
    /\ \A n \in Nodes : final[n] \in stored[n] \cup {None} /\ building[n] \in NetBlocks \cup {None}
    /\ blocksOut \subseteq NetBlocks /\ finals \subseteq NetBlocks
    /\ \A a \in signed : a.signer \in NetVoters /\ a.hash \in NetBlocks
    /\ votesOut \subseteq signed

\* The network implements abstract vote counting: over forks, restarts and
\* racing goroutines, no node holds a block final, by certificate or by embedded
\* justification, that a quorum of distinct validators did not vote for.
Counting == INSTANCE VoteCounting WITH
    Voters <- NetVoters, Slots <- 0..MaxHeight, Choices <- NetBlocks, SlotOf <- Height,
    ballots <- {<<a.signer, a.hash>> : a \in votesOut}, settled <- finals
ImplementsVoteCounting == Counting!CountSpec

\* A proof that is broadcast names a validator that did sign both votes.
ProofsAreGenuine ==
    \A e \in proofsOut :
        /\ e.first.hash # e.second.hash /\ e.first.number = e.second.number
        /\ {e.first, e.second} \subseteq signed /\ e.first.signer = e.validator

\* A validator that broadcasts a vote against its own earlier one does so only
\* for a height at which it no longer counts votes: one it has finalized, or,
\* after a restart, one it voted at in an earlier life.
SecondVoteOnlyWhenSettled ==
    \A a, b \in votesOut :
        a.signer = b.signer /\ a.number = b.number /\ a.hash # b.hash =>
            restarts[a.signer] > 0 \/ pool[a.signer].finalized >= a.number

\* When each height has one proposer, every block it seals becomes final on
\* every validator, and the chain does not stop before its bound.
EventuallyFinal ==
    <>[](\A n \in NetVoters : final[n] # None /\ Height(final[n]) = MaxHeight)
=============================================================================
