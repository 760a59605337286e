------------------------------- MODULE Gossip -------------------------------
(***************************************************************************)
(* The message layer of p2p.Server and p2p.Peer over established           *)
(* connections: announcing and relaying blocks, transactions and votes,    *)
(* catching up with a peer that is ahead, and the search backwards for a   *)
(* common ancestor.  A connection is a pair of ordered, reliable channels; *)
(* who is connected, and for how long, is Peers'.  Snapshot messages are   *)
(* SnapSync's.                                                             *)
(*                                                                         *)
(* A node's chain is what Chain keeps of it without finality.  A           *)
(* transaction stands for itself; a vote is a validator and a block.       *)
(***************************************************************************)
EXTENDS BlockTree, FiniteSets, SequencesExt

CONSTANTS
    Nodes,
    Starts,                \* where the network may start: links, heads, what may still happen
    Voters,            \* the nodes that vote
    Txs,
    MaxBlocksPerRequest, MaxBackfillStep,
    SeenLimit,             \* capacity of a seenCache
    NoBatch

VARIABLES
    links,                 \* the peers of each node
    stored, head,          \* each node's blocks and its head
    seen,                  \* Server.seen
    peerSeen, peerHead, backfillStep,   \* Peer.seen, Peer.headNumber, Peer.backfillStep
    channel,               \* channel[n][p]: what n has sent to p and p has not read
    batch,                 \* batch[n][p]: the blocks of p's message that n still has to handle
    syncs,                 \* the running calls of syncFrom
    pool, votes,           \* transactions and votes a node holds
    toSubmit, toPropose    \* inputs that have not happened yet

chainVars == <<stored, head>>
peerVars == <<peerSeen, peerHead, backfillStep>>
gossipVars == <<links, stored, head, seen, peerSeen, peerHead, backfillStep, channel, batch, syncs,
          pool, votes, toSubmit, toPropose>>

\* What stands for the hash of a vote and of a transaction: a sequence, like a block.
Vote(v, b) == <<"vote", v>> \o b
Tx(t) == <<"tx", t>>

Least(a, b) == IF a < b THEN a ELSE b

-----------------------------------------------------------------------------
(* seenCache: the hashes in the order they came, the oldest dropped first. *)
Has(cache, x) == Contains(cache, x)

Add(cache, x) ==
    IF Has(cache, x) THEN cache
    ELSE LET grown == Append(cache, x)
         IN  IF Len(grown) > SeenLimit THEN Tail(grown) ELSE grown

\* The ones that are new to a cache, and the cache after adding them.
Fresh(cache, xs) == SelectSeq(xs, LAMBDA x : ~Has(cache, x))
AddAll(cache, xs) == FoldLeft(Add, cache, xs)

(* Messages sent by n, appended to what its peers have still to read.      *)
Send(ch, n, p, m) == [ch EXCEPT ![n][p] = Append(@, m)]
SendAll(ch, n, ps, m) ==
    [ch EXCEPT ![n] = [p \in Nodes |-> IF p \in ps THEN Append(@[p], m) ELSE @[p]]]

NewBlock(b) == [code |-> "blocks", body |-> <<b>>]
Blocks(bs) == [code |-> "blocks", body |-> bs]
GetBlocks(from, count) == [code |-> "get", body |-> <<from, count>>]
Transactions(ts) == [code |-> "txs", body |-> ts]
Attestations(vs) == [code |-> "votes", body |-> vs]

-----------------------------------------------------------------------------
(* BroadcastBlock on a node whose seen cache and channels are given.       *)
BroadcastBlock(ch, n, b) ==
    SendAll(ch, n, {p \in links[n] : ~Has(peerSeen[n][p], b)}, NewBlock(b))

(* BroadcastTransactions and BroadcastAttestations send what the node's    *)
(* seen cache does not hold yet, to every peer.                            *)
BroadcastTransactions(cache, ch, n, ts) ==
    IF Fresh(cache, ts) = <<>> THEN ch
    ELSE SendAll(ch, n, links[n], Transactions(Fresh(cache, ts)))

BroadcastAttestations(cache, ch, n, vs) ==
    IF Fresh(cache, vs) = <<>> THEN ch
    ELSE SendAll(ch, n, links[n], Attestations(Fresh(cache, vs)))

(* attest: a validator votes for the block, records its vote and sends it. *)
OwnVote(n, b) == IF n \in Voters THEN <<Vote(n, b)>> ELSE <<>>

-----------------------------------------------------------------------------
GossipFrom(s) ==
    /\ links = s.links
    /\ head = s.heads
    /\ stored = [n \in Nodes |-> {Ancestor(s.heads[n], h) : h \in 0..Height(s.heads[n])}]
    /\ seen = [n \in Nodes |-> <<>>]
    /\ peerSeen = [n \in Nodes |-> [p \in Nodes |-> <<>>]]
    /\ peerHead = [n \in Nodes |-> [p \in Nodes |-> Height(s.heads[p])]]
    /\ backfillStep = [n \in Nodes |-> [p \in Nodes |-> 0]]
    /\ channel = [n \in Nodes |-> [p \in Nodes |-> <<>>]]
    /\ batch = [n \in Nodes |-> [p \in Nodes |-> NoBatch]]
    /\ syncs = UNION {{[node |-> n, peer |-> p, from |-> 0, to |-> 0] : p \in s.links[n]} : n \in Nodes}
    /\ pool = [n \in Nodes |-> {}]
    /\ votes = [n \in Nodes |-> {}]
    /\ toSubmit = s.submit
    /\ toPropose = s.propose

GossipInit == \E s \in Starts : GossipFrom(s)

(* A transaction reaches the pool of n and the pool's subscriber sends it. *)
Submit(n, t) ==
    /\ <<n, t>> \in toSubmit
    /\ toSubmit' = toSubmit \ {<<n, t>>}
    /\ pool' = [pool EXCEPT ![n] = @ \cup {Tx(t)}]
    /\ channel' = BroadcastTransactions(seen[n], channel, n, <<Tx(t)>>)
    /\ seen' = [seen EXCEPT ![n] = Add(@, Tx(t))]
    /\ UNCHANGED <<links, chainVars, peerVars, batch, syncs, votes, toPropose>>

(* tryPropose: the block is inserted, sent, and voted for.                 *)
Propose(n, l) ==
    LET b == Append(head[n], l)
        own == OwnVote(n, b)
        withBlock == Add(seen[n], b)
    IN  /\ <<n, l>> \in toPropose
        /\ toPropose' = toPropose \ {<<n, l>>}
        /\ stored' = [stored EXCEPT ![n] = @ \cup {b}]
        /\ head' = [head EXCEPT ![n] = b]
        /\ votes' = [votes EXCEPT ![n] = @ \cup ToSet(own)]
        /\ channel' = BroadcastAttestations(withBlock, BroadcastBlock(channel, n, b), n, own)
        /\ seen' = [seen EXCEPT ![n] = AddAll(withBlock, own)]
        /\ UNCHANGED <<links, peerVars, batch, syncs, pool, toSubmit>>

-----------------------------------------------------------------------------
(* syncFrom: reads both heights, then asks for one stretch after another,  *)
(* sleeping in between.                                                    *)
SyncFrom(n, p) == [node |-> n, peer |-> p, from |-> 0, to |-> 0]

StartSync(s) ==
    /\ s \in syncs
    /\ s.to = 0
    /\ LET ours == Height(head[s.node])
           theirs == peerHead[s.node][s.peer]
       IN  syncs' = (syncs \ {s}) \cup
               IF theirs <= ours THEN {} ELSE {[s EXCEPT !.from = ours + 1, !.to = theirs]}
    /\ UNCHANGED <<links, chainVars, seen, peerVars, channel, batch, pool, votes, toSubmit, toPropose>>

SyncRequest(s) ==
    LET count == Least(s.to - s.from + 1, MaxBlocksPerRequest)
        next == s.from + MaxBlocksPerRequest
    IN  /\ s \in syncs
        /\ s.to # 0
        /\ channel' = Send(channel, s.node, s.peer, GetBlocks(s.from, count))
        /\ syncs' = (syncs \ {s}) \cup IF next > s.to THEN {} ELSE {[s EXCEPT !.from = next]}
        /\ UNCHANGED <<links, chainVars, seen, peerVars, batch, pool, votes, toSubmit, toPropose>>

(* nextBackfillStep.                                                       *)
NextBackfillStep(step) ==
    IF step = 0 THEN 1 ELSE IF step < MaxBackfillStep THEN step * 2 ELSE step

\* Variant with a fault: the run is the block itself.
BackfillRangeSelf(number, step) == GetBlocks(number, 1)

(* backfill: the run of blocks before the one that would not connect.      *)
BackfillRange(number, step) ==
    LET from == IF number > step THEN number - step ELSE 1
        count == number - from
    IN  IF count > MaxBlocksPerRequest
        THEN GetBlocks(number - MaxBlocksPerRequest, MaxBlocksPerRequest)
        ELSE GetBlocks(from, count)

Backfill(n, p, number) ==
    IF number <= 1 THEN UNCHANGED <<channel, backfillStep>>
    ELSE LET step == NextBackfillStep(backfillStep[n][p])
         IN  /\ backfillStep' = [backfillStep EXCEPT ![n][p] = step]
             /\ channel' = Send(channel, n, p, BackfillRange(number, step))

-----------------------------------------------------------------------------
(* Peer.run reads the next message once the last one is handled.           *)
Reads(n, p, code) ==
    /\ channel[p][n] # <<>>
    /\ batch[n][p] = NoBatch
    /\ Head(channel[p][n]).code = code

Body(n, p) == Head(channel[p][n]).body
Read(n, p) == [channel EXCEPT ![p][n] = Tail(@)]

\* setHead only moves forward.
HeardOf(n, p, b) ==
    peerHead' = [peerHead EXCEPT ![n][p] = IF Height(b) >= @ THEN Height(b) ELSE @]

HandleBlocks(n, p) ==
    /\ Reads(n, p, "blocks")
    /\ channel' = Read(n, p)
    /\ batch' = [batch EXCEPT ![n][p] = [rest |-> Body(n, p), imported |-> FALSE]]
    /\ UNCHANGED <<links, chainVars, seen, peerVars, syncs, pool, votes, toSubmit, toPropose>>

(* What follows a successful HandleBlock: the node's own vote went out     *)
(* with the import, and a block that is new to the server is relayed.      *)
Relay(n, p, b) ==
    LET own == OwnVote(n, b)
        voted == AddAll(seen[n], own)
        sent == BroadcastAttestations(seen[n], channel, n, own)
    IN  /\ channel' = IF Has(voted, b) THEN sent ELSE BroadcastBlock(sent, n, b)
        /\ seen' = [seen EXCEPT ![n] = Add(voted, b)]

(* One block of a message: known, not connected, or imported.  Handlers of *)
(* other peers run between two blocks of a message.                        *)
HandleBlock(n, p) ==
    /\ batch[n][p] # NoBatch
    /\ batch[n][p].rest # <<>>
    /\ LET b == Head(batch[n][p].rest)
           rest == Tail(batch[n][p].rest)
       IN  /\ peerSeen' = [peerSeen EXCEPT ![n][p] = Add(@, b)]
           /\ HeardOf(n, p, b)
           /\ \/ /\ b \in stored[n]
                 /\ batch' = [batch EXCEPT ![n][p].rest = rest]
                 /\ UNCHANGED <<chainVars, seen, backfillStep, channel, votes>>
              \/ /\ b \notin stored[n] /\ Parent(b) \notin stored[n]
                 /\ batch' = [batch EXCEPT ![n][p].rest = rest]
                 /\ Backfill(n, p, Height(b))
                 /\ UNCHANGED <<chainVars, seen, votes>>
              \/ /\ b \notin stored[n] /\ Parent(b) \in stored[n]
                 /\ batch' = [batch EXCEPT ![n][p] = [rest |-> rest, imported |-> TRUE]]
                 /\ stored' = [stored EXCEPT ![n] = @ \cup {b}]
                 /\ head' = [head EXCEPT ![n] = IF Height(b) > Height(@) THEN b ELSE @]
                 /\ votes' = [votes EXCEPT ![n] = @ \cup ToSet(OwnVote(n, b))]
                 /\ backfillStep' = [backfillStep EXCEPT ![n][p] = 0]
                 /\ Relay(n, p, b)
    /\ UNCHANGED <<links, syncs, pool, toSubmit, toPropose>>

FinishBlocks(n, p) ==
    /\ batch[n][p] # NoBatch
    /\ batch[n][p].rest = <<>>
    /\ batch' = [batch EXCEPT ![n][p] = NoBatch]
    /\ syncs' = IF batch[n][p].imported THEN syncs \cup {SyncFrom(n, p)} ELSE syncs
    /\ UNCHANGED <<links, chainVars, seen, peerVars, channel, pool, votes, toSubmit, toPropose>>

(* MsgGetBlocks: the canonical blocks from a height on, up to a gap.       *)
HandleGetBlocks(n, p) ==
    /\ Reads(n, p, "get")
    /\ LET from == Body(n, p)[1]
           last == Least(from + Least(Body(n, p)[2], MaxBlocksPerRequest) - 1, Height(head[n]))
       IN  channel' = IF from > last THEN Read(n, p)
                      ELSE Send(Read(n, p), n, p,
                                Blocks([i \in 1..(last - from + 1) |-> Ancestor(head[n], from + i - 1)]))
    /\ UNCHANGED <<links, chainVars, seen, peerVars, batch, syncs, pool, votes, toSubmit, toPropose>>

(* MsgNewTransactions: what is new to the server goes to the pool, and to  *)
(* BroadcastTransactions, which asks the same cache again.                 *)
HandleTransactions(n, p) ==
    LET ts == Body(n, p)
        fresh == Fresh(seen[n], ts)
        marked == AddAll(seen[n], ts)
    IN  /\ Reads(n, p, "txs")
        /\ peerSeen' = [peerSeen EXCEPT ![n][p] = AddAll(@, ts)]
        /\ pool' = [pool EXCEPT ![n] = @ \cup ToSet(fresh)]
        /\ channel' = BroadcastTransactions(marked, Read(n, p), n, fresh)
        /\ seen' = [seen EXCEPT ![n] = AddAll(marked, fresh)]
        /\ UNCHANGED <<links, chainVars, peerHead, backfillStep, batch, syncs, votes, toSubmit, toPropose>>

(* MsgAttestations, in the same way.                                       *)
HandleAttestations(n, p) ==
    LET vs == Body(n, p)
        fresh == Fresh(seen[n], vs)
        marked == AddAll(seen[n], vs)
    IN  /\ Reads(n, p, "votes")
        /\ peerSeen' = [peerSeen EXCEPT ![n][p] = AddAll(@, vs)]
        /\ votes' = [votes EXCEPT ![n] = @ \cup ToSet(fresh)]
        /\ channel' = BroadcastAttestations(marked, Read(n, p), n, fresh)
        /\ seen' = [seen EXCEPT ![n] = AddAll(marked, fresh)]
        /\ UNCHANGED <<links, chainVars, peerHead, backfillStep, batch, syncs, pool, toSubmit, toPropose>>

Handle(n, p) ==
    \/ HandleBlocks(n, p) \/ HandleBlock(n, p) \/ FinishBlocks(n, p)
    \/ HandleGetBlocks(n, p) \/ HandleTransactions(n, p) \/ HandleAttestations(n, p)

SyncStep(n) == \E s \in syncs : s.node = n /\ (StartSync(s) \/ SyncRequest(s))

GossipNext ==
    \/ \E n \in Nodes, t \in Txs : Submit(n, t)
    \/ \E i \in toPropose : Propose(i[1], i[2])
    \/ \E n \in Nodes : SyncStep(n)
    \/ \E n \in Nodes : \E p \in links[n] : Handle(n, p)

(* Every connection has a reader of its own and every syncFrom a goroutine *)
(* of its own.  Whether anything is submitted or proposed is left open.    *)
GossipFairness ==
    /\ \A n, p \in Nodes : WF_gossipVars(Handle(n, p) /\ p \in links[n])
    /\ \A n \in Nodes : WF_gossipVars(SyncStep(n))

-----------------------------------------------------------------------------
(* Caches stay within their limit, requests within theirs, and a node's    *)
(* head is one of its blocks, none of which lacks its parent.              *)
GossipTypeOK ==
    /\ \A n \in Nodes :
          /\ Len(seen[n]) <= SeenLimit
          /\ head[n] \in stored[n]
          /\ \A b \in stored[n] \ {Genesis} : Parent(b) \in stored[n] /\ Height(b) <= Height(head[n])
          /\ pool[n] \subseteq {Tx(t) : t \in Txs}
    /\ \A n, p \in Nodes :
          /\ Len(peerSeen[n][p]) <= SeenLimit
          /\ backfillStep[n][p] <= MaxBackfillStep
          /\ p \notin links[n] => channel[n][p] = <<>>
          /\ \A i \in 1..Len(channel[n][p]) :
                LET m == channel[n][p][i] IN
                /\ m.code = "get" => m.body[1] >= 1 /\ m.body[2] \in 1..MaxBlocksPerRequest
                /\ m.code # "get" => Len(m.body) >= 1

(* Whatever a node believes its peer to have, the peer has: BroadcastBlock *)
(* skips a peer only if the block came from it, and syncFrom asks only for *)
(* heights the peer's chain reached.                                       *)
PeersHaveWhatIsBelieved ==
    \A n \in Nodes : \A p \in links[n] :
        /\ \A b \in stored[n] : Has(peerSeen[n][p], b) => b \in stored[p]
        /\ peerHead[n][p] <= Height(head[p])

(* Relaying, catching up and searching for an ancestor come to an end, and *)
(* they end with linked nodes at one height: "Relay only blocks that were  *)
(* new to us, which keeps gossip from looping", and "Walking backwards     *)
(* from the block that failed reaches the height where the two chains last *)
(* agreed, and from there the peer's branch imports normally", however the *)
(* branches came apart and whichever way round announcements, answers and  *)
(* imports interleave.  On the way no node believes of a peer what is not  *)
(* so.                                                                     *)
GossipSettles ==
    /\ []PeersHaveWhatIsBelieved
    /\ <>[](/\ syncs = {}
            /\ \A n, p \in Nodes : channel[n][p] = <<>> /\ batch[n][p] = NoBatch
            /\ \A n \in Nodes : \A p \in links[n] : Height(head[n]) = Height(head[p]))
=============================================================================
