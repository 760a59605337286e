----------------------------- MODULE MCNetwork -----------------------------
(***************************************************************************)
(* Small instances of the three modules of the network side: messages      *)
(* between nodes (Gossip), the connections of one node (Peers) and the     *)
(* proposers' rounds (ProposerRounds).  They share no state, so a          *)
(* behaviour exercises one of them and leaves the others as they began.    *)
(***************************************************************************)
EXTENDS Gossip, Peers, ProposerRounds

CONSTANT Parts
VARIABLE part

Line == [a |-> {"b"}, b |-> {"a", "c"}, c |-> {"b"}]
Pair == [a |-> {"b"}, b |-> {"a"}, c |-> {}]

At(la, lb, lc) == [a |-> la, b |-> lb, c |-> lc]

\* One block, proposed at the end of the line, and a transaction from there.
OnTheLine ==
    [links |-> Line, heads |-> At(<<>>, <<>>, <<>>),
     submit |-> {<<"a", "t">>}, propose |-> {<<"a", "x">>}]

\* b's branch left a's three blocks back and is longer by two.
Diverged ==
    [links |-> Pair, heads |-> At(<<"y", "y", "y">>, <<"x", "x", "x", "x", "x">>, <<>>),
     submit |-> {}, propose |-> {}]

\* The longer branch grows while the other node looks for where they parted.
Growing ==
    [links |-> Pair, heads |-> At(<<"y", "y">>, <<"x", "x", "x">>, <<>>),
     submit |-> {}, propose |-> {<<"b", "x">>}]

\* b is behind, and its two peers are on different branches.
Between ==
    [links |-> Line, heads |-> At(<<"x">>, <<>>, <<"y">>), submit |-> {}, propose |-> {}]

AllStarts == {OnTheLine, Diverged, Growing, Between}

\* Two connections of one peer, as when both sides dial, and one of another.
MCIdOf == [c1 |-> "i", c2 |-> "i", c3 |-> "j"]

TwoOrder == <<"a", "b">>
TwoSkew == [a |-> 0, b |-> 1]
\* Epoch 0: the plain rotation.
Rotation == {NoDraw}

-----------------------------------------------------------------------------
\* A network without links, a server without connections, no validator running.
Alone ==
    [links |-> [n \in Nodes |-> {}], heads |-> At(<<>>, <<>>, <<>>), submit |-> {}, propose |-> {}]
GossipIdle == GossipFrom(Alone)
PeersIdle == PeersFrom("done")
RoundsIdle == RoundsFrom(MaxTime, {}) /\ draw = CHOOSE d \in Draws : TRUE

Init ==
    /\ part \in Parts
    /\ IF part = "gossip" THEN GossipInit ELSE GossipIdle
    /\ IF part = "peers" THEN PeersInit ELSE PeersIdle
    /\ IF part = "rounds" THEN RoundsInit ELSE RoundsIdle

Next ==
    \/ part = "gossip" /\ GossipNext /\ UNCHANGED <<part, netVars, roundsVars>>
    \/ part = "peers" /\ PeersNext /\ UNCHANGED <<part, gossipVars, roundsVars>>
    \/ part = "rounds" /\ RoundsNext /\ UNCHANGED <<part, gossipVars, netVars>>

vars == <<part, gossipVars, netVars, roundsVars>>

FairSpec == Init /\ [][Next]_vars /\ GossipFairness /\ PeersFairness

-----------------------------------------------------------------------------
(* The state of each part is of its type: caches within their limits,      *)
(* requests of backfill and syncFrom within theirs, scores positive, heads *)
(* among the blocks a node has.                                            *)
TypeOK == GossipTypeOK /\ PeersTypeOK /\ RoundsTypeOK
=============================================================================
