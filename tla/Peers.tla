------------------------------- MODULE Peers -------------------------------
(***************************************************************************)
(* The connections of one p2p.Server: admission, the two handshakes, the   *)
(* table of peers, reputation and Stop.  Every connection is handled by a  *)
(* goroutine of its own (handleConnectionAs), which reads the shared table *)
(* and scores at several points of its life.                               *)
(*                                                                         *)
(* Messages are told apart by what they do to the sender's standing only,  *)
(* and any of them may be one too many for the rate limit; Gossip has      *)
(* their contents.                                                         *)
(***************************************************************************)
EXTENDS Integers, FiniteSets

CONSTANTS
    Conns, Ids, IdOf,      \* the connections that are made, and whose they are
    MaxPeers,
    InitialScore, PenaltyBadMessage, PenaltyInvalidBlock, PenaltyFlood,
    BanDuration, RecoveryInterval, RecoveryAmount,
    MaxClock, NoConn

ASSUME PeersAssumption ==
    /\ IdOf \in [Conns -> Ids] /\ NoConn \notin Conns
    /\ InitialScore \in Nat /\ InitialScore >= 2
    /\ {PenaltyBadMessage, PenaltyInvalidBlock, PenaltyFlood} \subseteq Nat
    /\ RecoveryInterval \in Nat \ {0} /\ RecoveryAmount \in Nat

VARIABLES
    clock,
    stage,          \* where handleConnectionAs is: "none", "auth", "status", "run", "ending", "done"
    closed,         \* connections that Close was called on
    peers,          \* Server.peers: identity to connection
    score, lastRecover, bannedUntil,   \* scoreboard
    quit            \* Stop was called; TRUE once it has closed the peers it found

netVars == <<clock, stage, closed, peers, score, lastRecover, bannedUntil, quit>>
repVars == <<score, lastRecover, bannedUntil>>

PeerCount == Cardinality({i \in Ids : peers[i] # NoConn})
IsBanned(i) == clock < bannedUntil[i]

-----------------------------------------------------------------------------
(* recoverLocked: whole intervals that have passed, up to the initial score. *)
Recovered(i) ==
    LET gained == score[i] + ((clock - lastRecover[i]) \div RecoveryInterval) * RecoveryAmount
    IN  IF gained > InitialScore THEN InitialScore ELSE gained

(* scoreboard.penalise: what is left, and whether that is a ban.           *)
Penalise(i, amount) ==
    LET left == Recovered(i) - amount IN
    [ban |-> left <= 0, score |-> IF left <= 0 THEN InitialScore \div 2 ELSE left]

(* Server.penalise: a ban closes and removes the peer in the table.        *)
Punish(i, amount) ==
    LET verdict == Penalise(i, amount) IN
    /\ score' = [score EXCEPT ![i] = verdict.score]
    /\ lastRecover' = [lastRecover EXCEPT ![i] = IF clock - @ >= RecoveryInterval THEN clock ELSE @]
    /\ bannedUntil' = [bannedUntil EXCEPT ![i] = IF verdict.ban THEN clock + BanDuration ELSE @]
    /\ peers' = IF verdict.ban THEN [peers EXCEPT ![i] = NoConn] ELSE peers
    /\ closed' = closed \cup IF verdict.ban /\ peers[i] # NoConn THEN {peers[i]} ELSE {}

Move(c, from, to) ==
    /\ stage[c] = from
    /\ stage' = [stage EXCEPT ![c] = to]

-----------------------------------------------------------------------------
PeersFrom(first) ==
    /\ clock = 0
    /\ stage = [c \in Conns |-> first]
    /\ closed = {}
    /\ peers = [i \in Ids |-> NoConn]
    /\ score = [i \in Ids |-> InitialScore]
    /\ lastRecover = [i \in Ids |-> 0]
    /\ bannedUntil = [i \in Ids |-> 0]
    /\ quit = FALSE

PeersInit == PeersFrom("none")

(* acceptLoop and dialLoop; handleConnectionAs refuses when the table is   *)
(* full.                                                                   *)
Connect(c) ==
    /\ ~quit
    /\ Move(c, "none", IF PeerCount >= MaxPeers THEN "done" ELSE "auth")
    /\ UNCHANGED <<clock, closed, peers, repVars, quit>>

(* performHandshake proves an identity, which may be a banned one.         *)
Authenticate(c) ==
    /\ Move(c, "auth", IF IsBanned(IdOf[c]) THEN "done" ELSE "status")
    /\ UNCHANGED <<clock, closed, peers, repVars, quit>>

(* Either handshake may fail, or run into its deadline.                    *)
HandshakeFails(c) ==
    /\ \E s \in {"auth", "status"} : Move(c, s, "done")
    /\ UNCHANGED <<clock, closed, peers, repVars, quit>>

(* The status messages agree.  One connection per identity is kept.        *)
Register(c) ==
    /\ IF peers[IdOf[c]] # NoConn
       THEN Move(c, "status", "done") /\ UNCHANGED peers
       ELSE Move(c, "status", "run") /\ peers' = [peers EXCEPT ![IdOf[c]] = c]
    /\ UNCHANGED <<clock, closed, repVars, quit>>

Runs(c) == stage[c] = "run" /\ c \notin closed

(* run: a message over the budget ends the connection.                     *)
Flood(c) ==
    /\ Runs(c)
    /\ Punish(IdOf[c], PenaltyFlood)
    /\ Move(c, "run", "ending")
    /\ UNCHANGED <<clock, quit>>

(* run: a message that handle refuses, and a peer's goodbye.               *)
BadMessage(c) ==
    /\ Runs(c)
    /\ Punish(IdOf[c], PenaltyBadMessage)
    /\ Move(c, "run", "ending")
    /\ UNCHANGED <<clock, quit>>

(* handle, on a block that does not verify: the first of two penalties;    *)
(* the error it returns is the second.                                     *)
InvalidBlock(c) ==
    /\ Runs(c)
    /\ Punish(IdOf[c], PenaltyInvalidBlock)
    /\ Move(c, "run", "failed")
    /\ UNCHANGED <<clock, quit>>

BlockError(c) ==
    /\ Punish(IdOf[c], PenaltyBadMessage)
    /\ Move(c, "failed", "ending")
    /\ UNCHANGED <<clock, quit>>

\* Variant with a fault: a reader whose peer was closed under it goes on reading.
LeaveOnlyItself(c) ==
    /\ c \in closed
    /\ Move(c, "run", "ending")
    /\ UNCHANGED <<clock, closed, peers, repVars, quit>>

(* run returns: the connection was closed here, the server stops, the      *)
(* other side hung up, or nothing came before the read deadline.           *)
Leave(c) ==
    /\ Move(c, "run", "ending")
    /\ UNCHANGED <<clock, closed, peers, repVars, quit>>

\* Variant with a fault: the table keeps the connection.
EndKeepsEntry(c) ==
    /\ Move(c, "ending", "done")
    /\ closed' = closed \cup {c}
    /\ UNCHANGED <<clock, peers, repVars, quit>>

(* The end of run and of handleConnectionAs, which removes its identity    *)
(* from the table.                                                         *)
End(c) ==
    /\ Move(c, "ending", "done")
    /\ closed' = closed \cup {c}
    /\ peers' = [peers EXCEPT ![IdOf[c]] = NoConn]
    /\ UNCHANGED <<clock, repVars, quit>>

(* Stop closes quit and every peer in the table, then waits.               *)
Stop ==
    /\ ~quit
    /\ quit' = TRUE
    /\ closed' = closed \cup {peers[i] : i \in {j \in Ids : peers[j] # NoConn}}
    /\ UNCHANGED <<clock, stage, peers, repVars>>

PeersTick ==
    /\ clock < MaxClock
    /\ clock' = clock + 1
    /\ UNCHANGED <<stage, closed, peers, repVars, quit>>

Handler(c) ==
    \/ Authenticate(c) \/ HandshakeFails(c) \/ Register(c) \/ BlockError(c) \/ Leave(c) \/ End(c)

PeersNext ==
    \/ \E c \in Conns : Connect(c) \/ Handler(c)
    \/ \E c \in Conns : Flood(c) \/ BadMessage(c) \/ InvalidBlock(c)
    \/ Stop
    \/ PeersTick

(* After Stop every goroutine comes to its next step: the handshakes and   *)
(* every read have a deadline.                                             *)
PeersFairness == \A c \in Conns : WF_netVars(Handler(c) /\ quit)

-----------------------------------------------------------------------------
(* A score is positive and at most what a peer starts with, and the table  *)
(* names connections.                                                      *)
PeersTypeOK ==
    /\ \A i \in Ids :
          /\ peers[i] \in Conns \cup {NoConn}
          /\ score[i] \in 1..InitialScore
          /\ lastRecover[i] <= clock
    /\ \A c \in Conns : stage[c] \in {"none", "auth", "status", "run", "failed", "ending", "done"}
    /\ closed \subseteq Conns

(* The table never names a connection that has ended, although three       *)
(* goroutines remove entries of it and two connections may claim one       *)
(* identity: a broadcast would go nowhere and PeerCount would fill up.     *)
EntriesAreLive ==
    \A i \in Ids : peers[i] # NoConn =>
        /\ IdOf[peers[i]] = i
        /\ stage[peers[i]] \in {"run", "failed", "ending"}

(* Stop returns: once it is called every connection handler comes to its   *)
(* end, at whatever point of its set-up Stop found it.                     *)
StopReturns == quit ~> (\A c \in Conns : stage[c] \in {"none", "done"})
=============================================================================
