--------------------------- MODULE NetworkProofs ---------------------------
(***************************************************************************)
(* What the table of connections and the proposers' rounds promise, proved *)
(* for every set of connections and of validators, every limit and         *)
(* penalty, every schedule and every difference between the clocks.        *)
(***************************************************************************)
EXTENDS Peers, ProposerRounds, TLAPS

PeersSpec == PeersInit /\ [][PeersNext]_netVars
RoundsSpec == RoundsInit /\ [][RoundsNext]_roundsVars

-----------------------------------------------------------------------------
(* The table of peers. *)

Stages == {"none", "auth", "status", "run", "failed", "ending", "done"}

(* The scores are positive, and the table is live. *)
Standing ==
    /\ score \in [Ids -> 1..InitialScore]
    /\ lastRecover \in [Ids -> Nat]
    /\ \A i \in Ids : lastRecover[i] <= clock

PeersInv ==
    /\ clock \in Nat
    /\ stage \in [Conns -> Stages]
    /\ closed \subseteq Conns
    /\ peers \in [Ids -> Conns \cup {NoConn}]
    /\ Standing
    /\ EntriesAreLive

(* penalise: recovery comes first and is capped, and whoever falls to zero *)
(* is banned and starts again with half, so a score is never zero.         *)
LEMMA PenaliseInRange ==
    ASSUME PeersInv, NEW i \in Ids, NEW amount \in Nat
    PROVE  Penalise(i, amount).score \in 1..InitialScore
  <1> DEFINE gap == (clock - lastRecover[i]) \div RecoveryInterval
             gained == score[i] + gap * RecoveryAmount
  <1>1. score[i] \in 1..InitialScore /\ clock - lastRecover[i] \in Nat
    BY DEF PeersInv, Standing
  <1>2. gap \in Nat
    BY <1>1, PeersAssumption
  <1>3. gap * RecoveryAmount \in Nat
    <2> HIDE DEF gap
    <2> QED BY <1>2, PeersAssumption
  <1>4. gained \in Nat
    <2> HIDE DEF gap
    <2> QED BY <1>1, <1>3, PeersAssumption
  <1>5. Recovered(i) \in Nat /\ Recovered(i) <= InitialScore
    <2>1. Recovered(i) = IF gained > InitialScore THEN InitialScore ELSE gained
      BY DEF Recovered
    <2> HIDE DEF gained
    <2> QED BY <1>4, <2>1, PeersAssumption
  <1>6. InitialScore \div 2 \in 1..InitialScore
    BY PeersAssumption
  <1> QED BY <1>5, <1>6, PeersAssumption DEF Penalise

(* Server.penalise leaves the standings in range, and changes the table *)
(* only by removing the one who is banned.                              *)
LEMMA PunishKeeps ==
    ASSUME PeersInv, NEW c \in Conns, NEW amount \in Nat, Punish(IdOf[c], amount), clock' = clock
    PROVE  /\ Standing'
           /\ closed' \subseteq Conns
           /\ peers' = peers \/ peers' = [peers EXCEPT ![IdOf[c]] = NoConn]
  <1> DEFINE i == IdOf[c]
             s == Penalise(i, amount).score
  <1>1. i \in Ids
    BY PeersAssumption
  <1>2. s \in 1..InitialScore
    BY <1>1, PenaliseInRange
  <1>3. score' = [score EXCEPT ![i] = s]
    BY DEF Punish
  <1>4. score' \in [Ids -> 1..InitialScore]
    <2> HIDE DEF s
    <2> QED BY <1>1, <1>2, <1>3 DEF PeersInv, Standing
  <1>5. lastRecover' \in [Ids -> Nat] /\ \A j \in Ids : lastRecover'[j] <= clock
    BY <1>1 DEF Punish, PeersInv, Standing
  <1>6. closed' \subseteq Conns
    BY <1>1 DEF Punish, PeersInv
  <1>7. peers' = peers \/ peers' = [peers EXCEPT ![i] = NoConn]
    BY DEF Punish
  <1> QED BY <1>4, <1>5, <1>6, <1>7 DEF Standing

(* The handler of c moves on while it may be in the table, which otherwise *)
(* only loses an entry.                                                    *)
LEMMA TableKeeps ==
    ASSUME PeersInv, NEW c \in Conns, NEW s \in {"run", "failed", "ending"},
           stage' = [stage EXCEPT ![c] = s],
           peers' = peers \/ peers' = [peers EXCEPT ![IdOf[c]] = NoConn]
    PROVE  /\ EntriesAreLive' /\ peers' \in [Ids -> Conns \cup {NoConn}]
           /\ stage' \in [Conns -> Stages]
  <1>1. peers' \in [Ids -> Conns \cup {NoConn}] /\ stage' \in [Conns -> Stages]
    BY PeersAssumption DEF PeersInv, Stages
  <1>2. \A i \in Ids : peers'[i] # NoConn => peers'[i] = peers[i] /\ peers[i] \in Conns
    BY PeersAssumption DEF PeersInv
  <1>3. \A d \in Conns : stage'[d] = stage[d] \/ stage'[d] \in {"run", "failed", "ending"}
    BY DEF PeersInv
  <1> QED BY <1>1, <1>2, <1>3 DEF EntriesAreLive, PeersInv

(* The handler of a connection that is not in the table moves on. *)
LEMMA OutsideTable ==
    ASSUME PeersInv, NEW c \in Conns, NEW s \in Stages,
           stage[c] \notin {"run", "failed", "ending"},
           stage' = [stage EXCEPT ![c] = s], peers' = peers
    PROVE  EntriesAreLive' /\ stage' \in [Conns -> Stages]
  <1>1. \A d \in Conns : stage'[d] = stage[d] \/ stage[d] \notin {"run", "failed", "ending"}
    BY DEF PeersInv
  <1>2. \A i \in Ids : peers[i] # NoConn => peers[i] \in Conns
    BY DEF PeersInv
  <1> QED BY <1>1, <1>2 DEF EntriesAreLive, PeersInv

LEMMA PeersInvNext == PeersInv /\ [PeersNext]_netVars => PeersInv'
  <1> SUFFICES ASSUME PeersInv, [PeersNext]_netVars PROVE PeersInv'
    OBVIOUS
  <1> USE PeersAssumption
  <1>1. ASSUME NEW c \in Conns, Connect(c) PROVE PeersInv'
    BY <1>1, OutsideTable, Zenon DEF Connect, Move, Stages, PeersInv, Standing, repVars
  <1>2. ASSUME NEW c \in Conns, Authenticate(c) PROVE PeersInv'
    BY <1>2, OutsideTable, Zenon DEF Authenticate, Move, Stages, PeersInv, Standing, repVars
  <1>3. ASSUME NEW c \in Conns, HandshakeFails(c) PROVE PeersInv'
    BY <1>3, OutsideTable, Zenon DEF HandshakeFails, Move, Stages, PeersInv, Standing, repVars
  <1>4. ASSUME NEW c \in Conns, Register(c) PROVE PeersInv'
    <2>1. CASE peers[IdOf[c]] # NoConn
      BY <1>4, <2>1, OutsideTable DEF Register, Move, Stages, PeersInv, Standing, repVars
    <2>2. CASE peers[IdOf[c]] = NoConn
      <3>1. stage' = [stage EXCEPT ![c] = "run"] /\ peers' = [peers EXCEPT ![IdOf[c]] = c]
            /\ UNCHANGED <<clock, closed, score, lastRecover>>
        BY <1>4, <2>2 DEF Register, Move, repVars
      <3>2. peers' \in [Ids -> Conns \cup {NoConn}] /\ stage' \in [Conns -> Stages]
        BY <3>1 DEF PeersInv, Stages
      <3>3. EntriesAreLive'
        BY <3>1, <3>2 DEF EntriesAreLive, PeersInv
      <3> QED BY <3>1, <3>2, <3>3 DEF PeersInv, Standing
    <2> QED BY <2>1, <2>2
  <1>5. ASSUME NEW c \in Conns, NEW amount \in Nat, NEW s \in {"failed", "ending"},
               Punish(IdOf[c], amount), clock' = clock, stage' = [stage EXCEPT ![c] = s]
        PROVE  PeersInv'
    BY <1>5, PunishKeeps, TableKeeps, Zenon DEF PeersInv
  <1>6. ASSUME NEW c \in Conns, Flood(c) \/ BadMessage(c) \/ InvalidBlock(c) \/ BlockError(c) PROVE PeersInv'
    BY <1>5, <1>6 DEF Flood, BadMessage, InvalidBlock, BlockError, Move
  <1>7. ASSUME NEW c \in Conns, Leave(c) PROVE PeersInv'
    BY <1>7, TableKeeps, Zenon DEF Leave, Move, PeersInv, Standing, repVars
  <1>8. ASSUME NEW c \in Conns, End(c) PROVE PeersInv'
    <2>1. stage' = [stage EXCEPT ![c] = "done"] /\ peers' = [peers EXCEPT ![IdOf[c]] = NoConn]
          /\ closed' = closed \cup {c} /\ UNCHANGED <<clock, score, lastRecover>>
      BY <1>8 DEF End, Move, repVars
    <2>2. peers' \in [Ids -> Conns \cup {NoConn}] /\ stage' \in [Conns -> Stages]
      BY <2>1 DEF PeersInv, Stages
    <2>3. \A i \in Ids : peers'[i] # NoConn => peers'[i] = peers[i] /\ peers[i] \in Conns \ {c}
      BY <2>1 DEF PeersInv, EntriesAreLive
    <2>4. EntriesAreLive'
      BY <2>1, <2>3 DEF EntriesAreLive, PeersInv
    <2> QED BY <2>1, <2>2, <2>4 DEF PeersInv, Standing
  <1>9. CASE Stop
    BY <1>9 DEF Stop, PeersInv, Standing, EntriesAreLive, repVars
  <1>10. CASE PeersTick
    BY <1>10 DEF PeersTick, PeersInv, Standing, EntriesAreLive, repVars
  <1>11. CASE UNCHANGED netVars
    BY <1>11 DEF netVars, PeersInv, Standing, EntriesAreLive
  <1> QED BY <1>1, <1>2, <1>3, <1>4, <1>6, <1>7, <1>8, <1>9, <1>10, <1>11 DEF PeersNext, Handler

(* The inductive invariant of the table and the scoreboard.  It includes    *)
(* that no score ever reaches zero: penalise turns the fall into a ban and  *)
(* gives half of the initial score back.                                    *)
THEOREM PeersInvariant == PeersSpec => []PeersInv
  <1>1. PeersInit => PeersInv
    BY PeersAssumption DEF PeersInit, PeersFrom, PeersInv, Standing, EntriesAreLive, Stages
  <1> QED BY <1>1, PeersInvNext, PTL DEF PeersSpec

(* handleConnectionAs and penalise: whichever of the goroutines removes an  *)
(* entry, and whoever claims an identity a second time, the table names no  *)
(* connection that has ended.                                               *)
THEOREM EntriesAlwaysLive == PeersSpec => []EntriesAreLive
  <1>1. PeersInv => EntriesAreLive
    BY DEF PeersInv
  <1> QED BY <1>1, PeersInvariant, PTL

-----------------------------------------------------------------------------
(* The proposers' rounds. *)

(* What a header states that passes VerifyHeader but for the clock. *)
Timely(b) ==
    /\ b.number \in Nat /\ b.time \in Int /\ b.round \in Nat
    /\ b.parent.number \in Nat /\ b.parent.time \in Int
    /\ b.number = b.parent.number + 1
    /\ b.round <= N
    /\ b.time >= EarliestTimeFor(b.parent.time, b.round)
    /\ b.coinbase = ProposerAtRound(b.number, b.round)

(* v's earlier blocks are below height h. *)
SealedBelow(v, h) == \A b \in sealed : b.coinbase = v => b.number < h

(* No validator seals twice at one height: its own block is its head, or    *)
(* below it, from the moment it is sealed, and every attempt starts from a  *)
(* head read before it could be.                                            *)
RoundsInv ==
    /\ now \in Int
    /\ DOMAIN tip = Validators /\ DOMAIN pc = Validators /\ DOMAIN work = Validators
    /\ \A v \in Validators :
          /\ tip[v].number \in Nat /\ tip[v].time \in Int
          /\ SealedBelow(v, tip[v].number + 1)
          /\ pc[v] = "prepare" =>
                work[v].number \in Nat /\ work[v].time \in Int /\ SealedBelow(v, work[v].number + 1)
          /\ pc[v] = "seal" =>
                /\ Timely(work[v]) /\ SealedBelow(v, work[v].number)
                /\ work[v].round > 0 => Clock(v) >= EarliestTimeFor(work[v].parent.time, work[v].round)
    /\ \A b \in sealed :
          /\ Timely(b) /\ b.coinbase \in Validators
          /\ b.time <= Clock(b.coinbase) + Drift
    /\ \A b, c \in sealed : b.coinbase = c.coinbase /\ b.number = c.number => b = c

(* A quotient, multiplied back, is no more than what was divided. *)
LEMMA DivisionBelow ==
    ASSUME NEW n \in Nat, NEW q \in Nat \ {0}
    PROVE  n \div q \in Nat /\ q * (n \div q) <= n
  <1>1. n \div q \in Nat /\ n % q \in Nat /\ n = q * (n \div q) + (n % q)
    OBVIOUS
  <1> DEFINE d == n \div q
             m == n % q
  <1> HIDE DEF d, m
  <1>2. d \in Nat /\ m \in Nat /\ n = q * d + m
    BY <1>1 DEF d, m
  <1>3. q * d \in Nat
    BY <1>2
  <1>4. q * d <= n
    BY <1>2, <1>3
  <1> QED BY <1>2, <1>4 DEF d

(* The same factor keeps the order. *)
LEMMA ProductMonotone ==
    ASSUME NEW m \in Nat, NEW n \in Nat, m <= n, NEW q \in Nat
    PROVE  m * q <= q * n
  <1>1. PICK d \in Nat : n = m + d
    <2>1. n - m \in Nat /\ n = m + (n - m)
      OBVIOUS
    <2> QED BY <2>1
  <1>2. q * n = m * q + q * d /\ q * d \in Nat /\ m * q \in Nat
    BY <1>1
  <1> QED BY <1>2

(* RoundFor: the round it names has opened, unless it is the first. *)
LEMMA RoundHasOpened ==
    ASSUME NEW t \in Int, NEW at \in Int, NEW r, r = Capped(RoundFor(t, at))
    PROVE  /\ r \in Nat /\ r <= N
           /\ EarliestTimeFor(t, r) \in Int
           /\ r > 0 => at >= EarliestTimeFor(t, r)
  <1> DEFINE e == EarliestTimeFor(t, 0)
             q == (at - e) \div RoundTimeout
  <1>1. N \in Nat
    BY RoundsAssumption DEF N
  <1>2. e = t + Period /\ e \in Int
    BY RoundsAssumption DEF EarliestTimeFor
  <1>3. RoundFor(t, at) = IF at <= e THEN 0 ELSE q
    BY DEF RoundFor
  <1>4. at > e => q \in Nat /\ RoundTimeout * q <= at - e
    <2> HIDE DEF e
    <2> SUFFICES ASSUME at > e PROVE q \in Nat /\ RoundTimeout * q <= at - e
      OBVIOUS
    <2>1. at - e \in Nat
      BY <1>2
    <2> QED BY <2>1, DivisionBelow, RoundsAssumption, Zenon
  <1> HIDE DEF e, q
  <1>5. r \in Nat /\ r <= N /\ (r > 0 => at > e /\ r <= q)
    BY <1>1, <1>2, <1>3, <1>4 DEF Capped
  <1>6. r * RoundTimeout \in Nat
    BY <1>5, RoundsAssumption
  <1>7. EarliestTimeFor(t, r) = e + r * RoundTimeout
    BY <1>2, <1>5, <1>6, RoundsAssumption DEF EarliestTimeFor
  <1>8. ASSUME r > 0 PROVE at >= e + r * RoundTimeout
    <2>1. at > e /\ r <= q /\ q \in Nat /\ RoundTimeout * q <= at - e
      BY <1>4, <1>5, <1>8
    <2>2. r * RoundTimeout <= RoundTimeout * q
      BY <1>5, <2>1, ProductMonotone, RoundsAssumption
    <2> QED BY <1>2, <1>6, <2>1, <2>2, RoundsAssumption
  <1> QED BY <1>2, <1>5, <1>6, <1>7, <1>8

(* The opening of a round is a time. *)
LEMMA EarliestIsInt ==
    ASSUME NEW t \in Int, NEW r \in Nat
    PROVE  EarliestTimeFor(t, r) \in Int
  <1>1. r * RoundTimeout \in Nat
    BY RoundsAssumption
  <1> QED BY <1>1, RoundsAssumption DEF EarliestTimeFor

(* Prepare on any parent gives a header that keeps the rules. *)
LEMMA PreparedIsTimely ==
    ASSUME RoundsInv, NEW v \in Validators, NEW p, p.number \in Nat, p.time \in Int,
           NEW h, h = Prepare(v, p)
    PROVE  /\ Timely(h) /\ h.number = p.number + 1 /\ h.parent = p
           /\ h.round > 0 => Clock(v) >= EarliestTimeFor(p.time, h.round)
  <1> DEFINE r == Capped(RoundFor(p.time, Clock(v)))
             e == EarliestTimeFor(p.time, r)
             t == IF Clock(v) < e THEN e ELSE Clock(v)
             who == ProposerAtRound(p.number + 1, r)
  <1>1. Clock(v) \in Int
    BY RoundsAssumption DEF Clock, RoundsInv
  <1>2. h = [number |-> p.number + 1, round |-> r, time |-> t, coinbase |-> who, parent |-> p]
    BY DEF Prepare
  <1> HIDE DEF r
  <1>3. r \in Nat /\ r <= N /\ e \in Int /\ (r > 0 => Clock(v) >= e)
    BY <1>1, RoundHasOpened, Zenon DEF r
  <1> HIDE DEF e
  <1>4. t \in Int /\ t >= e
    BY <1>1, <1>3
  <1> HIDE DEF t, who
  <1>5. h.number = p.number + 1 /\ h.round = r /\ h.time = t /\ h.coinbase = who /\ h.parent = p
    BY <1>2
  <1>6. Timely(h)
    <2>1. h.number \in Nat /\ h.time \in Int /\ h.round \in Nat /\ h.round <= N
          /\ h.parent.number \in Nat /\ h.parent.time \in Int /\ h.number = h.parent.number + 1
      BY <1>3, <1>4, <1>5
    <2>2. h.time >= EarliestTimeFor(h.parent.time, h.round)
      BY <1>4, <1>5 DEF e
    <2>3. h.coinbase = ProposerAtRound(h.number, h.round)
      BY <1>5 DEF who
    <2> QED BY <2>1, <2>2, <2>3 DEF Timely
  <1> QED BY <1>3, <1>5, <1>6 DEF e

(* What v's attempt holds at label l with w in hand. *)
AttemptOK(v, l, w) ==
    /\ l = "prepare" =>
          w.number \in Nat /\ w.time \in Int /\ SealedBelow(v, w.number + 1)
    /\ l = "seal" =>
          /\ Timely(w) /\ SealedBelow(v, w.number)
          /\ w.round > 0 => Clock(v) >= EarliestTimeFor(w.parent.time, w.round)

(* An attempt moves on and the chains stay. *)
LEMMA GotoKeeps ==
    ASSUME RoundsInv, NEW v \in Validators, NEW l, NEW w, Goto(v, l, w), AttemptOK(v, l, w),
           UNCHANGED <<now, draw, tip, sealed>>
    PROVE  RoundsInv'
  <1>1. DOMAIN pc' = Validators /\ DOMAIN work' = Validators
        /\ pc'[v] = l /\ work'[v] = w
        /\ \A u \in Validators \ {v} : pc'[u] = pc[u] /\ work'[u] = work[u]
    BY Zenon DEF Goto, RoundsInv
  <1>2. \A b : Timely(b)' <=> Timely(b)
    BY DEF Timely, ProposerAtRound
  <1>3. (\A u, h : SealedBelow(u, h)' <=> SealedBelow(u, h)) /\ (\A u : Clock(u)' = Clock(u))
    BY DEF SealedBelow, Clock
  <1>4. ASSUME NEW u \in Validators
        PROVE  /\ pc'[u] = "prepare" =>
                    work'[u].number \in Nat /\ work'[u].time \in Int /\ SealedBelow(u, work'[u].number + 1)
               /\ pc'[u] = "seal" =>
                    /\ Timely(work'[u]) /\ SealedBelow(u, work'[u].number)
                    /\ work'[u].round > 0 => Clock(u) >= EarliestTimeFor(work'[u].parent.time, work'[u].round)
    BY <1>1 DEF AttemptOK, RoundsInv
  <1> QED BY <1>1, <1>4, Zenon DEF RoundsInv, SealedBelow, Timely, ProposerAtRound, Clock

(* Insert only ever raises a head. *)
LEMMA InsertRaises ==
    ASSUME RoundsInv, NEW w \in Validators, NEW b, b.number \in Nat, b.time \in Int, Insert(w, b)
    PROVE  /\ DOMAIN tip' = Validators
           /\ \A v \in Validators : tip'[v].number \in Nat /\ tip'[v].time \in Int
                                    /\ tip'[v].number >= tip[v].number
           /\ tip'[w].number >= b.number
  BY DEF Insert, RoundsInv

(* Seal: the block is above everything its validator sealed before. *)
LEMMA SealStep ==
    ASSUME RoundsInv, NEW v \in Validators, Seal(v)
    PROVE  /\ RoundsInv'
           /\ \A b \in sealed' \ sealed : b.coinbase = v /\ b = work[v] /\ pc[v] = "seal"
  <1> DEFINE h == work[v]
             ok == ProposerAtRound(h.number, h.round) = v /\ VerifyHeader(v, h)
  <1>1. pc[v] = "seal" /\ Timely(h) /\ SealedBelow(v, h.number)
    BY DEF Seal, RoundsInv
  <1>2. Goto(v, "idle", Nobody) /\ now' = now /\ draw' = draw
    BY DEF Seal
  <1>3. CASE ~ok
    <2>1. UNCHANGED <<now, draw, tip, sealed>>
      BY <1>2, <1>3 DEF Seal
    <2>2. AttemptOK(v, "idle", Nobody)
      BY DEF AttemptOK
    <2> QED BY <1>2, <2>1, <2>2, GotoKeeps
  <1>4. CASE ok
    <2>1. Insert(v, h) /\ sealed' = sealed \cup {h}
      BY <1>4 DEF Seal
    <2>2. h.coinbase = v /\ h.time <= Clock(v) + Drift /\ h.number \in Nat /\ h.time \in Int
      BY <1>1, <1>4 DEF VerifyHeader, Timely
    <2> HIDE DEF h, ok
    <2>3. /\ DOMAIN tip' = Validators
          /\ \A u \in Validators : tip'[u].number \in Nat /\ tip'[u].time \in Int
                                   /\ tip'[u].number >= tip[u].number
          /\ tip'[v].number >= h.number
      BY <2>1, <2>2, InsertRaises
    <2>4. DOMAIN pc' = Validators /\ DOMAIN work' = Validators
          /\ pc'[v] = "idle"
          /\ \A u \in Validators \ {v} : pc'[u] = pc[u] /\ work'[u] = work[u]
      BY <1>2 DEF Goto, RoundsInv
    <2>5. (\A b : Timely(b)' <=> Timely(b)) /\ (\A u : Clock(u)' = Clock(u))
      BY <1>2 DEF Timely, ProposerAtRound, Clock
    <2>6. \A u \in Validators \ {v} : \A n : SealedBelow(u, n)' <=> SealedBelow(u, n)
      BY <2>1, <2>2 DEF SealedBelow
    <2>7. ASSUME NEW u \in Validators
          PROVE  SealedBelow(u, tip[u].number + 1)'
      <3>1. \A b \in sealed : b.coinbase = u => b.number \in Nat /\ b.number < tip[u].number + 1
        BY DEF RoundsInv, SealedBelow, Timely
      <3>2. tip[u].number \in Nat
        BY DEF RoundsInv
      <3>3. \A b \in sealed' : b.coinbase = u => b.number < tip'[u].number + 1
        BY <2>1, <2>2, <2>3, <3>1, <3>2
      <3> QED BY <3>3 DEF SealedBelow
    <2>8. ASSUME NEW u \in Validators, pc'[u] = "prepare"
          PROVE  work'[u].number \in Nat /\ work'[u].time \in Int /\ SealedBelow(u, work[u].number + 1)'
      <3>1. u # v /\ pc[u] = "prepare" /\ work'[u] = work[u]
        BY <2>4, <2>8
      <3>2. work[u].number \in Nat /\ work[u].time \in Int /\ SealedBelow(u, work[u].number + 1)
        BY <3>1 DEF RoundsInv
      <3> QED BY <2>1, <2>2, <3>1, <3>2 DEF SealedBelow
    <2>9. ASSUME NEW u \in Validators, pc'[u] = "seal"
          PROVE  /\ Timely(work[u])' /\ SealedBelow(u, work[u].number)'
                 /\ work'[u].round > 0 => Clock(u) >= EarliestTimeFor(work'[u].parent.time, work'[u].round)
      <3>1. u # v /\ pc[u] = "seal" /\ work'[u] = work[u]
        BY <2>4, <2>9
      <3>2. Timely(work[u]) /\ SealedBelow(u, work[u].number)
            /\ (work[u].round > 0 => Clock(u) >= EarliestTimeFor(work[u].parent.time, work[u].round))
        BY <3>1 DEF RoundsInv
      <3>3. SealedBelow(u, work[u].number)'
        BY <2>1, <2>2, <3>1, <3>2 DEF SealedBelow
      <3>4. Timely(work[u])'
        BY <1>2, <3>1, <3>2 DEF Timely, ProposerAtRound
      <3> QED BY <3>1, <3>2, <3>3, <3>4
    <2>10. ASSUME NEW b \in sealed'
           PROVE  Timely(b)' /\ b.coinbase \in Validators /\ b.time <= Clock(b.coinbase)' + Drift
      <3>1. Timely(b) /\ b.coinbase \in Validators /\ b.time <= Clock(b.coinbase) + Drift
        BY <1>1, <2>1, <2>2 DEF RoundsInv, h
      <3> QED BY <1>2, <3>1, Zenon DEF Timely, ProposerAtRound, Clock
    <2>11. \A b, c \in sealed' : b.coinbase = c.coinbase /\ b.number = c.number => b = c
      <3>1. \A b \in sealed : b.coinbase = v => b.number \in Nat /\ b.number < h.number
        BY <1>1 DEF RoundsInv, SealedBelow, Timely, h
      <3>2. ASSUME NEW b \in sealed, b.coinbase = v, b.number = h.number PROVE FALSE
        <4>1. b.number \in Nat /\ b.number < h.number
          BY <3>1, <3>2
        <4> QED BY <3>2, <4>1
      <3> QED BY <2>1, <2>2, <3>2 DEF RoundsInv
    <2>12. now' \in Int
      BY <1>2 DEF RoundsInv
    <2>13. RoundsInv'
      BY <2>3, <2>4, <2>5, <2>7, <2>8, <2>9, <2>10, <2>11, <2>12, Zenon DEF RoundsInv, SealedBelow, Timely
    <2> QED BY <1>1, <2>1, <2>2, <2>13 DEF h
  <1> QED BY <1>3, <1>4

(* The other steps. *)
LEMMA RoundsInvNext == RoundsInv /\ [RoundsNext]_roundsVars => RoundsInv'
  <1> SUFFICES ASSUME RoundsInv, [RoundsNext]_roundsVars PROVE RoundsInv'
    OBVIOUS
  <1>1. ASSUME NEW v \in Validators, TryPropose(v) PROVE RoundsInv'
    BY <1>1, GotoKeeps DEF TryPropose, AttemptOK
  <1>2. ASSUME NEW v \in Validators, BuildBlock(v) PROVE RoundsInv'
    <2>1. UNCHANGED <<now, draw, tip, sealed>> /\ (Goto(v, "prepare", tip[v]) \/ Goto(v, "idle", Nobody))
      BY <1>2 DEF BuildBlock
    <2>2. AttemptOK(v, "prepare", tip[v]) /\ AttemptOK(v, "idle", Nobody)
      BY DEF AttemptOK, RoundsInv
    <2> QED BY <2>1, <2>2, GotoKeeps
  <1>3. ASSUME NEW v \in Validators, PrepareHeader(v) PROVE RoundsInv'
    <2> DEFINE p == work[v]
               h == Prepare(v, p)
    <2>1. pc[v] = "prepare" /\ Goto(v, "seal", h) /\ UNCHANGED <<now, draw, tip, sealed>>
      BY <1>3, Zenon DEF PrepareHeader
    <2>2. p.number \in Nat /\ p.time \in Int /\ SealedBelow(v, p.number + 1)
      BY <2>1 DEF RoundsInv
    <2> HIDE DEF h, p
    <2>3. Timely(h) /\ h.number = p.number + 1 /\ h.parent = p
          /\ (h.round > 0 => Clock(v) >= EarliestTimeFor(p.time, h.round))
      BY <2>2, PreparedIsTimely DEF h
    <2>4. AttemptOK(v, "seal", h)
      BY <2>2, <2>3 DEF AttemptOK
    <2> QED BY <2>1, <2>4, GotoKeeps
  <1>4. ASSUME NEW w \in Validators, NEW b \in sealed, ImportBlock(w, b) PROVE RoundsInv'
    <2>1. Insert(w, b) /\ UNCHANGED <<now, draw, sealed, pc, work>>
      BY <1>4, Zenon DEF ImportBlock
    <2>2. b.number \in Nat /\ b.time \in Int
      BY Zenon DEF RoundsInv, Timely
    <2>3. DOMAIN tip' = Validators
          /\ \A v \in Validators : tip'[v].number \in Nat /\ tip'[v].time \in Int
                                   /\ tip'[v].number >= tip[v].number
      BY <2>1, <2>2, InsertRaises
    <2>4. \A v \in Validators : \A c \in sealed : c.coinbase = v => c.number < tip'[v].number + 1
      <3>1. \A v \in Validators : tip[v].number \in Nat
                /\ \A c \in sealed : c.coinbase = v => c.number \in Nat /\ c.number < tip[v].number + 1
        BY DEF RoundsInv, SealedBelow, Timely
      <3> QED BY <2>3, <3>1
    <2> QED BY <2>1, <2>3, <2>4, Zenon DEF RoundsInv, SealedBelow, Timely, ProposerAtRound, Clock
  <1>5. ASSUME NEW v \in Validators, Crash(v) PROVE RoundsInv'
    BY <1>5, GotoKeeps DEF Crash, AttemptOK
  <1>6. ASSUME NEW v \in Validators, Restart(v) PROVE RoundsInv'
    BY <1>6, Zenon DEF Restart, RoundsInv, SealedBelow, Timely, ProposerAtRound, Clock
  <1>7. ASSUME Tick PROVE RoundsInv'
    <2>1. now' = now + 1 /\ now \in Int /\ UNCHANGED <<draw, tip, sealed, pc, work>>
      BY <1>7, Zenon DEF Tick, RoundsInv
    <2>2. \A v \in Validators : Clock(v) \in Int /\ Clock(v)' \in Int /\ Clock(v)' >= Clock(v)
      BY <2>1, RoundsAssumption DEF Clock
    <2>3. (\A b : Timely(b)' <=> Timely(b)) /\ (\A v, h : SealedBelow(v, h)' <=> SealedBelow(v, h))
      BY <2>1 DEF Timely, ProposerAtRound, SealedBelow
    <2>4. ASSUME NEW b \in sealed PROVE b.coinbase \in Validators /\ b.time <= Clock(b.coinbase)' + Drift
      <3>1. b.coinbase \in Validators /\ b.time \in Int /\ b.time <= Clock(b.coinbase) + Drift
        BY DEF RoundsInv, Timely
      <3> QED BY <2>2, <3>1, RoundsAssumption
    <2>5. ASSUME NEW v \in Validators, pc[v] = "seal", work[v].round > 0
          PROVE  Clock(v)' >= EarliestTimeFor(work[v].parent.time, work[v].round)
      <3>1. Clock(v) >= EarliestTimeFor(work[v].parent.time, work[v].round)
            /\ work[v].parent.time \in Int /\ work[v].round \in Nat
        BY <2>5 DEF RoundsInv, Timely
      <3>2. EarliestTimeFor(work[v].parent.time, work[v].round) \in Int
        BY <3>1, EarliestIsInt, Zenon
      <3> QED BY <2>2, <3>1, <3>2
    <2>6. ASSUME NEW v \in Validators
          PROVE  /\ tip'[v].number \in Nat /\ tip'[v].time \in Int
                 /\ SealedBelow(v, tip[v].number + 1)'
                 /\ pc'[v] = "prepare" =>
                      work'[v].number \in Nat /\ work'[v].time \in Int /\ SealedBelow(v, work[v].number + 1)'
                 /\ pc'[v] = "seal" => Timely(work[v])' /\ SealedBelow(v, work[v].number)'
      BY <2>1 DEF RoundsInv, Timely, ProposerAtRound, SealedBelow
    <2>7. \A b \in sealed' : Timely(b)' /\ b.coinbase \in Validators /\ b.time <= Clock(b.coinbase)' + Drift
      BY <2>1, <2>3, <2>4, Zenon DEF RoundsInv
    <2>8. \A b, c \in sealed' : b.coinbase = c.coinbase /\ b.number = c.number => b = c
      BY <2>1, Zenon DEF RoundsInv
    <2>9. DOMAIN tip' = Validators /\ DOMAIN pc' = Validators /\ DOMAIN work' = Validators /\ now' \in Int
      <3>1. now' \in Int
        BY <2>1
      <3> QED BY <2>1, <3>1, Zenon DEF RoundsInv
    <2>10. ASSUME NEW v \in Validators, pc'[v] = "seal", work'[v].round > 0
           PROVE  Clock(v)' >= EarliestTimeFor(work'[v].parent.time, work'[v].round)
      BY <2>1, <2>5, <2>10
    <2> QED BY <2>6, <2>7, <2>8, <2>9, <2>10, Zenon DEF RoundsInv
  <1>8. CASE UNCHANGED roundsVars
    BY <1>8, Zenon DEF roundsVars, RoundsInv, SealedBelow, Timely, ProposerAtRound, Clock
  <1> QED BY <1>1, <1>2, <1>3, <1>4, <1>5, <1>6, <1>7, <1>8, SealStep, Zenon DEF RoundsNext, Step

(* The inductive invariant of the rounds. *)
THEOREM RoundsInvariant == RoundsSpec => []RoundsInv
  <1>1. RoundsInit => RoundsInv
    BY RoundsAssumption DEF RoundsInit, RoundsFrom, RoundsInv, SealedBelow, Root
  <1> QED BY <1>1, RoundsInvNext, PTL DEF RoundsSpec

(* tryPropose and Commit: no validator seals two blocks of one height, let  *)
(* alone two on one parent, although the clock is read three times in an    *)
(* attempt, the head may move in between, a crash may end it, and the draw  *)
(* or the rotation may give the validator several rounds of the height.     *)
THEOREM OneBlockPerParentAlways ==
    RoundsSpec => [](/\ OneBlockPerParent
                     /\ \A b, c \in sealed : b.coinbase = c.coinbase /\ b.number = c.number => b = c)
  <1>1. RoundsInv => /\ OneBlockPerParent
                     /\ \A b, c \in sealed : b.coinbase = c.coinbase /\ b.number = c.number => b = c
    <2> SUFFICES ASSUME RoundsInv, NEW b \in sealed, NEW c \in sealed,
                        b.coinbase = c.coinbase, b.parent = c.parent
                 PROVE  b = c
      BY DEF OneBlockPerParent, RoundsInv
    <2>1. b.number = c.number
      BY DEF RoundsInv, Timely
    <2> QED BY <2>1 DEF RoundsInv
  <1> QED BY <1>1, RoundsInvariant, PTL

(* earliestTimeFor "stops it from racing the validator whose turn it is": a *)
(* fallback block is sealed only when every round before its own has lapsed *)
(* on its proposer's clock.                                                 *)
THEOREM TurnsAlwaysWaitedOut == RoundsSpec => TurnsAreWaitedOut
  <1> DEFINE Waited == \A b \in sealed' \ sealed : b.round > 0 =>
                          now + Skew[b.coinbase] >= EarliestTimeFor(b.parent.time, b.round)
  <1>1. RoundsInv /\ [RoundsNext]_roundsVars => [Waited]_roundsVars
    <2> SUFFICES ASSUME RoundsInv, RoundsNext, NEW b \in sealed' \ sealed, b.round > 0
                 PROVE  now + Skew[b.coinbase] >= EarliestTimeFor(b.parent.time, b.round)
      OBVIOUS
    <2>1. PICK v \in Validators : Seal(v)
      BY Zenon DEF RoundsNext, Step, TryPropose, BuildBlock, PrepareHeader, ImportBlock, Crash, Restart, Tick
    <2>2. b.coinbase = v /\ b = work[v] /\ pc[v] = "seal"
      BY <2>1, SealStep
    <2> QED BY <2>2 DEF RoundsInv, Clock
  <1>2. TurnsAreWaitedOut <=> [][Waited]_roundsVars
    BY DEF TurnsAreWaitedOut
  <1> QED BY <1>1, <1>2, RoundsInvariant, PTL DEF RoundsSpec

(* Prepare and VerifyHeader agree: a sealed block passes VerifyHeader on    *)
(* every validator whose clock is not behind its proposer's, from the       *)
(* moment it is sealed and for good.                                        *)
THEOREM SealedPassesUnlessBehind ==
    RoundsSpec => [](\A b \in sealed, w \in Validators :
                        Skew[w] >= Skew[b.coinbase] => VerifyHeader(w, b))
  <1>1. RoundsInv => \A b \in sealed, w \in Validators :
                        Skew[w] >= Skew[b.coinbase] => VerifyHeader(w, b)
    <2> SUFFICES ASSUME RoundsInv, NEW b \in sealed, NEW w \in Validators, Skew[w] >= Skew[b.coinbase]
                 PROVE  VerifyHeader(w, b)
      OBVIOUS
    <2>1. Timely(b) /\ b.coinbase \in Validators /\ b.time <= Clock(b.coinbase) + Drift /\ now \in Int
      BY DEF RoundsInv
    <2>2. b.time <= Clock(w) + Drift
      BY <2>1, RoundsAssumption DEF Clock, Timely
    <2> QED BY <2>1, <2>2 DEF VerifyHeader, Timely
  <1> QED BY <1>1, RoundsInvariant, PTL

(* What honest proposers send is accepted by all, one block per parent and  *)
(* in turn, whatever the schedule, the timeouts, the crashes and the order  *)
(* of arrival, if the validators' clocks agree.                             *)
THEOREM ProposersAlwaysKeepTheirTurns ==
    ASSUME \A v, w \in Validators : Skew[v] = Skew[w]
    PROVE  RoundsSpec => ProposersKeepTheirTurns
  <1>1. RoundsInv => SealedIsAccepted
    <2> SUFFICES ASSUME RoundsInv, NEW b \in sealed, NEW w \in Validators
                 PROVE  VerifyHeader(w, b)
      BY DEF SealedIsAccepted
    <2>1. Timely(b) /\ b.coinbase \in Validators /\ b.time <= Clock(b.coinbase) + Drift
      BY DEF RoundsInv
    <2>2. Clock(w) = Clock(b.coinbase)
      BY <2>1 DEF Clock
    <2> QED BY <2>1, <2>2 DEF VerifyHeader, Timely
  <1>2. ProposersKeepTheirTurns <=> ([](SealedIsAccepted /\ OneBlockPerParent) /\ TurnsAreWaitedOut)
    BY DEF ProposersKeepTheirTurns
  <1> QED BY <1>1, <1>2, RoundsInvariant, OneBlockPerParentAlways, TurnsAlwaysWaitedOut, PTL

=============================================================================
