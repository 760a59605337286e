--------------------------- MODULE ProposerRounds ---------------------------
(***************************************************************************)
(* The block timing rules of consensus.PoA and the proposers that follow   *)
(* them: node.tryPropose and miner.Builder.  A height opens one round      *)
(* after another, each with a proposer of its own; every check of the turn *)
(* reads the clock again, and every validator has its own clock.           *)
(*                                                                         *)
(* Blocks carry what the rules read.  Fork choice is Chain's: a strictly   *)
(* higher block becomes the head.  Votes and finality are FinalityNet's.   *)
(***************************************************************************)
EXTENDS Integers, FiniteSets, Sequences

CONSTANTS
    Order,          \* the validator set, sorted by address
    Draws,          \* what the chain may answer for a proposer; NoDraw: it cannot
    NoDraw,
    Period,         \* seconds between blocks
    RoundTimeout,   \* seconds a round lasts
    Drift,          \* AllowedFutureDrift
    Skew,           \* how far each validator's clock is ahead of real time
    Reliable,       \* the validators that never stop
    MaxHeight, MaxTime, MaxCrashes, Nobody

VARIABLES
    now,            \* real time
    draw,           \* the epoch's randomness: the proposer of each height and round
    up,             \* the validators that run
    crashes,        \* how many validators have stopped so far
    tip, known,    \* each validator's chain
    sealed,         \* the blocks sealed so far
    pc,             \* where each validator's tryPropose is
    work,           \* the parent or the header it works on
    late,           \* whether the clock moved since it began
    since           \* when, by its clock, a validator's head became its head

roundsVars == <<now, draw, up, crashes, tip, known, sealed, pc, work, late, since>>

N == Len(Order)
Validators == {Order[i] : i \in 1..N}
Clock(v) == now + Skew[v]

ASSUME RoundsAssumption ==
    /\ Order \in Seq(Validators) /\ Skew \in [Validators -> Int]
    /\ Period \in Nat /\ RoundTimeout \in Nat \ {0} /\ Drift \in Nat

Root == [number |-> 0, round |-> 0, time |-> 0, coinbase |-> Nobody, parent |-> Nobody]

-----------------------------------------------------------------------------
(* The proposer is drawn by stake from the epoch's randomness, or taken in *)
(* rotation where the chain cannot answer.                                 *)
ProposerAtRound(number, round) ==
    IF draw # NoDraw THEN draw[number][round] ELSE Order[((number + round) % N) + 1]

EarliestTimeFor(parentTime, round) == parentTime + Period + round * RoundTimeout

RoundFor(parentTime, at) ==
    LET earliest == EarliestTimeFor(parentTime, 0) IN
    IF at <= earliest THEN 0 ELSE (at - earliest) \div RoundTimeout

Capped(round) == IF round > N THEN N ELSE round

\* Variant with a fault: the turn stays with the proposer of the first round.
IsMyTurnFirst(v, number, parentTime) == ProposerAtRound(number, 0) = v

IsMyTurn(v, number, parentTime) ==
    ProposerAtRound(number, Capped(RoundFor(parentTime, Clock(v)))) = v

(* Prepare: the fields of the header that the engine decides.              *)
Prepare(v, parent) ==
    LET round == Capped(RoundFor(parent.time, Clock(v)))
        earliest == EarliestTimeFor(parent.time, round)
    IN  [number   |-> parent.number + 1,
         round    |-> round,
         time     |-> IF Clock(v) < earliest THEN earliest ELSE Clock(v),
         coinbase |-> ProposerAtRound(parent.number + 1, round),
         parent   |-> parent]

\* Variant with a fault: no allowance for the clock of the proposer.
VerifyHeaderNoDrift(w, b) ==
    /\ b.round <= N
    /\ b.time >= EarliestTimeFor(b.parent.time, b.round)
    /\ b.time <= Clock(w)
    /\ b.coinbase = ProposerAtRound(b.number, b.round)

(* VerifyHeader on validator w, whose clock decides what is in the future. *)
(* A sealed block is signed by its coinbase.                               *)
VerifyHeader(w, b) ==
    /\ b.round <= N
    /\ b.time >= EarliestTimeFor(b.parent.time, b.round)
    /\ b.time <= Clock(w) + Drift
    /\ b.coinbase = ProposerAtRound(b.number, b.round)

(* InsertBlock as far as the rounds need it.                               *)
Insert(w, b) ==
    /\ known' = [known EXCEPT ![w] = @ \cup {b}]
    /\ tip' = [tip EXCEPT ![w] = IF b.number > @.number THEN b ELSE @]
    /\ since' = [since EXCEPT ![w] = IF b.number > tip[w].number THEN Clock(w) ELSE @]

-----------------------------------------------------------------------------
RoundsFrom(t, running) ==
    /\ now = t
    /\ draw \in Draws
    /\ up = running
    /\ crashes = 0
    /\ tip = [v \in Validators |-> Root]
    /\ known = [v \in Validators |-> {Root}]
    /\ sealed = {}
    /\ pc = [v \in Validators |-> "idle"]
    /\ work = [v \in Validators |-> Nobody]
    /\ late = [v \in Validators |-> FALSE]
    /\ since = [v \in Validators |-> t + Skew[v]]

RoundsInit == RoundsFrom(0, Validators)

Goto(v, label, w) ==
    /\ pc' = [pc EXCEPT ![v] = label]
    /\ work' = [work EXCEPT ![v] = w]

(* tryPropose, up to the call of Builder.Commit.                           *)
MayTry(v) ==
    /\ v \in up
    /\ tip[v].number < MaxHeight
    /\ IsMyTurn(v, tip[v].number + 1, tip[v].time)
    /\ Clock(v) >= tip[v].time + Period

TryPropose(v) ==
    /\ pc[v] = "idle"
    /\ MayTry(v)
    /\ Goto(v, "build", Nobody)
    /\ late' = [late EXCEPT ![v] = FALSE]
    /\ UNCHANGED <<now, draw, up, crashes, tip, known, sealed, since>>

(* BuildBlock reads the tip, which may have moved, and asks again whose   *)
(* turn it is: ErrNotOurTurn ends the attempt.                             *)
BuildBlock(v) ==
    /\ pc[v] = "build"
    /\ IF tip[v].number < MaxHeight /\ IsMyTurn(v, tip[v].number + 1, tip[v].time)
       THEN Goto(v, "prepare", tip[v])
       ELSE Goto(v, "idle", Nobody)
    /\ UNCHANGED <<now, draw, up, crashes, tip, known, sealed, late, since>>

PrepareHeader(v) ==
    /\ pc[v] = "prepare"
    /\ Goto(v, "seal", Prepare(v, work[v]))
    /\ UNCHANGED <<now, draw, up, crashes, tip, known, sealed, late, since>>

(* The rest of BuildBlock and Commit: Seal refuses a header prepared for   *)
(* another's turn, and InsertBlock verifies the block before it is sent.   *)
Seal(v) ==
    /\ pc[v] = "seal"
    /\ IF /\ ProposerAtRound(work[v].number, work[v].round) = v
          /\ VerifyHeader(v, work[v])
       THEN /\ Insert(v, work[v])
            /\ sealed' = sealed \cup {work[v]}
       ELSE UNCHANGED <<tip, known, sealed, since>>
    /\ Goto(v, "idle", Nobody)
    /\ UNCHANGED <<now, draw, up, crashes, late>>

(* node.HandleBlock: a block whose parent is here and that verifies.            *)
ImportBlock(w, b) ==
    /\ w \in up
    /\ b \notin known[w]
    /\ b.parent \in known[w]
    /\ VerifyHeader(w, b)
    /\ Insert(w, b)
    /\ UNCHANGED <<now, draw, up, crashes, sealed, pc, work, late>>

Crash(v) ==
    /\ v \in up \ Reliable
    /\ crashes < MaxCrashes
    /\ up' = up \ {v}
    /\ crashes' = crashes + 1
    /\ Goto(v, "idle", Nobody)
    /\ UNCHANGED <<now, draw, tip, known, sealed, late, since>>

Restart(v) ==
    /\ v \in Validators \ up
    /\ up' = up \cup {v}
    /\ UNCHANGED <<now, draw, crashes, tip, known, sealed, pc, work, late, since>>

(* mineLoop polls four times in a period, and building a block takes a     *)
(* small part of a round: no second passes before a validator that may try *)
(* has tried, nor do two during one attempt.                               *)
Tick ==
    /\ now < MaxTime
    /\ \A v \in up : IF pc[v] = "idle" THEN ~MayTry(v) ELSE ~late[v]
    /\ now' = now + 1
    /\ late' = [v \in Validators |-> pc[v] # "idle"]
    /\ UNCHANGED <<draw, up, crashes, tip, known, sealed, pc, work, since>>

Step(v) == TryPropose(v) \/ BuildBlock(v) \/ PrepareHeader(v) \/ Seal(v)

RoundsNext ==
    \/ \E v \in Validators : Step(v)
    \/ \E w \in Validators : \E b \in sealed : ImportBlock(w, b)
    \/ \E v \in Validators : Crash(v)
    \/ \E v \in Validators : Restart(v)
    \/ Tick

-----------------------------------------------------------------------------
Block == [number : 1..MaxHeight, round : Nat, time : Nat, coinbase : Validators,
          parent : {Root} \cup sealed \cup {work[v].parent : v \in {w \in Validators : pc[w] = "seal"}}]

(* The clock, the attempts and the chains of the validators are of their   *)
(* kinds, and the head of a validator is a block it knows.                 *)
RoundsTypeOK ==
    /\ now \in 0..MaxTime
    /\ up \subseteq Validators
    /\ crashes \in 0..MaxCrashes
    /\ sealed \subseteq Block
    /\ \A v \in Validators :
          /\ tip[v] \in known[v]
          /\ known[v] \subseteq {Root} \cup sealed
          /\ pc[v] \in {"idle", "build", "prepare", "seal"}
          /\ pc[v] = "seal" => work[v] \in Block

(* A block sealed by one validator passes VerifyHeader on every other one  *)
(* from the moment it is sent: the three readings of the clock during      *)
(* BuildBlock, the cap on the round and the clocks of two machines never   *)
(* make an honest proposer send what its peers refuse and punish.          *)
SealedIsAccepted ==
    \A b \in sealed, w \in Validators : VerifyHeader(w, b)

(* A validator never seals two blocks on one parent, although the rotation *)
(* gives it round 0 and round N of the same height: Commit inserts the     *)
(* block, so the next attempt starts from another head.                    *)
OneBlockPerParent ==
    \A b, c \in sealed : b.coinbase = c.coinbase /\ b.parent = c.parent => b = c

(* A validator takes a fallback turn only after every round before it has  *)
(* lapsed on its own clock: earliestTimeFor "stops it from racing the      *)
(* validator whose turn it is".                                            *)
TurnsAreWaitedOut ==
    [][\A b \in sealed' \ sealed : b.round > 0 =>
          now + Skew[b.coinbase] >= EarliestTimeFor(b.parent.time, b.round)]_roundsVars

(* What honest proposers send: accepted by all, one block per parent, in   *)
(* turn.                                                                   *)
ProposersKeepTheirTurns ==
    [](SealedIsAccepted /\ OneBlockPerParent) /\ TurnsAreWaitedOut

(* In rotation every validator has a turn at every height: if one that     *)
(* keeps running knew the parent when the first round opened, the next     *)
(* height is there when the last round opens, whichever of the others      *)
(* stopped.                                                                *)
TurnComesRound ==
    \A v \in Reliable \cap up :
        /\ tip[v].number < MaxHeight
        /\ since[v] <= EarliestTimeFor(tip[v].time, 0)
        /\ Clock(v) >= EarliestTimeFor(tip[v].time, N)
        => \E w \in Validators : tip[w].number > tip[v].number
=============================================================================
