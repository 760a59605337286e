---------------------------- MODULE VoteCounting ----------------------------
(***************************************************************************)
(* What the votes promise, with no pools, messages or fork choice: a block *)
(* may become final only when a quorum has voted for it.  Validators may   *)
(* vote twice at a height, but then two final blocks of one height have    *)
(* more than a third of the set among their common voters.  This is the    *)
(* argument of core/attestation.go:97-100: "With that threshold two        *)
(* conflicting certificates at the same height require at least a third of *)
(* validators to have signed both".                                        *)
(***************************************************************************)
EXTENDS Integers, FiniteSets

CONSTANTS
    Voters,   \* the validator set
    Slots,    \* heights
    Choices,  \* blocks
    SlotOf(_) \* the height of a block

\* Variant with a fault: half of the set.
ThresholdHalf == Cardinality(Voters) \div 2

Threshold == (Cardinality(Voters) * 2) \div 3 + 1

ASSUME VotersAssumption == IsFiniteSet(Voters) /\ \A c \in Choices : SlotOf(c) \in Slots

VARIABLES
    ballots,  \* pairs <<validator, block>>: the votes sent so far
    settled   \* the blocks certified so far

vcvars == <<ballots, settled>>

Supporters(c) == {v \in Voters : <<v, c>> \in ballots}

CountInit == ballots = {} /\ settled = {}

(* Sending a vote. *)
Cast(v, c) == ballots' = ballots \cup {<<v, c>>}

(* Counting: in the same step, or in one of its own. *)
Count ==
    /\ settled' \in SUBSET Choices
    /\ settled \subseteq settled'
    /\ \A c \in settled' \ settled : Cardinality(Supporters(c)') >= Threshold

CountNext ==
    /\ UNCHANGED ballots \/ \E v \in Voters, c \in Choices : Cast(v, c)
    /\ Count

CountSpec == CountInit /\ [][CountNext]_vcvars
-----------------------------------------------------------------------------
CountTypeOK == ballots \subseteq Voters \X Choices /\ settled \subseteq Choices

\* core.Quorum: two certified blocks of one height share more than a third of the
\* set among their voters, so whoever made both possible can be named.
ConflictsAreAccountable ==
    \A c, d \in settled :
        SlotOf(c) = SlotOf(d) /\ c # d =>
            3 * Cardinality(Supporters(c) \cap Supporters(d)) > Cardinality(Voters)
=============================================================================
