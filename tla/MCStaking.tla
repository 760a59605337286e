----------------------------- MODULE MCStaking -----------------------------
(***************************************************************************)
(* Small instances of Staking.  The parameters keep the ratios that matter *)
(* in staking/params.go: ejection at half the deposit, the offset half the *)
(* slashing window, the window as long as the withdrawal delay, no cap     *)
(* above the deposit.                                                      *)
(***************************************************************************)
EXTENDS Staking

TwoValidators   == <<"a", "b">>

(* The closed form of ScheduleExit agrees with scheduleExit called again on *)
(* what the previous call saved.                                            *)
ASSUME
    \A e \in 0..2, q \in 0..3, c \in 0..3, limit \in 1..3, k \in 1..3 :
        LET es == [last |-> 0, final |-> 0, exitEpoch |-> q, exitCount |-> c]
        IN  ScheduleExit(es, e, limit, k + 1)
                = ScheduleExit(ScheduleExit(es, e, limit, k), e, limit, 1)

=============================================================================
