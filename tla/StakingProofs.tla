--------------------------- MODULE StakingProofs ---------------------------
(****************************************************************************)
(* Three promises of the registry, proved for every finite set of accounts, *)
(* every value of the protocol parameters (both delays and both churn       *)
(* parameters positive) and every amount: a member of the running set can   *)
(* be held to account, stake leaves only a full delay after its owner last  *)
(* served, and no epoch is given more requested exits than the churn limit. *)
(* Amounts play no part, so nothing is assumed of them.                     *)
(****************************************************************************)
EXTENDS Staking, FiniteSetTheorems, SequenceTheorems, TLAPS

Fields == {"addr", "key", "balance", "status", "activation", "exit", "withdrawable", "slashed"}

(* What the lifecycle keeps true of one record, "ls" being the last epoch  *)
(* whose set it was in and e the running epoch.  An exit is scheduled      *)
(* beyond the last epoch served, and every way out locks the stake for the *)
(* delay counted from there.                                               *)
Entry(v, ls, e) ==
    /\ v = [f \in Fields |-> v[f]]
    /\ v.addr \in Addresses /\ v.status \in Statuses
    /\ v.exit \in Int /\ v.withdrawable \in Int
    /\ ls \in Int /\ ls <= e
    /\ v.status = "pending" => ls = -1
    /\ v.status = "exiting" => ls < v.exit /\ v.withdrawable = v.exit + WithdrawalDelay
    /\ v.status \in {"exited", "withdrawn"} => ls < e
    /\ v.status \in {"exited", "slashed"} => ls + WithdrawalDelay <= v.withdrawable

IsList(r) == \E n \in Nat : DOMAIN r = 1..n /\ r = [i \in 1..n |-> r[i]]

Valid(r, ls, e) ==
    /\ IsList(r)
    /\ \A i, j \in DOMAIN r : r[i].addr = r[j].addr => i = j
    /\ \A i \in DOMAIN r : Entry(r[i], ls[r[i].addr], e)

(* Whoever is on the way out, or out, stays so and keeps its exit epoch. *)
StaysOut(v, w) ==
    v.status \notin {"pending", "active"} =>
        w.status \notin {"pending", "active"} /\ w.exit = v.exit

(* s holds the same validators as r, none of them withdrew, and who was    *)
(* leaving still leaves.                                                   *)
Follows(r, s) ==
    /\ DOMAIN s = DOMAIN r
    /\ \A i \in DOMAIN r : /\ s[i].addr = r[i].addr /\ StaysOut(r[i], s[i])
                           /\ s[i].status = "withdrawn" => r[i].status = "withdrawn"

QueueOK(es) ==
    /\ es = [f \in {"last", "final", "exitEpoch", "exitCount"} |-> es[f]]
    /\ es.exitEpoch \in Nat /\ es.exitCount \in Nat

(* Who is not registered has never served. *)
Unserved(r, ls) == \A a \in Addresses : (\A i \in DOMAIN r : r[i].addr # a) => ls[a] = -1

IInv ==
    /\ epoch \in Nat
    /\ lastServed \in [Addresses -> Int]
    /\ QueueOK(epochState)
    /\ Valid(registry, lastServed, epoch)
    /\ Unserved(registry, lastServed)

-----------------------------------------------------------------------------

(* A list mapped record by record, addresses kept, is valid when every new *)
(* record is.                                                              *)
LEMMA MapValid ==
    ASSUME NEW r, NEW s, NEW ls, NEW e, Valid(r, ls, e),
           DOMAIN s = DOMAIN r, s = [i \in DOMAIN r |-> s[i]],
           \A i \in DOMAIN r : s[i].addr = r[i].addr /\ Entry(s[i], ls[r[i].addr], e)
    PROVE  Valid(s, ls, e)
  <1>1. IsList(s)
    BY DEF IsList, Valid
  <1>2. \A i, j \in DOMAIN s : s[i].addr = s[j].addr => i = j
    BY DEF Valid
  <1>3. \A i \in DOMAIN s : Entry(s[i], ls[s[i].addr], e)
    OBVIOUS
  <1> QED BY <1>1, <1>2, <1>3 DEF Valid

(* ChurnLimit never falls to zero, whatever the size of the set. *)
LEMMA ChurnLimitPositive ==
    ASSUME NEW n \in Nat PROVE ChurnLimit(n) \in Nat /\ ChurnLimit(n) >= 1
  BY StakingAssumption DEF ChurnLimit

(* scheduleExit: whichever call in a row it is, the epoch returned is after *)
(* the running one, and the bookkeeping keeps its form.                     *)
LEMMA ScheduledLater ==
    ASSUME NEW es, QueueOK(es), NEW e \in Nat, NEW limit \in Nat, limit >= 1, NEW k \in Nat, k >= 1
    PROVE  /\ QueueOK(ScheduleExit(es, e, limit, k))
           /\ ScheduleExit(es, e, limit, k).exitEpoch > e
  <1> DEFINE earliest == e + MinActivationDelay
             fresh == es.exitEpoch < earliest
             from == IF fresh THEN earliest ELSE es.exitEpoch
             ahead == (IF fresh THEN 0 ELSE Lesser(es.exitCount, limit)) + k - 1
  <1>1. from \in Nat /\ from > e
    BY StakingAssumption DEF QueueOK
  <1>2. ahead \in Nat
    BY DEF QueueOK, Lesser
  <1>3. ahead \div limit \in Nat /\ (ahead % limit) + 1 \in Nat
    <2> HIDE DEF ahead
    <2> QED BY <1>2
  <1>4. ScheduleExit(es, e, limit, k)
            = [es EXCEPT !.exitEpoch = from + (ahead \div limit), !.exitCount = (ahead % limit) + 1]
    BY DEF ScheduleExit
  <1> DEFINE later == from + (ahead \div limit)
             count == (ahead % limit) + 1
  <1>5. later \in Nat /\ later > e /\ count \in Nat
    <2> HIDE DEF from, ahead
    <2> QED BY <1>1, <1>3
  <1> HIDE DEF earliest, fresh, from, ahead, later, count
  <1>6. ScheduleExit(es, e, limit, k) =
            [f \in {"last", "final", "exitEpoch", "exitCount"} |->
                IF f = "exitCount" THEN count ELSE IF f = "exitEpoch" THEN later ELSE es[f]]
    <2>1. ScheduleExit(es, e, limit, k) = [es EXCEPT !.exitEpoch = later, !.exitCount = count]
      BY <1>4 DEF later, count
    <2> QED BY <2>1, Zenon DEF QueueOK
  <1> QED BY <1>5, <1>6 DEF QueueOK

(* The registry is finite, and so are the sets of indices taken from it. *)
LEMMA IndicesFinite ==
    ASSUME NEW r, IsList(r), NEW S \in SUBSET (DOMAIN r)
    PROVE  IsFiniteSet(S) /\ Cardinality(S) \in Nat /\ S \subseteq Int
  <1>1. PICK n \in Nat : DOMAIN r = 1..n
    BY DEF IsList
  <1>2. IsFiniteSet(1..n)
    BY <1>1, FS_Interval
  <1> QED BY <1>1, <1>2, FS_Subset, FS_CardinalityType

(* Only the balance of a record changes: rewards, absences, both penalties. *)
LEMMA BalanceValid ==
    ASSUME NEW r, NEW ls, NEW e, Valid(r, ls, e), NEW b,
           NEW s, s = [i \in DOMAIN r |-> [r[i] EXCEPT !.balance = b[i]]]
    PROVE  Valid(s, ls, e) /\ Follows(r, s)
  <1>1. ASSUME NEW i \in DOMAIN r
        PROVE  /\ s[i].addr = r[i].addr /\ s[i].status = r[i].status /\ s[i].exit = r[i].exit
               /\ Entry(s[i], ls[r[i].addr], e)
    <2>1. Entry(r[i], ls[r[i].addr], e)
      BY DEF Valid
    <2>2. s[i] = [f \in Fields |-> IF f = "balance" THEN b[i] ELSE r[i][f]]
      BY <2>1 DEF Entry, Fields
    <2> QED BY <2>1, <2>2 DEF Entry, Fields
  <1>2. DOMAIN s = DOMAIN r /\ s = [i \in DOMAIN r |-> s[i]]
    OBVIOUS
  <1> QED BY <1>1, <1>2, MapValid DEF Follows, StaysOut

(* Step 1 of ProcessEpoch: an exit that falls due ends after its last epoch. *)
LEMMA FinishExitsValid ==
    ASSUME NEW r, NEW ls, NEW e \in Nat, Valid(r, ls, e)
    PROVE  Valid(FinishExits(r, e), ls, e) /\ Follows(r, FinishExits(r, e))
  <1> DEFINE s == FinishExits(r, e)
  <1>1. DOMAIN s = DOMAIN r /\ s = [i \in DOMAIN r |-> s[i]]
    BY DEF FinishExits
  <1>2. ASSUME NEW i \in DOMAIN r
        PROVE  /\ s[i].addr = r[i].addr /\ StaysOut(r[i], s[i])
               /\ s[i].status = "withdrawn" => r[i].status = "withdrawn"
               /\ Entry(s[i], ls[r[i].addr], e)
    <2>1. Entry(r[i], ls[r[i].addr], e)
      BY DEF Valid
    <2>2. CASE r[i].status = "exiting" /\ e >= r[i].exit
      <3>1. s[i] = [r[i] EXCEPT !.status = "exited"]
        BY <2>2 DEF FinishExits
      <3>2. s[i] = [f \in Fields |-> IF f = "status" THEN "exited" ELSE r[i][f]]
        BY <2>1, <3>1 DEF Entry, Fields
      <3> HIDE DEF s
      <3> QED BY <2>1, <2>2, <3>2, StakingAssumption DEF Entry, Fields, Statuses, StaysOut
    <2>3. CASE ~(r[i].status = "exiting" /\ e >= r[i].exit)
      BY <2>1, <2>3 DEF FinishExits, StaysOut
    <2> QED BY <2>2, <2>3
  <1> HIDE DEF s
  <1>3. Valid(s, ls, e)
    BY <1>1, <1>2, MapValid
  <1> QED BY <1>1, <1>2, <1>3 DEF s, Follows

(* An active validator given an exit epoch beyond the running one. *)
LEMMA LeavingEntry ==
    ASSUME NEW v, NEW ls, NEW e \in Nat, Entry(v, ls, e), NEW exit \in Nat, exit > e
    PROVE  /\ Leaving(v, e, exit).addr = v.addr /\ Leaving(v, e, exit).status = "exiting"
           /\ Entry(Leaving(v, e, exit), ls, e)
  <1> DEFINE l == Leaving(v, e, exit)
  <1>1. l = [f \in Fields |-> IF f = "withdrawable" THEN exit + WithdrawalDelay
                              ELSE IF f = "exit" THEN exit
                              ELSE IF f = "status" THEN "exiting" ELSE v[f]]
    BY Zenon DEF Leaving, Entry, Fields
  <1> HIDE DEF l
  <1>2. l.addr = v.addr /\ l.status = "exiting" /\ l.exit = exit
        /\ l.withdrawable = exit + WithdrawalDelay /\ l = [f \in Fields |-> l[f]]
    BY <1>1 DEF Fields
  <1>3. Entry(l, ls, e)
    BY <1>2, StakingAssumption DEF Entry, Statuses
  <1> QED BY <1>2, <1>3 DEF l

(* Step 4: an ejected validator waits in the exit queue like any other. *)
LEMMA EjectValid ==
    ASSUME NEW r, NEW ls, Valid(r, ls, epoch), epoch \in Nat, QueueOK(epochState),
           NEW active \in SUBSET (DOMAIN r)
    PROVE  Valid(Eject(r, epoch, active), ls, epoch) /\ Follows(r, Eject(r, epoch, active))
  <1> DEFINE s == Eject(r, epoch, active)
             out == Ejected(r, active)
             limit == ChurnLimit(Cardinality(ActiveAt(r, epoch)))
             rank(i) == Cardinality({j \in out : j <= i})
             at(i) == ScheduleExit(epochState, epoch, limit, rank(i)).exitEpoch
  <1>1. s = [i \in DOMAIN r |-> IF i \in out THEN Leaving(r[i], epoch, at(i)) ELSE r[i]]
    BY DEF Eject
  <1>2. limit \in Nat /\ limit >= 1
    BY IndicesFinite, ChurnLimitPositive DEF ActiveAt, Valid
  <1>3. ASSUME NEW i \in out PROVE at(i) \in Nat /\ at(i) > epoch
    <2>1. out \in SUBSET (DOMAIN r) /\ {j \in out : j <= i} \in SUBSET (DOMAIN r)
      BY DEF Ejected
    <2>2. i \in {j \in out : j <= i}
      <3>1. i \in Int
        BY <1>3, <2>1, IndicesFinite, Zenon DEF Valid
      <3> QED BY <1>3, <3>1
    <2>3. rank(i) \in Nat /\ rank(i) >= 1
      <3>1. IsFiniteSet({j \in out : j <= i}) /\ rank(i) \in Nat
        BY <2>1, IndicesFinite DEF Valid
      <3>2. rank(i) # 0
        BY <2>2, <3>1, FS_EmptySet
      <3> QED BY <3>1, <3>2
    <2> HIDE DEF limit, rank
    <2> QED BY <1>2, <2>3, ScheduledLater, Zenon DEF QueueOK
  <1> HIDE DEF s, at
  <1>4. ASSUME NEW i \in DOMAIN r
        PROVE  /\ s[i].addr = r[i].addr /\ StaysOut(r[i], s[i])
               /\ s[i].status = "withdrawn" => r[i].status = "withdrawn"
               /\ Entry(s[i], ls[r[i].addr], epoch)
    <2>1. Entry(r[i], ls[r[i].addr], epoch)
      BY DEF Valid
    <2>2. CASE i \in out
      <3>1. s[i] = Leaving(r[i], epoch, at(i))
        BY <1>1, <2>2
      <3>2. r[i].status = "active"
        BY <2>2 DEF Ejected
      <3> QED BY <1>3, <2>1, <2>2, <3>1, <3>2, LeavingEntry DEF StaysOut
    <2>3. CASE i \notin out
      BY <1>1, <2>1, <2>3 DEF StaysOut
    <2> QED BY <2>2, <2>3
  <1>5. DOMAIN s = DOMAIN r /\ s = [i \in DOMAIN r |-> s[i]]
    BY <1>1
  <1>6. Valid(s, ls, epoch)
    BY <1>4, <1>5, MapValid
  <1> QED BY <1>4, <1>5, <1>6 DEF s, Follows

(* Step 5: a deposit becomes active without having served. *)
LEMMA ActivateValid ==
    ASSUME NEW r, NEW ls, NEW e \in Nat, Valid(r, ls, e)
    PROVE  Valid(Activate(r, e), ls, e) /\ Follows(r, Activate(r, e))
  <1> DEFINE s == Activate(r, e)
  <1>1. DOMAIN s = DOMAIN r /\ s = [i \in DOMAIN r |-> s[i]]
    BY DEF Activate
  <1>2. ASSUME NEW i \in DOMAIN r
        PROVE  /\ s[i].addr = r[i].addr /\ StaysOut(r[i], s[i])
               /\ s[i].status = "withdrawn" => r[i].status = "withdrawn"
               /\ Entry(s[i], ls[r[i].addr], e)
    <2>1. Entry(r[i], ls[r[i].addr], e)
      BY DEF Valid
    <2>2. CASE s[i] = r[i]
      BY <2>1, <2>2 DEF StaysOut
    <2>3. CASE /\ s[i] = [r[i] EXCEPT !.status = "active", !.activation = e + MinActivationDelay]
               /\ r[i].status = "pending"
      <3>1. s[i] = [f \in Fields |-> IF f = "activation" THEN e + MinActivationDelay
                                     ELSE IF f = "status" THEN "active" ELSE r[i][f]]
        BY <2>1, <2>3, Zenon DEF Entry, Fields
      <3> HIDE DEF s
      <3> QED BY <2>1, <2>3, <3>1 DEF Entry, Fields, Statuses, StaysOut
    <2> QED BY <2>2, <2>3 DEF Activate
  <1> HIDE DEF s
  <1>3. Valid(s, ls, e)
    BY <1>1, <1>2, MapValid
  <1> QED BY <1>1, <1>2, <1>3 DEF s, Follows

(* The whole transition, from the state it loads to the one it saves. *)
LEMMA ProcessEpochStep ==
    ASSUME IInv, NEW part, NEW f, ProcessEpoch(part, f)
    PROVE  IInv' /\ Follows(registry, registry')
  <1> DEFINE r1 == FinishExits(registry, epoch)
             total1 == TotalActiveStake(r1, epoch)
             gain == [i \in DOMAIN r1 |-> Reward(r1[i], epoch, part, total1)]
             loss == [i \in DOMAIN r1 |-> Absence(r1[i], epoch, part, f, total1)]
             b2 == [i \in DOMAIN r1 |-> r1[i].balance + gain[i] - loss[i]]
             r2 == [i \in DOMAIN r1 |-> [r1[i] EXCEPT !.balance = b2[i]]]
             total2 == TotalActiveStake(r2, epoch)
             charge == [i \in DOMAIN r2 |-> CorrelationPenalty(r2[i], epoch, total2)]
             b3 == [i \in DOMAIN r2 |-> r2[i].balance - charge[i]]
             r3 == [i \in DOMAIN r2 |-> [r2[i] EXCEPT !.balance = b3[i]]]
             active == ActiveAt(r1, epoch)
             r4 == Eject(r3, epoch, active)
  <1>1. registry' = Activate(r4, epoch)
        /\ epochState' = [epochState EXCEPT !.last = epoch, !.final = f]
        /\ epoch' = epoch /\ lastServed' = lastServed
    BY Zenon DEF ProcessEpoch, ghosts
  <1>2. Valid(r1, lastServed, epoch) /\ Follows(registry, r1)
    BY FinishExitsValid DEF IInv
  <1>3. active \in SUBSET (DOMAIN r1)
    BY DEF ActiveAt
  <1> HIDE DEF r1, gain, loss, active
  <1>4. Valid(r2, lastServed, epoch) /\ Follows(r1, r2)
    <2> HIDE DEF b2
    <2> QED BY <1>2, BalanceValid, Zenon
  <1> HIDE DEF r2, charge
  <1>5. Valid(r3, lastServed, epoch) /\ Follows(r2, r3)
    <2> HIDE DEF b3
    <2> QED BY <1>4, BalanceValid, Zenon
  <1> HIDE DEF r3
  <1>6. Valid(r4, lastServed, epoch) /\ Follows(r3, r4)
    BY <1>3, <1>4, <1>5, EjectValid DEF IInv, Follows
  <1> HIDE DEF r4
  <1>7. Valid(registry', lastServed, epoch) /\ Follows(r4, registry')
    BY <1>1, <1>6, ActivateValid DEF IInv
  <1>8. Follows(registry, registry')
    BY <1>2, <1>4, <1>5, <1>6, <1>7 DEF Follows, StaysOut
  <1>9. QueueOK(epochState')
    <2>1. epochState' = [g \in {"last", "final", "exitEpoch", "exitCount"} |->
                            IF g = "final" THEN f ELSE IF g = "last" THEN epoch ELSE epochState[g]]
      BY <1>1, Zenon DEF IInv, QueueOK
    <2> QED BY <2>1 DEF IInv, QueueOK
  <1>10. Unserved(registry', lastServed)
    BY <1>8 DEF IInv, Unserved, Follows
  <1> QED BY <1>1, <1>7, <1>8, <1>9, <1>10 DEF IInv

-----------------------------------------------------------------------------

(* One record of the registry is replaced by a valid one of its owner. *)
LEMMA ReplaceValid ==
    ASSUME IInv, NEW k \in DOMAIN registry, NEW s, NEW v,
           s = [registry EXCEPT ![k] = v],
           v.addr = registry[k].addr, Entry(v, lastServed[registry[k].addr], epoch)
    PROVE  /\ Valid(s, lastServed, epoch) /\ Unserved(s, lastServed)
           /\ DOMAIN s = DOMAIN registry /\ s[k] = v
           /\ \A i \in DOMAIN registry : i # k => s[i] = registry[i]
  <1>1. DOMAIN s = DOMAIN registry /\ s = [i \in DOMAIN registry |-> s[i]] /\ s[k] = v
        /\ \A i \in DOMAIN registry : i # k => s[i] = registry[i]
    BY Zenon DEF IInv, Valid, IsList
  <1>2. \A i \in DOMAIN registry : Entry(registry[i], lastServed[registry[i].addr], epoch)
    BY DEF Valid, IInv
  <1>3. \A i \in DOMAIN registry :
            s[i].addr = registry[i].addr /\ Entry(s[i], lastServed[registry[i].addr], epoch)
    BY <1>1, <1>2
  <1>4. Valid(s, lastServed, epoch)
    BY <1>1, <1>3, MapValid, Zenon DEF IInv
  <1> QED BY <1>1, <1>3, <1>4 DEF IInv, Unserved

(* A deposit that opens a record: its owner has not served. *)
LEMMA AppendValid ==
    ASSUME IInv, NEW a \in Addresses, IndexOf(a) = {}, NEW amount, NEW key
    PROVE  LET s == Append(registry, NewValidator(a, amount, key))
           IN  /\ Valid(s, lastServed, epoch) /\ Unserved(s, lastServed)
               /\ \A i \in DOMAIN registry : i \in DOMAIN s /\ s[i] = registry[i]
               /\ \A i \in DOMAIN s \ DOMAIN registry : s[i].addr = a
  <1> DEFINE v == NewValidator(a, amount, key)
             s == Append(registry, v)
             T == {registry[i] : i \in DOMAIN registry} \cup {v}
  <1>1. PICK n \in Nat : DOMAIN registry = 1..n /\ registry = [i \in 1..n |-> registry[i]]
    BY DEF IInv, Valid, IsList
  <1>2. registry \in Seq(T) /\ Len(registry) = n
    <2>1. registry \in [1..n -> T]
      BY <1>1
    <2> HIDE DEF T
    <2> QED BY <2>1, <1>1
  <1>3. v \in T
    OBVIOUS
  <1>4. v = [g \in Fields |-> v[g]] /\ v.addr = a /\ v.status = "pending"
        /\ v.exit = FarFutureEpoch /\ v.withdrawable = FarFutureEpoch
    BY DEF NewValidator, Fields
  <1>5. FarFutureEpoch \in Int
    BY StakingAssumption DEF FarFutureEpoch
  <1>6. lastServed[a] = -1
    BY DEF IInv, Unserved, IndexOf
  <1>7. Entry(v, lastServed[a], epoch)
    <2> HIDE DEF v
    <2> QED BY <1>4, <1>5, <1>6 DEF Entry, Statuses, IInv
  <1> HIDE DEF v, T
  <1>8. DOMAIN s = 1..(n + 1) /\ s \in Seq(T) /\ s[n + 1] = v
        /\ \A i \in 1..n : s[i] = registry[i]
    BY <1>1, <1>2, <1>3, AppendProperties, LenProperties
  <1>9. IsList(s)
    <2>1. s \in [1..Len(s) -> T]
      BY <1>8, LenProperties, Zenon
    <2> HIDE DEF s
    <2>2. Len(s) = n + 1 /\ n + 1 \in Nat
      BY <1>8, LenProperties
    <2>3. s = [i \in 1..(n + 1) |-> s[i]]
      BY <2>1, <2>2
    <2> QED BY <1>8, <2>2, <2>3 DEF IsList
  <1> HIDE DEF s
  <1>10. \A i \in 1..n : Entry(s[i], lastServed[s[i].addr], epoch) /\ s[i].addr # a
    BY <1>1, <1>8, Zenon DEF IInv, Valid, IndexOf
  <1>11. \A i \in DOMAIN s : i \in 1..n \/ i = n + 1
    BY <1>8
  <1>12. \A i \in DOMAIN s : Entry(s[i], lastServed[s[i].addr], epoch)
    BY <1>4, <1>7, <1>8, <1>10, <1>11
  <1>13. \A i, j \in DOMAIN s : s[i].addr = s[j].addr => i = j
    <2>1. \A i, j \in 1..n : s[i].addr = s[j].addr => i = j
      BY <1>1, <1>8 DEF IInv, Valid
    <2> QED BY <1>4, <1>8, <1>10, <1>11, <2>1
  <1>14. Unserved(s, lastServed)
    <2>1. \A i \in DOMAIN registry : i \in DOMAIN s /\ s[i] = registry[i]
      BY <1>1, <1>8
    <2> QED BY <2>1 DEF IInv, Unserved
  <1>15. /\ \A i \in DOMAIN registry : i \in DOMAIN s /\ s[i] = registry[i]
         /\ \A i \in DOMAIN s \ DOMAIN registry : s[i].addr = a
    BY <1>1, <1>4, <1>8, <1>11
  <1> QED BY <1>9, <1>12, <1>13, <1>14, <1>15 DEF Valid, s, v

-----------------------------------------------------------------------------

(* What a step does to validators already registered: nobody withdraws     *)
(* before the delay has run from the last epoch served.                    *)
Delayed ==
    \A i \in DOMAIN registry :
        registry'[i].status = "withdrawn" /\ registry[i].status # "withdrawn"
            => epoch >= lastServed[registry[i].addr] + WithdrawalDelay

(* What a step does to the exits already given: validators keep their      *)
(* places, who was leaving still leaves and keeps its epoch, but for the   *)
(* exempted, and a new place goes to an address that had none.             *)
Keeps(exempted) ==
    /\ \A i \in DOMAIN registry :
          /\ i \in DOMAIN registry' /\ registry'[i].addr = registry[i].addr
          /\ registry[i].addr \in exempted \/ StaysOut(registry[i], registry'[i])
    /\ \A i \in DOMAIN registry' \ DOMAIN registry : IndexOf(registry'[i].addr) = {}

(* At genesis every registered validator is active and serves epoch 0. *)
LEMMA InitIInv == Init => IInv
  <1> SUFFICES ASSUME Init PROVE IInv
    OBVIOUS
  <1> DEFINE G(i) == GenesisValidator(Genesis[i])
  <1>1. Genesis \in Seq(Addresses) /\ DOMAIN Genesis = 1..Len(Genesis) /\ Len(Genesis) \in Nat
        /\ \A i \in DOMAIN Genesis : Genesis[i] \in Addresses
    BY StakingAssumption, LenProperties, ElementOfSeq
  <1>2. registry = [i \in DOMAIN Genesis |-> G(i)] /\ epoch = 0
    BY DEF Init
  <1>3. lastServed = [a \in Addresses |-> IF \E i \in DOMAIN Genesis : Genesis[i] = a THEN 0 ELSE -1]
    BY DEF Init
  <1>4. FarFutureEpoch \in Int
    BY StakingAssumption DEF FarFutureEpoch
  <1>5. ASSUME NEW i \in DOMAIN Genesis
        PROVE  /\ G(i) = [g \in Fields |-> G(i)[g]] /\ G(i).addr = Genesis[i]
               /\ G(i).status = "active" /\ G(i).exit = FarFutureEpoch
               /\ G(i).withdrawable = FarFutureEpoch
    BY Zenon DEF GenesisValidator, NewValidator, Fields
  <1> HIDE DEF G
  <1>6. IsList(registry)
    BY <1>1, <1>2, Zenon DEF IsList
  <1>7. ASSUME NEW i \in DOMAIN registry PROVE Entry(registry[i], lastServed[registry[i].addr], 0)
    <2>1. registry[i] = G(i) /\ i \in DOMAIN Genesis
      BY <1>2
    <2>2. lastServed[G(i).addr] = 0
      BY <1>1, <1>3, <1>5, <2>1
    <2> QED BY <1>1, <1>4, <1>5, <2>1, <2>2 DEF Entry, Statuses
  <1>8. \A i, j \in DOMAIN registry : registry[i].addr = registry[j].addr => i = j
    BY <1>2, <1>5, StakingAssumption
  <1>9. Valid(registry, lastServed, epoch)
    BY <1>2, <1>6, <1>7, <1>8 DEF Valid
  <1>10. Unserved(registry, lastServed)
    BY <1>2, <1>3, <1>5 DEF Unserved
  <1>11. QueueOK(epochState)
    BY DEF Init, QueueOK
  <1>12. epoch \in Nat /\ lastServed \in [Addresses -> Int]
    BY <1>2, <1>3
  <1> QED BY <1>9, <1>10, <1>11, <1>12 DEF IInv

(* DepositWithKey keeps the lifecycle. *)
LEMMA DepositStep ==
    ASSUME IInv, NEW a \in Addresses, NEW amount, NEW withKey, Deposit(a, amount, withKey)
    PROVE  IInv' /\ Delayed /\ Keeps({})
  <1>1. epochState' = epochState /\ epoch' = epoch /\ lastServed' = lastServed
    BY DEF Deposit, ghosts
  <1>2. CASE \E i \in IndexOf(a) :
               registry' = [registry EXCEPT ![i].balance = @ + amount, ![i].key = @ \/ withKey]
    <2>1. PICK k \in DOMAIN registry :
               registry' = [registry EXCEPT ![k].balance = @ + amount, ![k].key = @ \/ withKey]
      BY <1>2, Zenon DEF IndexOf
    <2> DEFINE b == registry[k].balance + amount
               c == registry[k].key \/ withKey
               v == [registry[k] EXCEPT !.balance = b, !.key = c]
    <2>2. Entry(registry[k], lastServed[registry[k].addr], epoch)
      BY DEF IInv, Valid
    <2>3. v = [g \in Fields |-> IF g = "key" THEN c ELSE IF g = "balance" THEN b ELSE registry[k][g]]
      <3> HIDE DEF b, c
      <3> QED BY <2>2, Zenon DEF Entry, Fields
    <2>4. registry' = [registry EXCEPT ![k] = v]
      BY <2>1, <2>2, Zenon DEF Entry, Fields
    <2> HIDE DEF v, b, c
    <2>5. /\ v.addr = registry[k].addr /\ v.status = registry[k].status /\ v.exit = registry[k].exit
          /\ Entry(v, lastServed[registry[k].addr], epoch)
      BY <2>2, <2>3 DEF Entry, Fields
    <2> QED BY <1>1, <2>4, <2>5, ReplaceValid, Zenon DEF IInv, Delayed, Keeps, StaysOut
  <1>3. CASE IndexOf(a) = {} /\ registry' = Append(registry, NewValidator(a, amount, withKey))
    BY <1>1, <1>3, AppendValid DEF IInv, Delayed, Keeps, StaysOut
  <1> QED BY <1>2, <1>3 DEF Deposit

(* RequestExit: a pending validator is out at once, an active one queues. *)
LEMMA RequestExitStep ==
    ASSUME IInv, NEW a, NEW value, RequestExit(a, value)
    PROVE  IInv' /\ Delayed /\ Keeps({})
  <1>1. epoch' = epoch /\ lastServed' = lastServed
    BY DEF RequestExit, ghosts
  <1>2. PICK k \in DOMAIN registry :
         \/ /\ registry[k].status = "pending"
            /\ registry' = [registry EXCEPT ![k].status = "exited", ![k].exit = epoch,
                                            ![k].withdrawable = epoch + WithdrawalDelay]
            /\ epochState' = epochState
         \/ /\ registry[k].status = "active"
            /\ epochState' = ScheduleExit(epochState, epoch,
                                          ChurnLimit(Cardinality(ActiveAt(registry, epoch))), 1)
            /\ registry' = [registry EXCEPT ![k] = Leaving(@, epoch, epochState'.exitEpoch)]
    BY Zenon DEF RequestExit, IndexOf
  <1>3. Entry(registry[k], lastServed[registry[k].addr], epoch) /\ epoch \in Nat
    BY DEF IInv, Valid
  <1>4. CASE registry[k].status = "pending"
    <2> DEFINE w == epoch + WithdrawalDelay
               v == [registry[k] EXCEPT !.status = "exited", !.exit = epoch, !.withdrawable = w]
    <2>1. v = [g \in Fields |-> IF g = "withdrawable" THEN w ELSE IF g = "exit" THEN epoch
                                ELSE IF g = "status" THEN "exited" ELSE registry[k][g]]
      <3> HIDE DEF w
      <3> QED BY <1>3, Zenon DEF Entry, Fields
    <2>2. registry' = [registry EXCEPT ![k] = v] /\ epochState' = epochState
      BY <1>2, <1>3, <1>4 DEF Entry, Fields
    <2> HIDE DEF v
    <2>3. v.addr = registry[k].addr /\ v.status = "exited"
          /\ Entry(v, lastServed[registry[k].addr], epoch)
      BY <1>3, <1>4, <2>1, StakingAssumption DEF Entry, Fields, Statuses
    <2> QED BY <1>1, <1>4, <2>2, <2>3, ReplaceValid, Zenon DEF IInv, Delayed, Keeps, StaysOut
  <1>5. CASE registry[k].status = "active"
    <2> DEFINE limit == ChurnLimit(Cardinality(ActiveAt(registry, epoch)))
               v == Leaving(registry[k], epoch, epochState'.exitEpoch)
    <2>1. limit \in Nat /\ limit >= 1
      BY IndicesFinite, ChurnLimitPositive DEF ActiveAt, Valid, IInv
    <2>2. epochState' = ScheduleExit(epochState, epoch, limit, 1)
          /\ registry' = [registry EXCEPT ![k] = v]
      BY <1>2, <1>5
    <2> HIDE DEF limit
    <2>3. QueueOK(epochState') /\ epochState'.exitEpoch > epoch /\ epochState'.exitEpoch \in Nat
      <3>1. QueueOK(epochState) /\ 1 \in Nat /\ 1 >= 1
        BY DEF IInv
      <3>2. QueueOK(epochState') /\ epochState'.exitEpoch > epoch
        BY <1>3, <2>1, <2>2, <3>1, ScheduledLater
      <3> QED BY <3>2 DEF QueueOK
    <2>4. v.addr = registry[k].addr /\ v.status = "exiting"
          /\ Entry(v, lastServed[registry[k].addr], epoch)
      BY <1>3, <2>3, LeavingEntry
    <2> HIDE DEF v
    <2> QED BY <1>1, <1>5, <2>2, <2>3, <2>4, ReplaceValid, Zenon DEF IInv, Delayed, Keeps, StaysOut
  <1> QED BY <1>2, <1>4, <1>5

(* Slash locks what is left for the delay, whatever the offender's status was. *)
LEMMA SlashStep ==
    ASSUME IInv, NEW a, NEW value, Slash(a, value)
    PROVE  IInv' /\ Delayed /\ Keeps({a})
  <1>1. epoch' = epoch /\ lastServed' = lastServed /\ epochState' = epochState
    BY DEF Slash, ghosts
  <1>2. PICK k \in DOMAIN registry :
            /\ registry[k].addr = a
            /\ registry' = [registry EXCEPT ![k].balance = @ - SlashPenalty(registry[k]),
                                            ![k].status = "slashed", ![k].slashed = epoch,
                                            ![k].exit = epoch,
                                            ![k].withdrawable = epoch + WithdrawalDelay]
    BY Zenon DEF Slash, IndexOf
  <1>3. Entry(registry[k], lastServed[registry[k].addr], epoch) /\ epoch \in Nat
    BY DEF IInv, Valid
  <1> DEFINE b == registry[k].balance - SlashPenalty(registry[k])
             w == epoch + WithdrawalDelay
             v == [registry[k] EXCEPT !.balance = b, !.status = "slashed", !.slashed = epoch,
                                      !.exit = epoch, !.withdrawable = w]
  <1>4. v = [g \in Fields |-> IF g = "withdrawable" THEN w ELSE IF g = "exit" THEN epoch
                              ELSE IF g = "slashed" THEN epoch
                              ELSE IF g = "status" THEN "slashed"
                              ELSE IF g = "balance" THEN b ELSE registry[k][g]]
    <2> HIDE DEF b, w
    <2> QED BY <1>3, Zenon DEF Entry, Fields
  <1>5. registry' = [registry EXCEPT ![k] = v]
    BY <1>2, <1>3, Zenon DEF Entry, Fields
  <1> HIDE DEF v, b
  <1>6. v.addr = registry[k].addr /\ v.status = "slashed"
        /\ Entry(v, lastServed[registry[k].addr], epoch)
    BY <1>3, <1>4, StakingAssumption DEF Entry, Fields, Statuses
  <1> QED BY <1>1, <1>2, <1>5, <1>6, ReplaceValid, Zenon DEF IInv, Delayed, Keeps, StaysOut

(* Withdraw pays out only past the delay. *)
LEMMA WithdrawStep ==
    ASSUME IInv, NEW a, NEW value, Withdraw(a, value)
    PROVE  IInv' /\ Delayed /\ Keeps({})
  <1>1. epoch' = epoch /\ lastServed' = lastServed /\ epochState' = epochState
    BY DEF Withdraw, ghosts
  <1>2. PICK k \in DOMAIN registry :
            /\ registry[k].status \in {"exited", "slashed"}
            /\ epoch >= registry[k].withdrawable
            /\ registry' = [registry EXCEPT ![k].balance = 0, ![k].status = "withdrawn"]
    BY Zenon DEF Withdraw, IndexOf
  <1>3. Entry(registry[k], lastServed[registry[k].addr], epoch) /\ epoch \in Nat
    BY DEF IInv, Valid
  <1> DEFINE v == [registry[k] EXCEPT !.balance = 0, !.status = "withdrawn"]
  <1>4. v = [g \in Fields |-> IF g = "status" THEN "withdrawn"
                              ELSE IF g = "balance" THEN 0 ELSE registry[k][g]]
    BY <1>3, Zenon DEF Entry, Fields
  <1>5. registry' = [registry EXCEPT ![k] = v]
    BY <1>2, <1>3, Zenon DEF Entry, Fields
  <1> HIDE DEF v
  <1>6. epoch >= lastServed[registry[k].addr] + WithdrawalDelay
    <2> DEFINE ls == lastServed[registry[k].addr]
               w == registry[k].withdrawable
    <2>1. ls \in Int /\ w \in Int /\ ls + WithdrawalDelay <= w /\ epoch >= w
      BY <1>2, <1>3, Zenon DEF Entry
    <2>2. WithdrawalDelay \in Nat
      BY StakingAssumption
    <2> HIDE DEF ls, w
    <2>3. epoch >= ls + WithdrawalDelay
      BY <1>3, <2>1, <2>2
    <2> QED BY <2>3 DEF ls
  <1>7. /\ v.addr = registry[k].addr /\ StaysOut(registry[k], v)
        /\ Entry(v, lastServed[registry[k].addr], epoch)
    BY <1>3, <1>4, <1>6, StakingAssumption DEF Entry, Fields, Statuses, StaysOut
  <1> QED BY <1>1, <1>5, <1>6, <1>7, ReplaceValid, Zenon DEF IInv, Delayed, Keeps, StaysOut

(* The set of the next epoch: whoever is in it has an exit still ahead. *)
LEMMA EnterEpochStep ==
    ASSUME IInv, EnterEpoch
    PROVE  IInv' /\ Delayed /\ Keeps({})
  <1>1. epoch' = epoch + 1 /\ registry' = registry /\ epochState' = epochState
    BY DEF EnterEpoch
  <1>2. lastServed' = [a \in Addresses |->
                         IF \E i \in IndexOf(a) : IsActiveAt(registry[i], epoch + 1)
                         THEN epoch + 1 ELSE lastServed[a]]
    BY DEF EnterEpoch
  <1>3. epoch \in Nat /\ epoch' \in Nat /\ lastServed' \in [Addresses -> Int]
    BY <1>1, <1>2 DEF IInv
  <1>4. ASSUME NEW i \in DOMAIN registry
        PROVE  Entry(registry[i], lastServed'[registry[i].addr], epoch')
    <2> DEFINE a == registry[i].addr
    <2>1. Entry(registry[i], lastServed[a], epoch) /\ a \in Addresses
      BY DEF IInv, Valid, Entry
    <2>2. IndexOf(a) = {i}
      BY DEF IInv, Valid, IndexOf
    <2>3. CASE IsActiveAt(registry[i], epoch + 1)
      <3>1. lastServed'[a] = epoch + 1
        BY <1>2, <2>1, <2>2, <2>3
      <3>2. \/ registry[i].status = "active"
            \/ registry[i].status = "exiting" /\ epoch + 1 < registry[i].exit
        BY <2>3 DEF IsActiveAt
      <3> QED BY <1>1, <1>3, <2>1, <3>1, <3>2 DEF Entry
    <2>4. CASE ~IsActiveAt(registry[i], epoch + 1)
      <3>1. lastServed'[a] = lastServed[a]
        BY <1>2, <2>1, <2>2, <2>4
      <3> QED BY <1>1, <1>3, <2>1, <3>1 DEF Entry
    <2> QED BY <2>3, <2>4
  <1>5. Valid(registry, lastServed', epoch')
    BY <1>4 DEF IInv, Valid
  <1>6. Unserved(registry, lastServed')
    BY <1>2 DEF IInv, Unserved, IndexOf
  <1> QED BY <1>1, <1>3, <1>5, <1>6 DEF IInv, Delayed, Keeps, StaysOut

(* Every step keeps the lifecycle and withdraws nothing early. *)
LEMMA NextIInv == IInv /\ [Next]_vars => IInv' /\ (Delayed \/ UNCHANGED vars)
  <1> SUFFICES ASSUME IInv, [Next]_vars PROVE IInv' /\ (Delayed \/ UNCHANGED vars)
    OBVIOUS
  <1>1. CASE \E a \in Depositors, amount \in Amounts, withKey \in KeyChoices :
               Deposit(a, amount, withKey)
    BY <1>1, DepositStep, StakingAssumption
  <1>2. CASE \E a \in Leavers, value \in Gifts : RequestExit(a, value)
    BY <1>2, RequestExitStep
  <1>3. CASE \E a \in Offenders : Equivocate(a)
    BY <1>3 DEF Equivocate, ghosts, IInv, Delayed
  <1>4. CASE \E a \in Offenders, value \in Gifts : Slash(a, value)
    BY <1>4, SlashStep, Zenon
  <1>5. CASE \E a \in Addresses, value \in Gifts : Withdraw(a, value)
    BY <1>5, WithdrawStep
  <1>6. CASE \E part \in Participations, f \in 0..(epoch - 1) : ProcessEpoch(part, f)
    BY <1>6, ProcessEpochStep DEF Follows, Delayed
  <1>7. CASE EnterEpoch
    BY <1>7, EnterEpochStep
  <1>8. CASE UNCHANGED vars
    BY <1>8 DEF vars, IInv
  <1> QED BY <1>1, <1>2, <1>3, <1>4, <1>5, <1>6, <1>7, <1>8 DEF Next

(* The lifecycle's inductive invariant holds throughout. *)
THEOREM LifecycleInvariant == Spec => []IInv
  <1>1. IInv /\ [Next]_vars => IInv'
    BY NextIInv
  <1> QED BY <1>1, InitIInv, PTL DEF Spec

(* A member of the running epoch's set is within Slash's reach for as long *)
(* as the epoch lasts (IsActiveAt, scheduleExit, RequestExit).             *)
THEOREM MembersAlwaysAnswerable == Spec => []MembersAnswerable
  <1>1. IInv => MembersAnswerable
    <2> SUFFICES ASSUME IInv, NEW i \in DOMAIN registry, lastServed[registry[i].addr] = epoch
                 PROVE  registry[i].status \in {"active", "exiting", "slashed"}
      BY DEF MembersAnswerable
    <2>1. Entry(registry[i], epoch, epoch) /\ epoch \in Nat
      BY DEF IInv, Valid
    <2> QED BY <2>1 DEF Entry, Statuses
  <1> QED BY <1>1, LifecycleInvariant, PTL

(* Withdraw pays nobody before WithdrawalDelay epochs have passed since the *)
(* last epoch whose set the payee was in, on every way out.                 *)
THEOREM WithdrawalsAlwaysDelayed == Spec => WithdrawalsAreDelayed
  <1>1. IInv /\ [Next]_vars =>
          [\A i \in DOMAIN registry :
              registry'[i].status = "withdrawn" /\ registry[i].status # "withdrawn"
                  /\ lastServed[registry[i].addr] >= 0
                  => epoch >= lastServed[registry[i].addr] + WithdrawalDelay]_vars
    BY NextIInv DEF Delayed
  <1> QED BY <1>1, LifecycleInvariant, PTL DEF Spec, WithdrawalsAreDelayed

-----------------------------------------------------------------------------
(* The exit queue.  Its record says how far it reaches and how many of the *)
(* exits asked for fall into its last epoch; ejections use the queue but   *)
(* leave no trace in the record, so they must not count.                   *)

AskedIn(r, l, e) == {i \in DOMAIN r : l[r[i].addr] = "asked" /\ r[i].exit = e}
Most == ChurnLimit(Cardinality(Addresses))

SpreadInv ==
    /\ IInv
    /\ left \in [Addresses -> {"no", "asked", "ejected"}]
    /\ \A a \in Addresses : left[a] = "asked" => IndexOf(a) # {}
    /\ \A i \in DOMAIN registry :
          left[registry[i].addr] = "asked" =>
             /\ registry[i].status \notin {"pending", "active"}
             /\ registry[i].exit <= epochState.exitEpoch
    /\ Cardinality(AskedIn(registry, left, epochState.exitEpoch)) <= epochState.exitCount
    /\ \A e \in Int : Cardinality(AskedIn(registry, left, e)) <= Most

(* Dividing keeps the order. *)
LEMMA DivMonotone ==
    ASSUME NEW n \in Nat, NEW m \in Nat, n <= m, NEW q \in Nat \ {0}
    PROVE  n \div q <= m \div q
  <1> DEFINE a == n \div q
             b == m \div q
  <1>1. a \in Nat /\ b \in Nat /\ q * a <= n /\ m < q * (b + 1)
    <2>1. a \in Nat /\ b \in Nat /\ n % q \in Nat /\ m % q \in Nat /\ m % q < q
      OBVIOUS
    <2>2. n = q * a + (n % q) /\ m = q * b + (m % q)
      OBVIOUS
    <2>3. q * (b + 1) = q * b + q /\ q * a \in Nat /\ q * b \in Nat
      <3> HIDE DEF a, b
      <3> QED BY <2>1
    <2> QED BY <2>1, <2>2, <2>3
  <1> HIDE DEF a, b
  <1>2. SUFFICES ASSUME a > b PROVE FALSE
    BY <1>1 DEF a, b
  <1>3. PICK d \in Nat : a = (b + 1) + d
    <2>1. a - (b + 1) \in Nat /\ a = (b + 1) + (a - (b + 1))
      BY <1>1, <1>2
    <2> QED BY <2>1
  <1>4. q * a = q * (b + 1) + q * d /\ q * d \in Nat /\ q * (b + 1) \in Nat
    BY <1>1, <1>3
  <1> QED BY <1>1, <1>4

(* The churn limit grows with the set. *)
LEMMA ChurnLimitMonotone ==
    ASSUME NEW n \in Nat, NEW m \in Nat, n <= m
    PROVE  ChurnLimit(n) <= ChurnLimit(m)
  <1>1. n \div ChurnLimitQuotient <= m \div ChurnLimitQuotient
    BY DivMonotone, StakingAssumption
  <1>2. n \div ChurnLimitQuotient \in Nat /\ m \div ChurnLimitQuotient \in Nat
    BY StakingAssumption
  <1> QED BY <1>1, <1>2, StakingAssumption DEF ChurnLimit

(* The limit of the moment is within that of all accounts. *)
LEMMA LimitWithinMost ==
    ASSUME IInv
    PROVE  LET limit == ChurnLimit(Cardinality(ActiveAt(registry, epoch)))
           IN  limit \in Nat /\ limit >= 1 /\ limit <= Most /\ Most \in Nat
  <1> DEFINE A == ActiveAt(registry, epoch)
             f == [i \in A |-> registry[i].addr]
  <1>1. A \in SUBSET DOMAIN registry
    BY DEF ActiveAt
  <1>2. IsFiniteSet(A) /\ Cardinality(A) \in Nat
    BY <1>1, IndicesFinite DEF IInv, Valid
  <1>3. IsFiniteSet(Addresses) /\ Cardinality(Addresses) \in Nat
    BY StakingAssumption, FS_CardinalityType
  <1> HIDE DEF A
  <1>4. f \in Injection(A, Addresses)
    <2>1. \A i \in A : registry[i].addr \in Addresses
      BY <1>1 DEF IInv, Valid, Entry
    <2>2. \A i, j \in A : registry[i].addr = registry[j].addr => i = j
      BY <1>1 DEF IInv, Valid
    <2> QED BY <2>1, <2>2 DEF Injection, IsInjective
  <1>5. Cardinality(A) <= Cardinality(Addresses)
    <2> HIDE DEF f
    <2> QED BY <1>3, <1>4, FS_Injection
  <1>6. ChurnLimit(Cardinality(A)) \in Nat /\ ChurnLimit(Cardinality(A)) >= 1 /\ Most \in Nat
    BY <1>2, <1>3, ChurnLimitPositive DEF Most
  <1>7. ChurnLimit(Cardinality(A)) <= Most
    BY <1>2, <1>3, <1>5, ChurnLimitMonotone DEF Most
  <1> QED BY <1>6, <1>7 DEF A

(* scheduleExit, one call: the last epoch of the queue takes one more if it *)
(* has room, and otherwise the queue moves on and starts counting again.    *)
LEMMA ScheduledNext ==
    ASSUME NEW es, QueueOK(es), NEW e \in Nat, NEW limit \in Nat, limit >= 1
    PROVE  LET n == ScheduleExit(es, e, limit, 1) IN
           \/ n.exitEpoch > es.exitEpoch /\ n.exitCount = 1
           \/ n.exitEpoch = es.exitEpoch /\ n.exitCount = es.exitCount + 1 /\ es.exitCount < limit
  <1> DEFINE earliest == e + MinActivationDelay
             fresh == es.exitEpoch < earliest
             from == IF fresh THEN earliest ELSE es.exitEpoch
             ahead == (IF fresh THEN 0 ELSE Lesser(es.exitCount, limit)) + 1 - 1
             later == from + (ahead \div limit)
             count == (ahead % limit) + 1
             n == ScheduleExit(es, e, limit, 1)
  <1>1. n = [es EXCEPT !.exitEpoch = later, !.exitCount = count]
    BY DEF ScheduleExit
  <1>2. es.exitEpoch \in Nat /\ es.exitCount \in Nat /\ earliest \in Nat
    BY StakingAssumption DEF QueueOK
  <1>3. \/ fresh /\ from = earliest /\ ahead = 0
        \/ ~fresh /\ from = es.exitEpoch /\ es.exitCount < limit /\ ahead = es.exitCount
        \/ ~fresh /\ from = es.exitEpoch /\ ahead = limit
    BY <1>2 DEF Lesser
  <1>4. limit \div limit = 1 /\ limit % limit = 0 /\ 0 \div limit = 0 /\ 0 % limit = 0
        /\ (es.exitCount < limit => es.exitCount \div limit = 0 /\ es.exitCount % limit = es.exitCount)
    BY <1>2
  <1>5. \/ later > es.exitEpoch /\ count = 1
        \/ later = es.exitEpoch /\ count = es.exitCount + 1 /\ es.exitCount < limit
    <2> HIDE DEF ahead, from, earliest
    <2> QED BY <1>2, <1>3, <1>4
  <1> HIDE DEF later, count
  <1>6. n = [f \in {"last", "final", "exitEpoch", "exitCount"} |->
                IF f = "exitCount" THEN count ELSE IF f = "exitEpoch" THEN later ELSE es[f]]
    BY <1>1, Zenon DEF QueueOK
  <1> HIDE DEF n
  <1>7. n.exitEpoch = later /\ n.exitCount = count
    BY <1>6
  <1> QED BY <1>5, <1>7 DEF n

(* At a given queue, a step under which nobody new has asked for an exit, *)
(* and those who had keep theirs, cannot crowd an epoch.                  *)
LEMMA NobodyAsks ==
    ASSUME SpreadInv, IInv', NEW E, Keeps(E),
           epochState'.exitEpoch = epochState.exitEpoch, epochState'.exitCount = epochState.exitCount,
           left' \in [Addresses -> {"no", "asked", "ejected"}],
           \A a \in Addresses : left'[a] = "asked" => left[a] = "asked" /\ a \notin E
    PROVE  SpreadInv'
  <1> DEFINE Was(e) == AskedIn(registry, left, e)
             Is(e) == AskedIn(registry', left', e)
  <1>1. ASSUME NEW i \in DOMAIN registry', left'[registry'[i].addr] = "asked"
        PROVE  /\ i \in DOMAIN registry /\ registry'[i].addr = registry[i].addr
               /\ left[registry[i].addr] = "asked"
               /\ registry'[i].status \notin {"pending", "active"}
               /\ registry'[i].exit = registry[i].exit
    <2> DEFINE a == registry'[i].addr
    <2>1. a \in Addresses
      BY Zenon DEF IInv, Valid, Entry
    <2>2. left[a] = "asked" /\ a \notin E /\ IndexOf(a) # {}
      BY <1>1, <2>1 DEF SpreadInv
    <2>3. i \in DOMAIN registry /\ registry[i].addr = a /\ StaysOut(registry[i], registry'[i])
      BY <2>2 DEF Keeps
    <2> QED BY <2>2, <2>3 DEF SpreadInv, StaysOut
  <1>2. ASSUME NEW e \in Int
        PROVE  Is(e) \subseteq Was(e) /\ Cardinality(Is(e)) <= Cardinality(Was(e))
               /\ Cardinality(Is(e)) \in Nat /\ Cardinality(Was(e)) \in Nat
    <2>1. Is(e) \subseteq Was(e)
      BY <1>1 DEF AskedIn
    <2>2. IsFiniteSet(Was(e))
      BY IndicesFinite, Zenon DEF AskedIn, SpreadInv, IInv, Valid
    <2> QED BY <2>1, <2>2, FS_Subset, FS_CardinalityType
  <1>3. ASSUME NEW a \in Addresses, left'[a] = "asked"
        PROVE  IndexOf(a)' # {}
    <2>1. PICK i \in DOMAIN registry : registry[i].addr = a
      BY <1>3 DEF SpreadInv, IndexOf
    <2> QED BY <2>1 DEF Keeps, IndexOf
  <1>4. epochState.exitEpoch \in Int /\ epochState.exitCount \in Nat
    BY DEF SpreadInv, IInv, QueueOK
  <1>5. Cardinality(Is(epochState.exitEpoch)) <= epochState.exitCount
    BY <1>2, <1>4 DEF SpreadInv
  <1>6. ASSUME NEW e \in Int PROVE Cardinality(Is(e)) <= Most
    <2>1. Cardinality(Was(e)) <= Most /\ Most \in Nat
      BY LimitWithinMost DEF SpreadInv
    <2> QED BY <1>2, <2>1
  <1>7. \A i \in DOMAIN registry' :
            left'[registry'[i].addr] = "asked" =>
               registry'[i].status \notin {"pending", "active"} /\ registry'[i].exit <= epochState.exitEpoch
    BY <1>1 DEF SpreadInv
  <1> QED BY <1>3, <1>5, <1>6, <1>7 DEF SpreadInv, AskedIn, Most

(* RequestExit by an active validator: the exit falls into the queue's last *)
(* epoch while that has room, and otherwise opens a later one.              *)
LEMMA AskingSpreads ==
    ASSUME SpreadInv, NEW a, NEW value, RequestExit(a, value)
    PROVE  SpreadInv'
  <1> DEFINE Was(e) == AskedIn(registry, left, e)
             Is(e) == AskedIn(registry', left', e)
  <1>1. IInv' /\ Keeps({})
    BY RequestExitStep DEF SpreadInv
  <1>2. PICK k \in DOMAIN registry :
         /\ registry[k].addr = a
         /\ \/ epochState' = epochState /\ left' = left
            \/ /\ registry[k].status = "active"
               /\ epochState' = ScheduleExit(epochState, epoch,
                                             ChurnLimit(Cardinality(ActiveAt(registry, epoch))), 1)
               /\ registry' = [registry EXCEPT ![k] = Leaving(@, epoch, epochState'.exitEpoch)]
               /\ left' = [left EXCEPT ![a] = "asked"]
    BY DEF RequestExit, IndexOf
  <1>3. CASE epochState' = epochState /\ left' = left
    BY <1>1, <1>3, NobodyAsks DEF SpreadInv
  <1>4. CASE ~(epochState' = epochState /\ left' = left)
    <2> DEFINE limit == ChurnLimit(Cardinality(ActiveAt(registry, epoch)))
               q == epochState.exitEpoch
               c == epochState.exitCount
               q1 == epochState'.exitEpoch
               c1 == epochState'.exitCount
    <2>1. limit \in Nat /\ limit >= 1 /\ limit <= Most /\ Most \in Nat
      BY LimitWithinMost, Zenon DEF SpreadInv
    <2>2. epochState' = ScheduleExit(epochState, epoch, limit, 1)
      BY <1>2, <1>4
    <2>3. QueueOK(epochState) /\ epoch \in Nat /\ q \in Nat /\ c \in Nat /\ q1 \in Nat
      BY <1>1 DEF SpreadInv, IInv, QueueOK
    <2> HIDE DEF limit
    <2>4. (q1 > q /\ c1 = 1) \/ (q1 = q /\ c1 = c + 1 /\ c < limit)
      BY <2>1, <2>2, <2>3, ScheduledNext
    <2>5. DOMAIN registry' = DOMAIN registry
          /\ (\A i \in DOMAIN registry \ {k} : registry'[i] = registry[i])
          /\ registry'[k].addr = a /\ registry'[k].status = "exiting" /\ registry'[k].exit = q1
      <3>1. Entry(registry[k], lastServed[registry[k].addr], epoch)
        BY DEF SpreadInv, IInv, Valid
      <3>2. registry' = [registry EXCEPT ![k] = Leaving(@, epoch, q1)]
        BY <1>2, <1>4
      <3>3. registry'[k] = [registry[k] EXCEPT !.status = "exiting", !.exit = q1,
                                               !.withdrawable = q1 + WithdrawalDelay]
        BY <3>2 DEF Leaving, SpreadInv, IInv, Valid, IsList
      <3> DEFINE w == q1 + WithdrawalDelay
      <3>4. registry'[k] = [g \in Fields |-> IF g = "withdrawable" THEN w ELSE IF g = "exit" THEN q1
                                             ELSE IF g = "status" THEN "exiting" ELSE registry[k][g]]
        <4> HIDE DEF w, q1
        <4>1. registry'[k] = [registry[k] EXCEPT !.status = "exiting", !.exit = q1, !.withdrawable = w]
          BY <3>3 DEF w
        <4> QED BY <3>1, <4>1, Zenon DEF Entry, Fields
      <3>5. registry'[k].addr = a /\ registry'[k].status = "exiting" /\ registry'[k].exit = q1
        <4> HIDE DEF w, q1
        <4> QED BY <1>2, <3>4 DEF Fields
      <3>6. DOMAIN registry' = DOMAIN registry /\ \A i \in DOMAIN registry \ {k} : registry'[i] = registry[i]
        BY <3>2 DEF SpreadInv, IInv, Valid, IsList
      <3> QED BY <3>5, <3>6
    <2>6. a \in Addresses /\ \A i \in DOMAIN registry : registry[i].addr \in Addresses
      BY <1>2 DEF SpreadInv, IInv, Valid, Entry
    <2>7. \A i \in DOMAIN registry \ {k} : registry[i].addr # a
      BY <1>2 DEF SpreadInv, IInv, Valid
    <2>8. left' = [left EXCEPT ![a] = "asked"] /\ left \in [Addresses -> {"no", "asked", "ejected"}]
      BY <1>2, <1>4 DEF SpreadInv
    <2>9. left' \in [Addresses -> {"no", "asked", "ejected"}] /\ left'[a] = "asked"
          /\ \A i \in DOMAIN registry \ {k} : left'[registry'[i].addr] = left[registry[i].addr]
      BY <2>5, <2>6, <2>7, <2>8
    <2> HIDE DEF q, c, q1, c1
    <2>10. ASSUME NEW e \in Int
           PROVE  Is(e) \subseteq Was(e) \cup (IF e = q1 THEN {k} ELSE {})
      BY <2>5, <2>9 DEF AskedIn
    <2>11. ASSUME NEW e \in Int
           PROVE  IsFiniteSet(Was(e)) /\ Cardinality(Was(e)) \in Nat /\ Cardinality(Was(e)) <= Most
      <3>1. IsFiniteSet(Was(e)) /\ Cardinality(Was(e)) \in Nat
        BY IndicesFinite DEF AskedIn, SpreadInv, IInv, Valid
      <3> QED BY <3>1 DEF SpreadInv
    <2>12. ASSUME NEW e \in Int, e # q1
           PROVE  Cardinality(Is(e)) <= Most
      <3>1. Is(e) \subseteq Was(e)
        BY <2>10, <2>12
      <3>2. Cardinality(Is(e)) \in Nat /\ Cardinality(Is(e)) <= Cardinality(Was(e))
        BY <2>11, <3>1, FS_Subset, FS_CardinalityType
      <3> QED BY <2>1, <2>11, <3>2
    <2>13. Cardinality(Is(q1)) <= c1 /\ c1 <= Most
      <3> DEFINE A == Was(q1)
      <3>1. IsFiniteSet(A) /\ Cardinality(A) \in Nat /\ Is(q1) \subseteq A \cup {k}
        BY <2>3, <2>10, <2>11
      <3>2. Cardinality(Is(q1)) \in Nat /\ Cardinality(Is(q1)) <= Cardinality(A) + 1
        <4> HIDE DEF A
        <4>1. IsFiniteSet(A \cup {k}) /\ Cardinality(A \cup {k}) \in Nat
              /\ Cardinality(A \cup {k}) <= Cardinality(A) + 1
          BY <3>1, FS_AddElement, FS_CardinalityType
        <4> QED BY <3>1, <4>1, FS_Subset, FS_CardinalityType
      <3>3. CASE q1 > q
        <4>1. A = {}
          <5>1. \A i \in DOMAIN registry : left[registry[i].addr] = "asked" =>
                    registry[i].exit \in Int /\ registry[i].exit <= q
            BY DEF SpreadInv, IInv, Valid, Entry, q
          <5> QED BY <2>3, <3>3, <5>1 DEF AskedIn
        <4>2. Cardinality(A) = 0
          BY <4>1, FS_EmptySet
        <4> QED BY <2>1, <2>3, <2>4, <3>2, <3>3, <4>2
      <3>4. CASE ~(q1 > q)
        <4>1. q1 = q /\ c1 = c + 1 /\ c < limit
          BY <2>4, <3>4
        <4>2. Cardinality(A) <= c
          BY <4>1 DEF SpreadInv, q, c
        <4> HIDE DEF A
        <4> QED BY <2>1, <2>3, <3>1, <3>2, <4>1, <4>2
      <3> QED BY <3>3, <3>4
    <2>14. \A i \in DOMAIN registry' :
              left'[registry'[i].addr] = "asked" =>
                 registry'[i].status \notin {"pending", "active"} /\ registry'[i].exit <= q1
      <3>1. \A i \in DOMAIN registry : left[registry[i].addr] = "asked" =>
                /\ registry[i].status \notin {"pending", "active"}
                /\ registry[i].exit \in Int /\ registry[i].exit <= q
        BY DEF SpreadInv, IInv, Valid, Entry, q
      <3>2. q <= q1
        BY <2>3, <2>4
      <3> QED BY <2>3, <2>5, <2>9, <3>1, <3>2
    <2>15. \A b \in Addresses : left'[b] = "asked" => IndexOf(b)' # {}
      BY <1>2, <2>5, <2>8 DEF SpreadInv, IndexOf
    <2>16. \A e \in Int : Cardinality(Is(e)) <= Most
      <3>1. Cardinality(Is(q1)) <= Most
        <4>1. IsFiniteSet(Is(q1)) /\ Cardinality(Is(q1)) \in Nat
          <5>1. Is(q1) \subseteq Was(q1) \cup {k} /\ IsFiniteSet(Was(q1))
            BY <2>3, <2>10, <2>11
          <5>2. IsFiniteSet(Was(q1) \cup {k})
            BY <5>1, FS_AddElement
          <5> QED BY <5>1, <5>2, FS_Subset, FS_CardinalityType
        <4>2. c1 \in Nat
          BY <2>3, <2>4
        <4> QED BY <2>1, <2>13, <4>1, <4>2
      <3> QED BY <2>12, <3>1
    <2> QED BY <1>1, <2>9, <2>13, <2>14, <2>15, <2>16, Zenon DEF SpreadInv, AskedIn, Most, q1, c1
  <1> QED BY <1>3, <1>4

(* The inductive invariant of the exit queue. *)
LEMMA NextSpread == SpreadInv /\ [Next]_vars => SpreadInv'
  <1> SUFFICES ASSUME SpreadInv, [Next]_vars PROVE SpreadInv'
    OBVIOUS
  <1>0. IInv /\ left \in [Addresses -> {"no", "asked", "ejected"}]
    BY DEF SpreadInv
  <1>1. ASSUME NEW a \in Depositors, NEW amount, NEW withKey, Deposit(a, amount, withKey)
        PROVE  SpreadInv'
    <2>1. IInv' /\ Keeps({})
      BY <1>0, <1>1, DepositStep, StakingAssumption
    <2>2. epochState' = epochState /\ left' = left
      BY <1>1 DEF Deposit
    <2> QED BY <1>0, <2>1, <2>2, NobodyAsks
  <1>2. ASSUME NEW a, NEW value, Slash(a, value) PROVE SpreadInv'
    <2>1. IInv' /\ Keeps({a})
      BY <1>0, <1>2, SlashStep
    <2>2. epochState' = epochState /\ left' = [left EXCEPT ![a] = "no"]
      BY <1>2 DEF Slash
    <2>3. left' \in [Addresses -> {"no", "asked", "ejected"}]
          /\ \A b \in Addresses : left'[b] = "asked" => left[b] = "asked" /\ b \notin {a}
      BY <1>0, <2>2, Zenon
    <2> QED BY <2>1, <2>2, <2>3, NobodyAsks
  <1>3. ASSUME NEW a, NEW value, Withdraw(a, value) PROVE SpreadInv'
    <2>1. IInv' /\ Keeps({})
      BY <1>0, <1>3, WithdrawStep
    <2>2. epochState' = epochState /\ left' = left
      BY <1>3 DEF Withdraw
    <2> QED BY <1>0, <2>1, <2>2, NobodyAsks
  <1>4. ASSUME NEW part, NEW f, ProcessEpoch(part, f) PROVE SpreadInv'
    <2>1. IInv' /\ Keeps({})
      BY <1>0, <1>4, ProcessEpochStep DEF Follows, Keeps
    <2>2. epochState' = [epochState EXCEPT !.last = epoch, !.final = f]
      BY <1>4, Zenon DEF ProcessEpoch
    <2>3. epochState'.exitEpoch = epochState.exitEpoch /\ epochState'.exitCount = epochState.exitCount
      <3>1. epochState' = [g \in {"last", "final", "exitEpoch", "exitCount"} |->
                              IF g = "final" THEN f ELSE IF g = "last" THEN epoch ELSE epochState[g]]
        BY <1>0, <2>2, Zenon DEF IInv, QueueOK
      <3> QED BY <3>1
    <2>4. \E S : left' = [a \in Addresses |-> IF a \in S THEN "ejected" ELSE left[a]]
      <3> DEFINE r1 == FinishExits(registry, epoch)
                 total1 == TotalActiveStake(r1, epoch)
                 gain == [i \in DOMAIN r1 |-> Reward(r1[i], epoch, part, total1)]
                 loss == [i \in DOMAIN r1 |-> Absence(r1[i], epoch, part, f, total1)]
                 r2 == [i \in DOMAIN r1 |-> [r1[i] EXCEPT !.balance = @ + gain[i] - loss[i]]]
                 total2 == TotalActiveStake(r2, epoch)
                 charge == [i \in DOMAIN r2 |-> CorrelationPenalty(r2[i], epoch, total2)]
                 r3 == [i \in DOMAIN r2 |-> [r2[i] EXCEPT !.balance = @ - charge[i]]]
                 T == Ejected(r3, ActiveAt(r1, epoch))
                 S == {a \in Addresses : \E i \in T : r3[i].addr = a}
      <3>1. left' = [a \in Addresses |-> IF \E i \in T : r3[i].addr = a THEN "ejected" ELSE left[a]]
        BY <1>4, Zenon DEF ProcessEpoch
      <3> HIDE DEF T, r3
      <3>2. left' = [a \in Addresses |-> IF a \in S THEN "ejected" ELSE left[a]]
        BY <3>1
      <3> HIDE DEF S
      <3> QED BY <3>2
    <2>5. left' \in [Addresses -> {"no", "asked", "ejected"}]
          /\ \A b \in Addresses : left'[b] = "asked" => left[b] = "asked" /\ b \notin {}
      BY <1>0, <2>4
    <2> QED BY <2>1, <2>3, <2>5, NobodyAsks
  <1>5. ASSUME EnterEpoch PROVE SpreadInv'
    <2>1. IInv' /\ Keeps({})
      BY <1>0, <1>5, EnterEpochStep
    <2>2. epochState' = epochState /\ left' = left
      BY <1>5 DEF EnterEpoch
    <2> QED BY <1>0, <2>1, <2>2, NobodyAsks
  <1>6. ASSUME NEW a, Equivocate(a) PROVE SpreadInv'
    BY <1>6, Zenon DEF Equivocate, ghosts, SpreadInv, IInv, Most, IndexOf
  <1>7. CASE UNCHANGED vars
    BY <1>7 DEF vars, SpreadInv, IInv, Most, IndexOf
  <1> QED BY <1>1, <1>2, <1>3, <1>4, <1>5, <1>6, <1>7, AskingSpreads DEF Next

(* Exits that validators ask for are spread over the epochs: none is given  *)
(* more of them than the churn limit, although an ejection's use of the     *)
(* queue is forgotten when ProcessEpoch saves the record it loaded first.   *)
THEOREM RequestedExitsAlwaysSpread == Spec => []RequestedExitsAreSpread
  <1>1. Init => SpreadInv
    <2> SUFFICES ASSUME Init PROVE SpreadInv
      OBVIOUS
    <2>1. left = [a \in Addresses |-> "no"] /\ epochState.exitCount = 0 /\ epochState.exitEpoch = 0
      BY Zenon DEF Init
    <2>2. IInv
      BY InitIInv
    <2>3. \A i \in DOMAIN registry : left[registry[i].addr] = "no"
      BY <2>1, <2>2 DEF IInv, Valid, Entry
    <2>4. \A e : AskedIn(registry, left, e) = {}
      BY <2>3 DEF AskedIn
    <2>5. \A e : Cardinality(AskedIn(registry, left, e)) = 0
      BY <2>4, FS_EmptySet
    <2>6. Most \in Nat
      BY <2>2, LimitWithinMost
    <2> QED BY <2>1, <2>2, <2>3, <2>5, <2>6 DEF SpreadInv
  <1>2. SpreadInv => RequestedExitsAreSpread
    <2> SUFFICES ASSUME SpreadInv, NEW e \in 0..(2 * MaxEpoch + 1)
                 PROVE  Cardinality(LeavingIn(e, {"asked"})) <= ChurnLimit(Cardinality(Addresses))
      BY DEF RequestedExitsAreSpread
    <2>1. e \in Int
      BY StakingAssumption
    <2> QED BY <2>1 DEF SpreadInv, AskedIn, LeavingIn, Most
  <1> QED BY <1>1, <1>2, NextSpread, PTL DEF Spec

=============================================================================
