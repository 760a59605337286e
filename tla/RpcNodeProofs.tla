--------------------------- MODULE RpcNodeProofs ---------------------------
(***************************************************************************)
(* Admission control and polling filters of the RPC server, proved for any *)
(* number of clients, connections, filters and calls in flight, any limits *)
(* under which a budget is full again before it is forgotten, and any      *)
(* chain of blocks.                                                        *)
(***************************************************************************)
EXTENDS RpcNode, FiniteSetTheorems, TLAPS

-----------------------------------------------------------------------------
(* The limiter. *)

(* What a client was let through with and what its bucket still holds come  *)
(* to no more than a burst and the refill up to the bucket's last use.  Of  *)
(* a forgotten client a whole burst is outstanding again.                   *)
BudgetInv ==
    /\ now \in Nat
    /\ granted \in [Clients -> Nat]
    /\ DOMAIN clients \subseteq Clients
    /\ \A c \in DOMAIN clients :
          /\ clients[c].tokens \in Nat /\ clients[c].last \in Nat /\ clients[c].last <= now
          /\ granted[c] + clients[c].tokens <= Burst + clients[c].last * RequestsPerSecond
    /\ \A c \in Clients \ DOMAIN clients : granted[c] <= now * RequestsPerSecond

Running == {i \in Connections : calls[i].running}

SlotsInv ==
    /\ DOMAIN calls = Connections
    /\ \A i \in Connections : /\ calls[i] = [f \in {"left", "running"} |-> calls[i][f]]
                              /\ calls[i].running \in BOOLEAN
    /\ SlotsAreCalls

(* A later time has refilled no less, by the ticks in between. *)
LEMMA RefillGrows ==
    ASSUME NEW s \in Nat, NEW t \in Nat, s <= t
    PROVE  /\ t * RequestsPerSecond = s * RequestsPerSecond + (t - s) * RequestsPerSecond
           /\ (t - s) * RequestsPerSecond \in Nat /\ s * RequestsPerSecond \in Nat
           /\ t * RequestsPerSecond \in Nat
  <1> DEFINE d == t - s
  <1>1. d \in Nat /\ t = s + d
    OBVIOUS
  <1> HIDE DEF d
  <1>2. (s + d) * RequestsPerSecond = s * RequestsPerSecond + d * RequestsPerSecond
        /\ d * RequestsPerSecond \in Nat /\ s * RequestsPerSecond \in Nat
    BY <1>1, LimitsAssumption
  <1> QED BY <1>1, <1>2 DEF d

(* The smaller of two numbers. *)
LEMMA MinOfTwo ==
    ASSUME NEW m \in Nat, NEW n \in Nat
    PROVE  Min({m, n}) \in Nat /\ Min({m, n}) <= m /\ Min({m, n}) <= n
  <1>1. \E x \in {m, n} : \A y \in {m, n} : x <= y
    OBVIOUS
  <1> QED BY <1>1 DEF Min

(* The budget that allow finds, together with what was granted before. *)
LEMMA TokensBound ==
    ASSUME BudgetInv, NEW c \in Clients
    PROVE  /\ Tokens(c) \in Nat
           /\ granted[c] + Tokens(c) <= Burst + now * RequestsPerSecond
  <1> USE LimitsAssumption
  <1>1. granted[c] \in Nat /\ now \in Nat /\ now * RequestsPerSecond \in Nat /\ Burst \in Nat
    <2>1. granted[c] \in Nat /\ now \in Nat /\ RequestsPerSecond \in Nat /\ Burst \in Nat
      BY DEF BudgetInv
    <2> QED BY <2>1
  <1>2. CASE c \notin DOMAIN clients
    BY <1>1, <1>2 DEF Tokens, BudgetInv
  <1>3. CASE c \in DOMAIN clients
    <2> DEFINE tk == clients[c].tokens
               la == clients[c].last
               refill == (now - la) * RequestsPerSecond
    <2>1. tk \in Nat /\ la \in Nat /\ la <= now /\ granted[c] + tk <= Burst + la * RequestsPerSecond
      BY <1>3 DEF BudgetInv
    <2>2. refill \in Nat /\ la * RequestsPerSecond \in Nat
          /\ now * RequestsPerSecond = la * RequestsPerSecond + refill
      BY <1>1, <2>1, RefillGrows, Zenon
    <2>3. Tokens(c) = Min({tk + refill, Burst})
      BY <1>3 DEF Tokens
    <2> HIDE DEF refill, tk, la
    <2>4. Tokens(c) \in Nat /\ Tokens(c) <= tk + refill
      BY <1>1, <2>1, <2>2, <2>3, MinOfTwo
    <2> QED BY <1>1, <2>1, <2>2, <2>4
  <1> QED BY <1>2, <1>3

(* allow: the charge moves tokens to what was granted. *)
LEMMA AllowKeeps ==
    ASSUME BudgetInv, NEW i, NEW c \in Clients, NEW cost \in Nat, Allow(i, c, cost), now' = now
    PROVE  BudgetInv'
  <1> DEFINE t == Tokens(c)
             ok == t >= cost
             b == [tokens |-> t - (IF ok THEN cost ELSE 0), last |-> now]
             g == granted[c] + (IF ok THEN cost ELSE 0)
  <1>1. clients' = [x \in DOMAIN clients \cup {c} |-> IF x = c THEN b ELSE clients[x]]
    BY DEF Allow, Put
  <1>2. granted' = [granted EXCEPT ![c] = g] /\ g \in Nat
    <2>1. granted \in [Clients -> Nat]
      BY DEF BudgetInv
    <2>2. granted' = IF ok THEN [granted EXCEPT ![c] = @ + cost] ELSE granted
      BY DEF Allow
    <2> HIDE DEF ok
    <2>3. CASE ok
      BY <2>1, <2>2, <2>3
    <2>4. CASE ~ok
      BY <2>1, <2>2, <2>4
    <2> QED BY <2>3, <2>4
  <1>3. t \in Nat /\ granted[c] \in Nat /\ granted[c] + t <= Burst + now * RequestsPerSecond
    BY TokensBound DEF BudgetInv
  <1>4. now * RequestsPerSecond \in Nat /\ Burst \in Nat
    <2>1. now \in Nat /\ RequestsPerSecond \in Nat /\ Burst \in Nat
      BY LimitsAssumption DEF BudgetInv
    <2> QED BY <2>1
  <1>5. b.tokens \in Nat /\ b.last = now /\ g + b.tokens <= Burst + now * RequestsPerSecond
    <2> HIDE DEF t
    <2> QED BY <1>3, <1>4
  <1> HIDE DEF b, g, t, ok
  <1>6. granted' \in [Clients -> Nat] /\ granted'[c] = g
        /\ \A d \in Clients \ {c} : granted'[d] = granted[d]
    BY <1>2 DEF BudgetInv
  <1>7. DOMAIN clients' = DOMAIN clients \cup {c} /\ clients'[c] = b
        /\ \A d \in DOMAIN clients \ {c} : clients'[d] = clients[d]
    BY <1>1
  <1>8. ASSUME NEW d \in DOMAIN clients'
        PROVE  /\ clients'[d].tokens \in Nat /\ clients'[d].last \in Nat /\ clients'[d].last <= now
               /\ granted'[d] + clients'[d].tokens <= Burst + clients'[d].last * RequestsPerSecond
    <2>1. CASE d = c
      BY <1>5, <1>6, <1>7, <2>1 DEF BudgetInv
    <2>2. CASE d # c
      <3>1. d \in DOMAIN clients /\ d \in Clients /\ clients'[d] = clients[d] /\ granted'[d] = granted[d]
        BY <1>6, <1>7, <2>2 DEF BudgetInv
      <3> QED BY <3>1 DEF BudgetInv
    <2> QED BY <2>1, <2>2
  <1>9. \A d \in Clients \ DOMAIN clients' : granted'[d] <= now * RequestsPerSecond
    BY <1>6, <1>7 DEF BudgetInv
  <1> QED BY <1>6, <1>7, <1>8, <1>9 DEF BudgetInv

(* sweep: a budget it forgets was full again, so what the client was let    *)
(* through with is within the refill alone.                                 *)
LEMMA SweepKeeps ==
    ASSUME BudgetInv, Sweep
    PROVE  BudgetInv'
  <1> USE LimitsAssumption
  <1>1. DOMAIN clients' = {d \in DOMAIN clients : clients[d].last >= now - ClientTTL}
        /\ (\A d \in DOMAIN clients' : clients'[d] = clients[d])
        /\ now' = now /\ granted' = granted
    BY DEF Sweep
  <1>2. ASSUME NEW c \in DOMAIN clients, c \notin DOMAIN clients'
        PROVE  granted[c] <= now * RequestsPerSecond
    <2> DEFINE la == clients[c].last
               tk == clients[c].tokens
    <2>1. la \in Nat /\ tk \in Nat /\ now \in Nat /\ granted[c] \in Nat
          /\ granted[c] + tk <= Burst + la * RequestsPerSecond
      BY DEF BudgetInv
    <2>2. la < now - ClientTTL
      BY <1>1, <1>2, <2>1
    <2> HIDE DEF la, tk
    <2>3. ClientTTL \in Nat /\ la + ClientTTL <= now /\ la + ClientTTL \in Nat
      BY <2>1, <2>2
    <2>4. (la + ClientTTL) * RequestsPerSecond
              = la * RequestsPerSecond + ClientTTL * RequestsPerSecond
          /\ la * RequestsPerSecond \in Nat /\ ClientTTL * RequestsPerSecond \in Nat
      BY <2>1, <2>3
    <2>5. (la + ClientTTL) * RequestsPerSecond <= now * RequestsPerSecond
          /\ now * RequestsPerSecond \in Nat /\ (la + ClientTTL) * RequestsPerSecond \in Nat
      <3> DEFINE k == la + ClientTTL
      <3>1. k \in Nat /\ k <= now
        BY <2>3
      <3> HIDE DEF k
      <3>2. now * RequestsPerSecond = k * RequestsPerSecond + (now - k) * RequestsPerSecond
            /\ (now - k) * RequestsPerSecond \in Nat /\ k * RequestsPerSecond \in Nat
            /\ now * RequestsPerSecond \in Nat
        BY <2>1, <3>1, RefillGrows, Zenon
      <3>3. k * RequestsPerSecond <= now * RequestsPerSecond
        BY <3>2
      <3> QED BY <3>2, <3>3 DEF k
    <2> QED BY <2>1, <2>4, <2>5
  <1>3. \A c \in Clients \ DOMAIN clients' : granted[c] <= now * RequestsPerSecond
    BY <1>2 DEF BudgetInv
  <1> QED BY <1>1, <1>3 DEF BudgetInv

(* What acquire, release and a new request do to the calls: a call begins  *)
(* and a slot is taken, a call ends and one is freed, or neither.          *)
LEMMA SlotsFollow ==
    ASSUME SlotsInv,
           DOMAIN calls' = Connections,
           \A j \in Connections : /\ calls'[j] = [f \in {"left", "running"} |-> calls'[j][f]]
                                  /\ calls'[j].running \in BOOLEAN,
           NEW i \in Connections,
           \A j \in Connections \ {i} : calls'[j].running = calls[j].running,
           \/ calls'[i].running = calls[i].running /\ slots' = slots
           \/ ~calls[i].running /\ calls'[i].running /\ slots < MaxConcurrent /\ slots' = slots + 1
           \/ calls[i].running /\ ~calls'[i].running /\ slots' = IF slots > 0 THEN slots - 1 ELSE slots
    PROVE  SlotsInv'
  <1>1. IsFiniteSet(Running) /\ Cardinality(Running) \in Nat
    BY LimitsAssumption, FS_Subset, FS_CardinalityType DEF Running
  <1>2. slots = Cardinality(Running) /\ slots <= MaxConcurrent /\ MaxConcurrent \in Nat
    BY LimitsAssumption DEF SlotsInv, SlotsAreCalls, Running
  <1>3. CASE calls'[i].running = calls[i].running /\ slots' = slots
    <2>1. Running' = Running
      BY <1>3 DEF Running
    <2> QED BY <1>2, <1>3, <2>1 DEF SlotsInv, SlotsAreCalls, Running
  <1>4. CASE ~calls[i].running /\ calls'[i].running /\ slots < MaxConcurrent /\ slots' = slots + 1
    <2>1. Running' = Running \cup {i} /\ i \notin Running
      BY <1>4 DEF Running
    <2>2. Cardinality(Running') = Cardinality(Running) + 1
      BY <1>1, <2>1, FS_AddElement, Zenon
    <2>3. slots' = Cardinality(Running') /\ slots' <= MaxConcurrent
      BY <1>1, <1>2, <1>4, <2>2
    <2> QED BY <2>3 DEF SlotsInv, SlotsAreCalls, Running
  <1>5. CASE calls[i].running /\ ~calls'[i].running /\ slots' = IF slots > 0 THEN slots - 1 ELSE slots
    <2>1. Running' = Running \ {i} /\ i \in Running
      BY <1>5 DEF Running
    <2>2. Cardinality(Running') = Cardinality(Running) - 1 /\ Cardinality(Running) > 0
      <3>1. Cardinality(Running') = Cardinality(Running) - 1
        BY <1>1, <2>1, FS_RemoveElement, Zenon
      <3>2. Cardinality(Running) # 0
        BY <1>1, <2>1, FS_EmptySet
      <3> QED BY <1>1, <3>1, <3>2
    <2>3. slots' = Cardinality(Running') /\ slots' <= MaxConcurrent
      BY <1>1, <1>2, <1>5, <2>2
    <2> QED BY <2>3 DEF SlotsInv, SlotsAreCalls, Running
  <1> QED BY <1>3, <1>4, <1>5

(* A change of one field of one entry. *)
LEMMA CallChanges ==
    ASSUME SlotsInv, NEW i \in Connections, NEW n, NEW r \in BOOLEAN, NEW s,
           s = [calls EXCEPT ![i] = [left |-> n, running |-> r]]
    PROVE  /\ DOMAIN s = Connections
           /\ \A j \in Connections : s[j] = [f \in {"left", "running"} |-> s[j][f]]
                                     /\ s[j].running \in BOOLEAN
           /\ s[i].running = r
           /\ \A j \in Connections \ {i} : s[j].running = calls[j].running
  <1>1. DOMAIN s = Connections /\ s[i] = [left |-> n, running |-> r]
        /\ \A j \in Connections \ {i} : s[j] = calls[j]
    BY DEF SlotsInv
  <1>2. s[i] = [f \in {"left", "running"} |-> s[i][f]] /\ s[i].running = r
    BY <1>1
  <1> QED BY <1>1, <1>2 DEF SlotsInv

LimitsInv == BudgetInv /\ SlotsInv

(* The limiter's own steps. *)
LEMMA LimitsStep ==
    ASSUME LimitsInv, LimitsNext
    PROVE  LimitsInv'
  <1> USE DEF LimitsInv
  <1>1. ASSUME NEW i \in Connections, NEW c \in Clients, NEW cost \in Batches, ServeHTTP(i, c, cost)
        PROVE  LimitsInv'
    <2>1. now' = now /\ slots' = slots /\ Allow(i, c, cost) /\ cost \in Nat
      BY <1>1, LimitsAssumption DEF ServeHTTP
    <2>2. BudgetInv'
      BY <2>1, AllowKeeps
    <2>3. calls[i].running \in BOOLEAN /\ calls[i] = [f \in {"left", "running"} |-> calls[i][f]]
      BY DEF SlotsInv
    <2>4. calls' = [calls EXCEPT ![i] = [left |-> cost, running |-> calls[i].running]] \/ calls' = calls
      <3>1. calls' = [calls EXCEPT ![i].left = cost] \/ calls' = calls
        BY <2>1 DEF Allow
      <3>2. [calls[i] EXCEPT !.left = cost] = [left |-> cost, running |-> calls[i].running]
        BY <2>3
      <3> QED BY <3>1, <3>2
    <2>5. CASE calls' = calls
      BY <2>1, <2>2, <2>5 DEF SlotsInv, SlotsAreCalls
    <2>6. CASE calls' = [calls EXCEPT ![i] = [left |-> cost, running |-> calls[i].running]]
      BY <2>1, <2>2, <2>3, <2>6, CallChanges, SlotsFollow
    <2> QED BY <2>4, <2>5, <2>6
  <1>2. ASSUME NEW i \in Connections, Acquire(i)
        PROVE  LimitsInv'
    <2>1. calls[i] = [f \in {"left", "running"} |-> calls[i][f]]
      BY DEF SlotsInv
    <2> DEFINE on == TRUE
               n == calls[i].left
    <2>2. calls' = [calls EXCEPT ![i] = [left |-> n, running |-> on]] /\ on \in BOOLEAN
      <3>1. calls' = [calls EXCEPT ![i].running = on] /\ on \in BOOLEAN
        BY <1>2 DEF Acquire
      <3> HIDE DEF on
      <3>2. [calls[i] EXCEPT !.running = on] = [left |-> n, running |-> on]
        BY <2>1
      <3> QED BY <3>1, <3>2, Zenon
    <2> HIDE DEF on, n
    <2>3. ~calls[i].running /\ slots < MaxConcurrent /\ slots' = slots + 1
          /\ UNCHANGED <<now, clients, granted>>
      BY <1>2 DEF Acquire
    <2>4. /\ DOMAIN calls' = Connections
          /\ \A j \in Connections : calls'[j] = [f \in {"left", "running"} |-> calls'[j][f]]
                                    /\ calls'[j].running \in BOOLEAN
          /\ calls'[i].running = on
          /\ \A j \in Connections \ {i} : calls'[j].running = calls[j].running
      BY <2>2, CallChanges
    <2>5. calls'[i].running
      BY <2>4 DEF on
    <2>6. SlotsInv'
      BY <2>3, <2>4, <2>5, SlotsFollow
    <2> QED BY <2>3, <2>6 DEF BudgetInv
  <1>3. ASSUME NEW i \in Connections, AtCapacity(i)
        PROVE  LimitsInv'
    <2>1. calls[i] = [f \in {"left", "running"} |-> calls[i][f]] /\ calls[i].running \in BOOLEAN
      BY DEF SlotsInv
    <2> DEFINE n == calls[i].left - 1
    <2>2. calls' = [calls EXCEPT ![i] = [left |-> n, running |-> calls[i].running]]
      <3>1. [calls[i] EXCEPT !.left = n] = [left |-> n, running |-> calls[i].running]
        BY <2>1
      <3> QED BY <1>3, <3>1, Zenon DEF AtCapacity
    <2>3. UNCHANGED <<now, clients, granted, slots>>
      BY <1>3 DEF AtCapacity
    <2> HIDE DEF n
    <2>4. SlotsInv'
      BY <2>1, <2>2, <2>3, CallChanges, SlotsFollow
    <2> QED BY <2>3, <2>4 DEF BudgetInv
  <1>4. ASSUME NEW i \in Connections, Dispatch(i)
        PROVE  LimitsInv'
    <2> DEFINE n == calls[i].left - 1
    <2>1. calls[i].running /\ calls' = [calls EXCEPT ![i] = [left |-> n, running |-> FALSE]]
          /\ slots' = (IF slots > 0 THEN slots - 1 ELSE slots) /\ UNCHANGED <<now, clients, granted>>
      BY <1>4 DEF Dispatch
    <2> DEFINE off == FALSE
    <2>2. calls' = [calls EXCEPT ![i] = [left |-> n, running |-> off]] /\ off \in BOOLEAN /\ ~off
      BY <2>1
    <2> HIDE DEF n, off
    <2>3. /\ DOMAIN calls' = Connections
          /\ \A j \in Connections : calls'[j] = [f \in {"left", "running"} |-> calls'[j][f]]
                                    /\ calls'[j].running \in BOOLEAN
          /\ calls'[i].running = off
          /\ \A j \in Connections \ {i} : calls'[j].running = calls[j].running
      BY <2>2, CallChanges
    <2>4. ~calls'[i].running
      BY <2>2, <2>3
    <2>5. SlotsInv'
      BY <2>1, <2>3, <2>4, SlotsFollow, Zenon
    <2> QED BY <2>1, <2>5 DEF BudgetInv
  <1>5. CASE Sweep
    BY <1>5, SweepKeeps DEF Sweep, SlotsInv, SlotsAreCalls
  <1> QED BY <1>1, <1>2, <1>3, <1>4, <1>5 DEF LimitsNext

(* The invariant of the limiter through every step of the node. *)
LEMMA LimitsNode == LimitsInv /\ [Next]_vars => LimitsInv'
  <1> SUFFICES ASSUME LimitsInv, [Next]_vars PROVE LimitsInv'
    OBVIOUS
  <1>1. CASE UNCHANGED <<now, limitVars>>
    BY <1>1 DEF limitVars, LimitsInv, BudgetInv, SlotsInv, SlotsAreCalls
  <1>2. CASE Tick
    <2>1. now' = now + 1 /\ UNCHANGED limitVars /\ now \in Nat
      BY <1>2 DEF Tick, LimitsInv, BudgetInv
    <2>2. now' * RequestsPerSecond = now * RequestsPerSecond + RequestsPerSecond
          /\ now * RequestsPerSecond \in Nat /\ RequestsPerSecond \in Nat
      BY <2>1, LimitsAssumption
    <2>3. \A c \in Clients \ DOMAIN clients : granted[c] <= now' * RequestsPerSecond
      <3>1. \A c \in Clients \ DOMAIN clients : granted[c] \in Nat /\ granted[c] <= now * RequestsPerSecond
        BY DEF LimitsInv, BudgetInv
      <3> QED BY <2>2, <3>1
    <2>4. \A c \in DOMAIN clients : clients[c].last <= now'
      BY <2>1 DEF LimitsInv, BudgetInv
    <2> QED BY <2>1, <2>3, <2>4 DEF limitVars, LimitsInv, BudgetInv, SlotsInv, SlotsAreCalls
  <1> QED BY <1>1, <1>2, LimitsStep DEF Next, vars

(* limiter: whatever a client batches, however long it idles and although   *)
(* sweep forgets it, it is never let through with more than one burst and   *)
(* the refill of the time gone by; and the slots taken are the calls that   *)
(* are running, at most MaxConcurrent.                                      *)
THEOREM LimitsAlwaysHold == Spec => []LimitsHold
  <1>1. Init => LimitsInv
    <2> SUFFICES ASSUME Init PROVE LimitsInv
      OBVIOUS
    <2> USE LimitsAssumption
    <2>1. now = 0 /\ DOMAIN clients = {} /\ granted = [c \in Clients |-> 0] /\ slots = 0
          /\ calls = [i \in Connections |-> [left |-> 0, running |-> FALSE]]
      BY DEF Init, LimitsInit
    <2>2. BudgetInv
      BY <2>1 DEF BudgetInv
    <2>3. Cardinality({i \in Connections : calls[i].running}) = 0
      <3>1. {i \in Connections : calls[i].running} = {}
        BY <2>1
      <3> QED BY <3>1, FS_EmptySet, Zenon
    <2>4. SlotsInv
      <3> DEFINE off == FALSE
      <3>1. calls = [i \in Connections |-> [left |-> 0, running |-> off]] /\ off \in BOOLEAN
        BY <2>1
      <3> HIDE DEF off
      <3>2. DOMAIN calls = Connections
            /\ \A i \in Connections : /\ calls[i] = [f \in {"left", "running"} |-> calls[i][f]]
                                      /\ calls[i].running \in BOOLEAN
        BY <3>1
      <3> QED BY <2>1, <2>3, <3>2 DEF SlotsInv, SlotsAreCalls
    <2> QED BY <2>2, <2>4 DEF LimitsInv
  <1>2. LimitsInv => LimitsHold
    <2> SUFFICES ASSUME LimitsInv, NEW c \in Clients
                 PROVE  granted[c] <= Burst + now * RequestsPerSecond
      BY DEF LimitsHold, WithinBudget, LimitsInv, SlotsInv
    <2>1. Tokens(c) \in Nat /\ granted[c] + Tokens(c) <= Burst + now * RequestsPerSecond
      BY TokensBound DEF LimitsInv
    <2>2. granted[c] \in Nat /\ now \in Nat /\ Burst \in Nat /\ RequestsPerSecond \in Nat
      BY LimitsAssumption DEF LimitsInv, BudgetInv
    <2>3. now * RequestsPerSecond \in Nat
      BY <2>2
    <2> QED BY <2>1, <2>2, <2>3
  <1> QED BY <1>1, <1>2, LimitsNode, PTL DEF Spec

-----------------------------------------------------------------------------
(* The chain, as far as the filters see it: blocks are paths. *)

IsPath(b) == \E n \in Nat : b = [i \in 1..n |-> b[i]]

ChainInv ==
    /\ \A b \in known : IsPath(b)
    /\ IsPath(head)
    /\ built # None => IsPath(built)

(* A path has a height, and a block on top of it is one higher. *)
LEMMA PathFacts ==
    ASSUME NEW b, IsPath(b), NEW label
    PROVE  Height(b) \in Nat /\ IsPath(Append(b, label))
  <1>1. PICK n \in Nat : b = [i \in 1..n |-> b[i]]
    BY DEF IsPath
  <1> DEFINE S == {b[i] : i \in 1..n} \cup {label}
  <1>2. b \in Seq(S) /\ label \in S
    BY <1>1
  <1> HIDE DEF S
  <1>3. Len(b) \in Nat /\ Append(b, label) \in Seq(S)
    BY <1>2
  <1>4. \A s \in Seq(S) : Len(s) \in Nat /\ s = [i \in 1..Len(s) |-> s[i]]
    OBVIOUS
  <1> QED BY <1>3, <1>4, Zenon DEF IsPath, Height

(* The steps that touch the chain keep the paths, and lower the head only   *)
(* where the history variable says so.                                      *)
LEMMA ChainNode ==
    ASSUME ChainInv, [Next]_vars
    PROVE  /\ ChainInv'
           /\ lowered' \/ Height(head') >= Height(head)
           /\ lowered => lowered'
  <1>0. Height(head) \in Nat
    BY PathFacts DEF ChainInv
  <1>1. ASSUME NEW b, IsPath(b), InsertBlock(b)
        PROVE  (\A d \in known' : IsPath(d)) /\ IsPath(head') /\ Height(head') >= Height(head)
    <2>1. Height(b) \in Nat
      BY <1>1, PathFacts
    <2>2. known' = known \cup {b} /\ head' = IF Height(b) > Height(head) THEN b ELSE head
      BY <1>1 DEF InsertBlock
    <2> QED BY <1>0, <1>1, <2>1, <2>2 DEF ChainInv
  <1>2. ASSUME NEW bodies, HandleBlock(bodies) PROVE ChainInv' /\ Height(head') >= Height(head)
    <2>1. PICK parent \in known, txs \in bodies : InsertBlock(Append(parent, txs))
      BY <1>2 DEF HandleBlock
    <2>2. IsPath(Append(parent, txs))
      BY PathFacts DEF ChainInv
    <2>3. built' = built
      BY <1>2 DEF HandleBlock, poolVars
    <2> QED BY <1>1, <2>1, <2>2, <2>3 DEF ChainInv
  <1>3. ASSUME NEW b \in known, FinalizeBlock(b) PROVE ChainInv'
    BY <1>3 DEF FinalizeBlock, ChainInv, poolVars
  <1>4. ASSUME NEW bodies, ChainNext(bodies), lowered' = (lowered \/ Height(head') < Height(head))
        PROVE  /\ ChainInv'
               /\ lowered' \/ Height(head') >= Height(head)
               /\ lowered => lowered'
    <2>1. ChainInv'
      BY <1>2, <1>3, <1>4 DEF ChainNext
    <2>2. Height(head') \in Nat
      BY <2>1, PathFacts DEF ChainInv
    <2>3. Height(head') < Height(head) \/ Height(head') >= Height(head)
      BY <1>0, <2>2
    <2> QED BY <1>4, <2>1, <2>3, Zenon
  <1>5. ASSUME PoolNext, lowered' = lowered
        PROVE  ChainInv' /\ Height(head') >= Height(head)
    <2>1. CASE UNCHANGED <<head, known, built>>
      BY <1>0, <2>1 DEF ChainInv
    <2>2. CASE BuildBlock
      <3>1. built' = Append(head, Included(CurrentState, candidates)) /\ UNCHANGED <<head, known>>
        BY <2>2 DEF BuildBlock, chainVars
      <3>2. IsPath(built')
        BY <3>1, PathFacts DEF ChainInv
      <3> QED BY <1>0, <3>1, <3>2 DEF ChainInv
    <2>3. CASE Commit
      <3>1. built # None /\ built' = None
        BY <2>3 DEF Commit
      <3>2. InsertBlock(built) \/ UNCHANGED <<head, known>>
        BY <2>3 DEF Commit, chainVars
      <3> QED BY <1>0, <1>1, <3>1, <3>2 DEF ChainInv
    <2>4. (\E tx \in Txs : BeginAdd(tx)) \/ FinishAdd \/ TakeReady \/ (\E b \in resets : ResetPool(b))
              => UNCHANGED <<head, known, built>>
      BY DEF BeginAdd, FinishAdd, TakeReady, ResetPool, chainVars
    <2> QED BY <1>5, <2>1, <2>2, <2>3, <2>4 DEF PoolNext
  <1>6. CASE UNCHANGED <<chainVars, poolVars, lowered>>
    BY <1>0, <1>6 DEF chainVars, poolVars, ChainInv
  <1> QED BY <1>4, <1>5, <1>6 DEF Next, Tick, vars

-----------------------------------------------------------------------------
(* The filters. *)

(* Every height from the filter's first up to n has been reported. *)
ReportedTo(id, n) == \A h \in Int : told[id].from <= h /\ h <= n => h \in told[id].heights

(* What holds of a filter's record and of a call's. *)
FilterOK(id, r) ==
    /\ r = [f \in {"cursor", "lastUsed"} |-> r[f]]
    /\ r.cursor \in Nat
    /\ ~lowered => ReportedTo(id, r.cursor - 1)

PollOK(r) ==
    /\ r = [f \in {"at", "id", "next", "head"} |-> r[f]]
    /\ r.at # "idle" => r.id \in 1..nextID
    /\ r.at \in {"start", "loop"} => r.head \in Nat /\ (~lowered => r.head <= Height(head))
    /\ r.at = "loop" => r.next \in Nat /\ (~lowered => ReportedTo(r.id, r.next - 1))

(* A poll works on what it read: the cursor it started from and the head of *)
(* that moment.  While no head is taken back, all that it has passed was    *)
(* reported, and so was all that the cursor has passed, whichever poll set  *)
(* it last.                                                                 *)
FiltersInv ==
    /\ nextID \in Nat
    /\ DOMAIN filters \subseteq 1..nextID
    /\ DOMAIN told = 1..nextID
    /\ \A id \in 1..nextID : told[id] = [f \in {"from", "heights"} |-> told[id][f]] /\ told[id].from \in Nat
    /\ \A id \in DOMAIN filters : FilterOK(id, filters[id])
    /\ DOMAIN polls = Polls
    /\ \A p \in Polls : PollOK(polls[p])

(* What an earlier step established stays so: more is told, no identifier  *)
(* is forgotten, and unless the head was lowered it is no lower.           *)
Onward ==
    /\ nextID \in Nat /\ nextID' \in Nat /\ nextID <= nextID'
    /\ Height(head) \in Nat /\ Height(head') \in Nat
    /\ lowered' \/ (Height(head') >= Height(head) /\ ~lowered)
    /\ \A id \in 1..nextID : told'[id].from = told[id].from /\ told[id].heights \subseteq told'[id].heights

LEMMA OnwardKeeps ==
    ASSUME Onward
    PROVE  /\ \A id \in 1..nextID : \A r : FilterOK(id, r) => FilterOK(id, r)'
           /\ \A r : PollOK(r) => PollOK(r)'
  <1>1. ASSUME NEW id \in 1..nextID, NEW n, ReportedTo(id, n) PROVE ReportedTo(id, n)'
    BY <1>1 DEF Onward, ReportedTo
  <1>2. 1..nextID \subseteq 1..(nextID')
    BY DEF Onward
  <1>3. ASSUME NEW id \in 1..nextID, NEW r, FilterOK(id, r) PROVE FilterOK(id, r)'
    BY <1>1, <1>3 DEF FilterOK, Onward
  <1>4. ASSUME NEW r, PollOK(r) PROVE PollOK(r)'
    BY <1>1, <1>2, <1>4 DEF PollOK, Onward
  <1> QED BY <1>3, <1>4

(* Onward, where neither the chain nor what was told changes. *)
LEMMA StillOnward ==
    ASSUME ChainInv, FiltersInv, UNCHANGED <<head, lowered, nextID, told>>
    PROVE  Onward
  <1>1. Height(head) \in Nat
    BY PathFacts DEF ChainInv
  <1> QED BY <1>1 DEF Onward, FiltersInv

(* One call moves on, the filters as they are or with one record replaced. *)
LEMMA PollMoves ==
    ASSUME ChainInv, FiltersInv, UNCHANGED <<head, lowered, nextID, told>>,
           NEW p \in Polls, NEW r, PollOK(r), polls' = [polls EXCEPT ![p] = r],
           \/ filters' = filters
           \/ \E id \in DOMAIN filters : \E f : FilterOK(id, f) /\ filters' = [filters EXCEPT ![id] = f]
    PROVE  FiltersInv'
  <1>1. Onward
    BY StillOnward
  <1>2. DOMAIN polls' = Polls /\ \A q \in Polls : PollOK(polls'[q])
    BY DEF FiltersInv
  <1>3. DOMAIN filters' = DOMAIN filters /\ \A id \in DOMAIN filters : FilterOK(id, filters'[id])
    <2>1. CASE filters' = filters
      BY <2>1 DEF FiltersInv
    <2>2. ASSUME NEW k \in DOMAIN filters, NEW f, FilterOK(k, f), filters' = [filters EXCEPT ![k] = f]
          PROVE  DOMAIN filters' = DOMAIN filters /\ \A id \in DOMAIN filters : FilterOK(id, filters'[id])
      BY <2>2 DEF FiltersInv
    <2> QED BY <2>1, <2>2
  <1>4. (\A q \in Polls : PollOK(polls[q])') /\ (\A id \in DOMAIN filters : FilterOK(id, filters[id])')
    BY <1>1, <1>2, <1>3, OnwardKeeps DEF FiltersInv
  <1> QED BY <1>2, <1>3, <1>4 DEF FiltersInv

(* getFilterChanges takes the filter, and marks it as used. *)
LEMMA GetFilterKeeps ==
    ASSUME ChainInv, FiltersInv, NEW p \in Polls, NEW id \in DOMAIN filters, GetFilter(p, id),
           UNCHANGED <<head, lowered>>
    PROVE  FiltersInv'
  <1> DEFINE r == [at |-> "got", id |-> id, next |-> 0, head |-> 0]
             g == [filters[id] EXCEPT !.lastUsed = now]
  <1>2. PollOK(r)
    BY DEF PollOK, FiltersInv
  <1>3. FilterOK(id, filters[id])
    BY DEF FiltersInv
  <1>4. g = [f \in {"cursor", "lastUsed"} |-> g[f]] /\ g.cursor = filters[id].cursor
    BY <1>3 DEF FilterOK
  <1>5. filters' = [filters EXCEPT ![id] = g] /\ polls' = [polls EXCEPT ![p] = r] /\ UNCHANGED <<nextID, told>>
    BY DEF GetFilter
  <1> HIDE DEF r, g
  <1>6. FilterOK(id, g)
    BY <1>3, <1>4 DEF FilterOK
  <1> QED BY <1>2, <1>5, <1>6, PollMoves, Zenon

(* It reads the height of the head ... *)
LEMMA CurrentBlockKeeps ==
    ASSUME ChainInv, FiltersInv, NEW p \in Polls, CurrentBlock(p), UNCHANGED <<head, lowered>>
    PROVE  FiltersInv'
  <1> DEFINE r == [f \in {"at", "id", "next", "head"} |->
                     IF f = "at" THEN "start" ELSE IF f = "head" THEN Height(head) ELSE polls[p][f]]
  <1>1. Height(head) \in Nat
    BY PathFacts DEF ChainInv
  <1>2. PollOK(polls[p]) /\ polls[p].at = "got"
    BY DEF FiltersInv, CurrentBlock
  <1>3. polls' = [polls EXCEPT ![p] = r] /\ UNCHANGED <<filters, nextID, told>>
    BY <1>2, Zenon DEF CurrentBlock, FiltersInv, PollOK
  <1>4. r = [f \in {"at", "id", "next", "head"} |-> r[f]] /\ r.at = "start" /\ r.id = polls[p].id
        /\ r.head = Height(head)
    OBVIOUS
  <1> HIDE DEF r
  <1>5. r.id \in 1..nextID /\ r.head \in Nat /\ r.head <= Height(head) /\ r.at # "loop"
    BY <1>1, <1>2, <1>4 DEF PollOK
  <1>6. PollOK(r)
    BY <1>4, <1>5, Zenon DEF PollOK
  <1> QED BY <1>3, <1>6, PollMoves, Zenon

(* ... and starts from the cursor, if the filter still exists. *)
LEMMA StartLoopKeeps ==
    ASSUME ChainInv, FiltersInv, NEW p \in Polls, StartLoop(p), UNCHANGED <<head, lowered>>
    PROVE  FiltersInv'
  <1> DEFINE k == polls[p].id
             r == [f \in {"at", "id", "next", "head"} |->
                     IF f = "at" THEN "loop" ELSE IF f = "next" THEN filters[k].cursor ELSE polls[p][f]]
  <1>1. PollOK(polls[p]) /\ polls[p].at = "start"
    BY DEF FiltersInv, StartLoop
  <1>2. CASE k \in DOMAIN filters
    <2>1. polls' = [polls EXCEPT ![p] = r] /\ UNCHANGED <<filters, nextID, told>>
      BY <1>1, <1>2, Zenon DEF StartLoop, FiltersInv, PollOK
    <2>2. FilterOK(k, filters[k])
      BY <1>2 DEF FiltersInv
    <2>3. PollOK(r)
      BY <1>1, <2>2, Zenon DEF PollOK, FilterOK
    <2> HIDE DEF r
    <2> QED BY <2>1, <2>3, PollMoves, Zenon
  <1>3. CASE k \notin DOMAIN filters
    <2>1. polls' = [polls EXCEPT ![p] = IdlePoll] /\ UNCHANGED <<filters, nextID, told>>
      BY <1>3 DEF StartLoop
    <2>2. PollOK(IdlePoll)
      BY Zenon DEF PollOK, IdlePoll
    <2> QED BY <2>1, <2>2, PollMoves, Zenon
  <1> QED BY <1>2, <1>3

(* At the end the cursor is put past the head read at the start, which the *)
(* call has passed as well, whatever another poll put there meanwhile.     *)
LEMMA FinishPollKeeps ==
    ASSUME ChainInv, FiltersInv, NEW p \in Polls, FinishPoll(p), UNCHANGED <<head, lowered>>
    PROVE  FiltersInv'
  <1> DEFINE k == polls[p].id
             g == [f \in {"cursor", "lastUsed"} |-> IF f = "cursor" THEN polls[p].head + 1 ELSE filters[k][f]]
  <1>1. PollOK(polls[p]) /\ polls[p].at = "loop" /\ polls[p].next > polls[p].head
    BY DEF FiltersInv, FinishPoll
  <1>2. polls' = [polls EXCEPT ![p] = IdlePoll] /\ UNCHANGED <<nextID, told>>
    BY DEF FinishPoll
  <1>3. PollOK(IdlePoll)
    BY DEF PollOK, IdlePoll
  <1>4. CASE k \in DOMAIN filters
    <2>1. FilterOK(k, filters[k])
      BY <1>4 DEF FiltersInv
    <2>2. filters' = [filters EXCEPT ![k] = g]
      BY <1>4, <2>1, Zenon DEF FinishPoll, FilterOK
    <2>3. polls[p].head \in Nat /\ polls[p].next \in Nat /\ (~lowered => ReportedTo(k, polls[p].next - 1))
      BY <1>1 DEF PollOK
    <2>4. \A h \in Int : h <= polls[p].head => h <= polls[p].next - 1
      BY <1>1, <2>3
    <2>41. ~lowered => ReportedTo(k, polls[p].head)
      BY <2>3, <2>4, Zenon DEF ReportedTo
    <2>5. g = [f \in {"cursor", "lastUsed"} |-> g[f]] /\ g.cursor = polls[p].head + 1
      OBVIOUS
    <2> HIDE DEF g
    <2>6. g.cursor \in Nat /\ g.cursor - 1 = polls[p].head
      BY <2>3, <2>5
    <2>7. FilterOK(k, g)
      BY <2>41, <2>5, <2>6 DEF FilterOK
    <2> QED BY <1>2, <1>3, <1>4, <2>2, <2>7, PollMoves, Zenon
  <1>5. CASE k \notin DOMAIN filters
    BY <1>2, <1>3, <1>5, PollMoves, Zenon DEF FinishPoll
  <1> QED BY <1>4, <1>5

(* A height between the cursor and the head is reported: while no head is  *)
(* taken back the head read at the start is still on the chain.            *)
LEMMA ReportBlockKeeps ==
    ASSUME ChainInv, FiltersInv, NEW p \in Polls, ReportBlock(p), UNCHANGED <<head, lowered>>
    PROVE  FiltersInv'
  <1> DEFINE k == polls[p].id
             n == polls[p].next
             hs == IF n <= Height(head) THEN told[k].heights \cup {n} ELSE told[k].heights
             tk == [f \in {"from", "heights"} |-> IF f = "heights" THEN hs ELSE told[k][f]]
             r == [f \in {"at", "id", "next", "head"} |-> IF f = "next" THEN n + 1 ELSE polls[p][f]]
  <1>1. /\ PollOK(polls[p]) /\ polls[p].at = "loop" /\ n <= polls[p].head
        /\ UNCHANGED <<filters, nextID>>
    BY DEF FiltersInv, ReportBlock
  <1>2. k \in 1..nextID /\ n \in Nat /\ polls[p].head \in Nat /\ Height(head) \in Nat
    BY <1>1, PathFacts DEF PollOK, ChainInv
  <1>3. /\ DOMAIN told' = 1..nextID /\ told'[k] = tk
        /\ \A i \in 1..nextID : i # k => told'[i] = told[i]
    <2>1. k \in DOMAIN told /\ told[k] = [f \in {"from", "heights"} |-> told[k][f]]
      BY <1>2 DEF FiltersInv
    <2>2. CASE n <= Height(head)
      <3>1. told' = [told EXCEPT ![k].heights = @ \cup {n}]
        BY <2>2 DEF ReportBlock
      <3>2. tk = [told[k] EXCEPT !.heights = @ \cup {n}]
        BY <2>1, <2>2
      <3>3. told' = [told EXCEPT ![k] = tk]
        BY <3>1, <3>2, Zenon
      <3> HIDE DEF tk
      <3> QED BY <1>2, <3>3 DEF FiltersInv
    <2>3. CASE ~(n <= Height(head))
      <3>1. told' = told
        BY <2>3 DEF ReportBlock
      <3>2. tk = told[k]
        BY <2>1, <2>3
      <3> QED BY <3>1, <3>2 DEF FiltersInv
    <2> QED BY <2>2, <2>3
  <1>4. polls' = [polls EXCEPT ![p] = r]
    BY <1>1, Zenon DEF ReportBlock, FiltersInv, PollOK
  <1>5. tk = [f \in {"from", "heights"} |-> tk[f]] /\ tk.from = told[k].from /\ tk.heights = hs
    OBVIOUS
  <1>6. told[k].heights \subseteq hs /\ (~lowered => n \in hs)
    <2>1. ~lowered => polls[p].head <= Height(head)
      BY <1>1, Zenon DEF PollOK
    <2>2. polls[p].head <= Height(head) => n <= Height(head)
      BY <1>1, <1>2
    <2>3. ~lowered => n <= Height(head)
      BY <2>1, <2>2, Zenon
    <2> QED BY <2>3, Zenon
  <1> HIDE DEF tk, hs
  <1>8. \A i \in 1..nextID : /\ told'[i] = [f \in {"from", "heights"} |-> told'[i][f]]
                             /\ told'[i].from = told[i].from /\ told'[i].from \in Nat
                             /\ told[i].heights \subseteq told'[i].heights
    BY <1>2, <1>5, <1>6, <1>3 DEF FiltersInv
  <1>9. Onward
    <2>1. \A i \in 1..nextID : told'[i].from = told[i].from /\ told[i].heights \subseteq told'[i].heights
      BY <1>8, Zenon
    <2>2. nextID \in Nat /\ nextID' = nextID /\ nextID <= nextID'
      BY <1>1 DEF FiltersInv
    <2>3. head' = head /\ lowered' = lowered /\ Height(head') >= Height(head)
      BY <1>2
    <2>4. Height(head) \in Nat /\ Height(head') \in Nat
      BY <1>2, <2>3
    <2>5. lowered' \/ (Height(head') >= Height(head) /\ ~lowered)
      BY <2>3
    <2> QED BY <2>1, <2>2, <2>4, <2>5, Zenon DEF Onward
  <1>10. ASSUME NEW x, x = r PROVE PollOK(x)'
    <2>1. /\ x = [f \in {"at", "id", "next", "head"} |-> x[f]]
          /\ x.at = "loop" /\ x.id = k /\ x.next = n + 1 /\ x.head = polls[p].head
      BY <1>1, <1>10
    <2>2. ~lowered => polls[p].head <= Height(head) /\ ReportedTo(k, n - 1)
      BY <1>1 DEF PollOK
    <2>3. ~lowered => \A h \in Int : told'[k].from <= h /\ h <= n => h \in told'[k].heights
      <3>1. told'[k].from = told[k].from /\ told[k].heights \subseteq told'[k].heights
            /\ told'[k].heights = hs
        BY <1>2, <1>3, <1>5, <1>8
      <3>2. \A h \in Int : h <= n => h <= n - 1 \/ h = n
        BY <1>2
      <3> QED BY <1>6, <2>2, <3>1, <3>2, Zenon DEF ReportedTo
    <2>4. x.next - 1 = n /\ x.next \in Nat
      BY <1>2, <2>1
    <2>5. ~lowered => ReportedTo(x.id, x.next - 1)'
      BY <2>1, <2>3, <2>4 DEF ReportedTo
    <2> QED BY <1>1, <1>2, <2>1, <2>2, <2>4, <2>5 DEF PollOK
  <1>11. DOMAIN polls' = Polls /\ \A q \in Polls : PollOK(polls[q])'
    <2>1. DOMAIN polls' = Polls /\ polls'[p] = r /\ \A q \in Polls : q # p => polls'[q] = polls[q]
      BY <1>4 DEF FiltersInv
    <2>2. \A q \in Polls : PollOK(polls[q])
      BY DEF FiltersInv
    <2> HIDE DEF r
    <2>3. PollOK(polls[p])'
      BY <1>10, <2>1
    <2> QED BY <1>9, <2>1, <2>2, <2>3, OnwardKeeps
  <1>12. \A i \in DOMAIN filters : FilterOK(i, filters[i])'
    BY <1>1, <1>9, OnwardKeeps DEF FiltersInv
  <1> QED BY <1>1, <1>3, <1>8, <1>11, <1>12 DEF FiltersInv

(* A new filter starts above the head with nothing due; the expired go. *)
LEMMA NewBlockFilterKeeps ==
    ASSUME ChainInv, FiltersInv, NewBlockFilter, UNCHANGED <<head, lowered>>
    PROVE  FiltersInv'
  <1> DEFINE k == nextID + 1
             h == Height(head) + 1
             g == [cursor |-> h, lastUsed |-> now]
             tk == [from |-> h, heights |-> {}]
  <1>1. nextID \in Nat /\ Height(head) \in Nat /\ Live \subseteq DOMAIN filters
    BY PathFacts, Zenon DEF FiltersInv, ChainInv, Live
  <1>2. nextID' = k /\ polls' = polls
    BY DEF NewBlockFilter
  <1>3. /\ told' = [x \in DOMAIN told \cup {k} |-> IF x = k THEN tk ELSE told[x]]
        /\ DOMAIN filters' = Live \cup {k} /\ filters'[k] = g
        /\ \A x \in Live : x # k => filters'[x] = filters[x]
    BY DEF NewBlockFilter, Put
  <1>4. /\ tk = [f \in {"from", "heights"} |-> tk[f]] /\ tk.from = h
        /\ g = [f \in {"cursor", "lastUsed"} |-> g[f]] /\ g.cursor = h
    OBVIOUS
  <1>5. h \in Nat /\ h - 1 < h /\ 1..(nextID') = 1..nextID \cup {k} /\ k \notin 1..nextID /\ k \in Nat
    BY <1>1, <1>2
  <1> HIDE DEF g, tk
  <1>6. /\ DOMAIN told' = 1..(nextID') /\ told'[k] = tk
        /\ \A x \in 1..nextID : told'[x] = told[x]
    BY <1>3, <1>5 DEF FiltersInv
  <1>7. Onward
    BY <1>1, <1>2, <1>6 DEF Onward, FiltersInv
  <1>8. ASSUME NEW i, i = k PROVE FilterOK(i, filters[i])'
    <2>1. ASSUME NEW x, x = g PROVE FilterOK(i, x)'
      <3>1. ReportedTo(i, x.cursor - 1)'
        BY <1>1, <1>4, <1>6, <1>8, <2>1 DEF ReportedTo
      <3> QED BY <1>4, <1>5, <2>1, <3>1 DEF FilterOK
    <2> QED BY <1>3, <1>8, <2>1
  <1>9. \A id \in DOMAIN filters' : FilterOK(id, filters[id])'
    BY <1>1, <1>3, <1>7, <1>8, OnwardKeeps DEF FiltersInv
  <1>10. \A p \in Polls : PollOK(polls[p])'
    BY <1>2, <1>7, OnwardKeeps DEF FiltersInv
  <1>11. \A id \in 1..(nextID') : /\ told'[id] = [f \in {"from", "heights"} |-> told'[id][f]]
                                 /\ told'[id].from \in Nat
    BY <1>4, <1>5, <1>6 DEF FiltersInv
  <1>12. DOMAIN filters' \subseteq 1..(nextID')
    BY <1>1, <1>3, <1>5 DEF FiltersInv
  <1> QED BY <1>2, <1>5, <1>6, <1>9, <1>10, <1>11, <1>12, Zenon DEF FiltersInv

LEMMA RemoveFilterKeeps ==
    ASSUME ChainInv, FiltersInv, NEW id, RemoveFilter(id), UNCHANGED <<head, lowered>>
    PROVE  FiltersInv'
  <1>1. Onward
    BY StillOnward DEF RemoveFilter
  <1>2. /\ DOMAIN filters' \subseteq DOMAIN filters /\ UNCHANGED <<nextID, polls, told>>
        /\ \A i \in DOMAIN filters' : filters'[i] = filters[i]
    BY DEF RemoveFilter
  <1>3. (\A i \in DOMAIN filters' : FilterOK(i, filters[i])') /\ \A p \in Polls : PollOK(polls[p])'
    BY <1>1, <1>2, OnwardKeeps DEF FiltersInv
  <1> QED BY <1>2, <1>3 DEF FiltersInv

LEMMA FiltersNode == ChainInv /\ FiltersInv /\ [Next]_vars => FiltersInv'
  <1> SUFFICES ASSUME ChainInv, FiltersInv, [Next]_vars PROVE FiltersInv'
    OBVIOUS
  <1>1. CASE FiltersNext /\ UNCHANGED <<head, lowered>>
    BY <1>1, NewBlockFilterKeeps, RemoveFilterKeeps, GetFilterKeeps, CurrentBlockKeeps, StartLoopKeeps,
       FinishPollKeeps, ReportBlockKeeps DEF FiltersNext
  <1>2. CASE UNCHANGED filterVars
    <2>1. Height(head) \in Nat /\ Height(head') \in Nat
      BY ChainNode, PathFacts DEF ChainInv
    <2>2. lowered' \/ (Height(head') >= Height(head) /\ ~lowered)
      BY ChainNode, Zenon
    <2>3. Onward
      BY <1>2, <2>1, <2>2 DEF Onward, FiltersInv, filterVars
    <2>4. (\A i \in DOMAIN filters : FilterOK(i, filters[i])') /\ \A p \in Polls : PollOK(polls[p])'
      BY <1>2, <2>3, OnwardKeeps DEF FiltersInv, filterVars
    <2> QED BY <1>2, <2>4 DEF FiltersInv, filterVars
  <1> QED BY <1>1, <1>2 DEF Next, Tick, vars, chainVars

(* filterSet: however calls interleave with one another, with new blocks   *)
(* and with the removal of filters, no height from a filter's first up to  *)
(* its cursor is left unreported, unless finality moved the head down.     *)
THEOREM NoHeightEverPassedOver == Spec => []NoHeightPassedOver
  <1>1. Init => ChainInv /\ FiltersInv
    <2> SUFFICES ASSUME Init PROVE ChainInv /\ FiltersInv
      OBVIOUS
    <2>1. IsPath(Genesis)
      BY DEF IsPath, Genesis
    <2>2. ChainInv
      BY <2>1 DEF Init, NodeInit, ChainInv
    <2>3. PollOK(IdlePoll)
      BY DEF PollOK, IdlePoll
    <2> QED BY <2>2, <2>3 DEF Init, FiltersInv
  <1>2. ChainInv /\ FiltersInv /\ [Next]_vars => (ChainInv /\ FiltersInv)'
    BY ChainNode, FiltersNode
  <1>3. ChainInv /\ FiltersInv => NoHeightPassedOver
    <2> SUFFICES ASSUME FiltersInv, ~lowered, NEW id \in DOMAIN filters
                 PROVE  told[id].from..(filters[id].cursor - 1) \subseteq told[id].heights
      BY DEF NoHeightPassedOver
    <2>1. FilterOK(id, filters[id]) /\ told[id].from \in Nat
      BY DEF FiltersInv
    <2> QED BY <2>1 DEF FilterOK, ReportedTo
  <1> QED BY <1>1, <1>2, <1>3, PTL DEF Spec
=============================================================================
