----------------------------- MODULE RpcLimits -----------------------------
(***************************************************************************)
(* Admission control of the RPC server (rpc/limits.go, Server.ServeHTTP    *)
(* and serve): a token bucket for each client and a pool of slots that     *)
(* bounds the calls executing at once.  Tokens are whole numbers and time  *)
(* is counted in ticks of RequestsPerSecond tokens.                        *)
(***************************************************************************)
EXTENDS Integers, FiniteSets, FiniteSetsExt

CONSTANTS
    Clients,
    Connections,        \* HTTP requests in flight
    Burst, RequestsPerSecond, MaxConcurrent, ClientTTL,   \* Limits
    Batches,            \* how many calls of cost one a request may hold
    MaxTime

(* DefaultLimits: an idle client's budget is full long before it is         *)
(* forgotten.                                                               *)
ASSUME LimitsAssumption ==
    /\ IsFiniteSet(Connections) /\ Batches \subseteq Nat \ {0}
    /\ {Burst, RequestsPerSecond, MaxConcurrent, ClientTTL} \subseteq Nat
    /\ Burst <= ClientTTL * RequestsPerSecond

VARIABLES
    now,
    clients,    \* the remembered budgets
    granted,    \* what each client was let through with in all (history)
    calls,      \* by connection: how many calls are left, and is one running
    slots       \* taken

limitVars == <<clients, granted, calls, slots>>

Put(f, k, v) == [x \in DOMAIN f \cup {k} |-> IF x = k THEN v ELSE f[x]]

LimitsInit ==
    /\ now = 0 /\ clients = [c \in {} |-> 0] /\ granted = [c \in Clients |-> 0]
    /\ calls = [i \in Connections |-> [left |-> 0, running |-> FALSE]] /\ slots = 0

Tokens(c) ==
    IF c \in DOMAIN clients
    THEN Min({clients[c].tokens + (now - clients[c].last) * RequestsPerSecond, Burst})
    ELSE Burst

\* Variant with a fault: a batch is charged as one call.
AllowBatchAsOne(i, c, cost) ==
    LET ok == Tokens(c) >= 1 IN
    /\ clients' = Put(clients, c, [tokens |-> Tokens(c) - (IF ok THEN 1 ELSE 0), last |-> now])
    /\ granted' = IF ok THEN [granted EXCEPT ![c] = @ + cost] ELSE granted
    /\ calls' = IF ok THEN [calls EXCEPT ![i].left = cost] ELSE calls

(* allow: a request is charged for every call in it, and refused outright  *)
(* when the budget does not reach.                                         *)
Allow(i, c, cost) ==
    LET ok == Tokens(c) >= cost IN
    /\ clients' = Put(clients, c, [tokens |-> Tokens(c) - (IF ok THEN cost ELSE 0), last |-> now])
    /\ granted' = IF ok THEN [granted EXCEPT ![c] = @ + cost] ELSE granted
    /\ calls' = IF ok THEN [calls EXCEPT ![i].left = cost] ELSE calls

ServeHTTP(i, c, cost) ==
    /\ calls[i].left = 0
    /\ Allow(i, c, cost)
    /\ UNCHANGED <<now, slots>>

Acquire(i) ==
    /\ calls[i].left > 0 /\ ~calls[i].running /\ slots < MaxConcurrent
    /\ calls' = [calls EXCEPT ![i].running = TRUE]
    /\ slots' = slots + 1
    /\ UNCHANGED <<now, clients, granted>>

\* acquire gives up after CallTimeout: an error, and on to the next call.
AtCapacity(i) ==
    /\ calls[i].left > 0 /\ ~calls[i].running /\ slots = MaxConcurrent
    /\ calls' = [calls EXCEPT ![i].left = @ - 1]
    /\ UNCHANGED <<now, clients, granted, slots>>

\* dispatch returns, or recovers from a panic; release is deferred.
Dispatch(i) ==
    /\ calls[i].running
    /\ calls' = [calls EXCEPT ![i] = [left |-> @.left - 1, running |-> FALSE]]
    /\ slots' = IF slots > 0 THEN slots - 1 ELSE slots
    /\ UNCHANGED <<now, clients, granted>>

Sweep ==
    /\ \E c \in DOMAIN clients : clients[c].last < now - ClientTTL
    /\ clients' = [c \in {d \in DOMAIN clients : clients[d].last >= now - ClientTTL} |-> clients[c]]
    /\ UNCHANGED <<now, granted, calls, slots>>

LimitsNext ==
    \/ \E i \in Connections, c \in Clients, cost \in Batches : ServeHTTP(i, c, cost)
    \/ \E i \in Connections : Acquire(i) \/ AtCapacity(i) \/ Dispatch(i)
    \/ Sweep
-----------------------------------------------------------------------------
\* Limiter.allow and sweep: whatever a client batches, however long it idles and
\* even if its budget is forgotten meanwhile, what it was let through with is
\* never more than one burst and the refill of the time gone by.
WithinBudget == \A c \in Clients : granted[c] <= Burst + now * RequestsPerSecond

\* Limiter.acquire and release: the slots taken are the calls that are running,
\* so a slot is never lost or freed twice and the cap holds.
SlotsAreCalls ==
    /\ slots = Cardinality({i \in Connections : calls[i].running})
    /\ slots <= MaxConcurrent

\* The limiter keeps both of its promises.
LimitsHold == WithinBudget /\ SlotsAreCalls
=============================================================================
