------------------------------ MODULE RpcNode ------------------------------
(***************************************************************************)
(* The polling filters of the RPC server (rpc/filters.go) over the chain   *)
(* of module PoolNode, and the whole node seen by its clients.             *)
(*                                                                         *)
(* Filters, the limiter and the pool do not touch one another's state:     *)
(* what they share is the chain and the clock.  side names the one a       *)
(* behaviour follows next to the chain, so that their interleavings, which *)
(* commute, are not multiplied.                                            *)
(***************************************************************************)
EXTENDS PoolNode, RpcLimits

CONSTANTS
    Polls,          \* getFilterChanges calls in flight
    FilterTTL, MaxFilters,
    Sides,          \* which of the three are explored
    EmptyBlocks     \* what blocks carry where transactions do not matter

VARIABLES
    side,
    filters,    \* by identifier: cursor and lastUsed
    nextID,
    polls,      \* where each call in flight is
    told,       \* by identifier: the first height due and those reported (history)
    lowered     \* Finalize has moved the head to a lower block (history)

filterVars == <<filters, nextID, polls, told>>
vars == <<chainVars, poolVars, now, limitVars, side, filterVars, lowered>>

IdlePoll == [at |-> "idle", id |-> 0, next |-> 0, head |-> 0]

\* expireLocked
Live == {id \in DOMAIN filters : filters[id].lastUsed >= now - FilterTTL}

(* newBlockFilter: add only uses the height read before it, so the two are *)
(* one step.  Filters that have not been polled lately go.                 *)
NewBlockFilter ==
    /\ nextID < MaxFilters
    /\ nextID' = nextID + 1
    /\ filters' = Put([id \in Live |-> filters[id]], nextID', [cursor |-> Height(head) + 1, lastUsed |-> now])
    /\ told' = Put(told, nextID', [from |-> Height(head) + 1, heights |-> {}])
    /\ UNCHANGED polls

RemoveFilter(id) ==
    /\ id \in DOMAIN filters
    /\ filters' = [i \in DOMAIN filters \ {id} |-> filters[i]]
    /\ UNCHANGED <<nextID, polls, told>>

\* getFilterChanges: get, under the set's lock; from here on without it.
GetFilter(p, id) ==
    /\ polls[p].at = "idle" /\ id \in DOMAIN filters
    /\ filters' = [filters EXCEPT ![id].lastUsed = now]
    /\ polls' = [polls EXCEPT ![p] = [at |-> "got", id |-> id, next |-> 0, head |-> 0]]
    /\ UNCHANGED <<nextID, told>>

CurrentBlock(p) ==
    /\ polls[p].at = "got"
    /\ polls' = [polls EXCEPT ![p].at = "start", ![p].head = Height(head)]
    /\ UNCHANGED <<filters, nextID, told>>

\* The filter itself lives on in this call when it is removed meanwhile.
StartLoop(p) ==
    /\ polls[p].at = "start"
    /\ polls' = IF polls[p].id \in DOMAIN filters
                THEN [polls EXCEPT ![p].at = "loop", ![p].next = filters[polls[p].id].cursor]
                ELSE [polls EXCEPT ![p] = IdlePoll]
    /\ UNCHANGED <<filters, nextID, told>>

\* GetBlockByNumber: a height the canonical index no longer has is skipped.
ReportBlock(p) ==
    /\ polls[p].at = "loop" /\ polls[p].next <= polls[p].head
    /\ told' = IF polls[p].next <= Height(head)
               THEN [told EXCEPT ![polls[p].id].heights = @ \cup {polls[p].next}]
               ELSE told
    /\ polls' = [polls EXCEPT ![p].next = @ + 1]
    /\ UNCHANGED <<filters, nextID>>

\* Variant with a fault: the cursor follows the head of now.
FinishPollLate(p) ==
    /\ polls[p].at = "loop" /\ polls[p].next > polls[p].head
    /\ filters' = IF polls[p].id \in DOMAIN filters
                  THEN [filters EXCEPT ![polls[p].id].cursor = Height(head) + 1]
                  ELSE filters
    /\ polls' = [polls EXCEPT ![p] = IdlePoll]
    /\ UNCHANGED <<nextID, told>>

FinishPoll(p) ==
    /\ polls[p].at = "loop" /\ polls[p].next > polls[p].head
    /\ filters' = IF polls[p].id \in DOMAIN filters
                  THEN [filters EXCEPT ![polls[p].id].cursor = polls[p].head + 1]
                  ELSE filters
    /\ polls' = [polls EXCEPT ![p] = IdlePoll]
    /\ UNCHANGED <<nextID, told>>

FiltersNext ==
    \/ NewBlockFilter
    \/ \E p \in Polls : \/ CurrentBlock(p) \/ StartLoop(p)
                        \/ ReportBlock(p) \/ FinishPoll(p)
                        \/ \E id \in DOMAIN filters : GetFilter(p, id)
    \/ \E id \in DOMAIN filters : RemoveFilter(id)
-----------------------------------------------------------------------------
Init ==
    /\ NodeInit /\ LimitsInit
    /\ side \in Sides
    /\ filters = [id \in {} |-> 0] /\ nextID = 0 /\ told = [id \in {} |-> 0]
    /\ polls = [p \in Polls |-> IdlePoll] /\ lowered = FALSE

Tick ==
    /\ \/ side = "limits" /\ now < MaxTime
       \/ side = "filters" /\ now <= FilterTTL
    /\ now' = now + 1
    /\ UNCHANGED <<chainVars, poolVars, limitVars, side, filterVars, lowered>>

Next ==
    \/ /\ \/ side = "pool" /\ ChainNext(PeerBlocks)
          \/ side = "filters" /\ ChainNext(EmptyBlocks)
       /\ lowered' = (lowered \/ Height(head') < Height(head))
       /\ UNCHANGED <<now, limitVars, side, filterVars>>
    \/ side = "pool" /\ PoolNext /\ UNCHANGED <<now, limitVars, side, filterVars, lowered>>
    \/ side = "limits" /\ LimitsNext /\ UNCHANGED <<chainVars, poolVars, side, filterVars, lowered>>
    \/ side = "filters" /\ FiltersNext /\ UNCHANGED <<chainVars, poolVars, now, limitVars, side, lowered>>
    \/ Tick

Spec == Init /\ [][Next]_vars
-----------------------------------------------------------------------------
TypeOK ==
    /\ PoolTypeOK
    /\ \A c \in DOMAIN clients : clients[c].tokens \in 0..Burst /\ clients[c].last \in 0..now
    /\ \A id \in DOMAIN filters : id \in 1..nextID /\ filters[id].cursor \in 1..(MaxHeight + 1)

\* getFilterChanges works on the filter without the lock, while other calls poll
\* the same filter and blocks arrive between its reads.  Even so no height is
\* passed over: every one from the filter's first up to the cursor has been
\* reported, as long as finality has not moved the head down.
NoHeightPassedOver ==
    ~lowered => \A id \in DOMAIN filters : told[id].from..(filters[id].cursor - 1) \subseteq told[id].heights
=============================================================================
