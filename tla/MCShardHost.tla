----------------------------- MODULE MCShardHost -----------------------------
(***************************************************************************)
(* The hosts of ShardHost in an environment that sends them any protocol   *)
(* message in any order: the most that reordering, delay and a restarted   *)
(* coordinator can do to them.                                             *)
(***************************************************************************)
EXTENDS ShardHost

CONSTANTS
    Hosts,          \* the nodes whose hosts receive messages
    MaxArrivals     \* bound: ShardAllocated and ShardReallocating messages

ASSUME HostsAssumption ==
    Hosts \subseteq Nodes /\ Requests \cap Stops = {} /\ MaxArrivals \in Nat

VARIABLES
    arrivals,   \* ShardAllocated and ShardReallocating messages so far
    used        \* the requests and the StopShard ids that have been sent

vars == <<host_vars, arrivals, used>>

Arrive(h, m) ==
    /\ mailbox' = [mailbox EXCEPT ![h] = Append(@, m)]
    /\ UNCHANGED <<routing, actors, registry, ref_cache, last_id, stopping, sending, answers, served, dropped>>

ArriveRequest(h, s, r) ==
    /\ r \notin used
    /\ used' = used \cup {r}
    /\ Arrive(h, [type |-> "EntityRequest", shard |-> s, request |-> r])
    /\ UNCHANGED <<asks, arrivals>>

ArriveStop(h, s, i) ==
    /\ i \notin used
    /\ used' = used \cup {i}
    /\ Arrive(h, [type |-> "StopShard", shard |-> s, req |-> i])
    /\ UNCHANGED <<asks, arrivals>>

ArriveBroadcast(h, m) ==
    /\ arrivals < MaxArrivals
    /\ arrivals' = arrivals + 1
    /\ Arrive(h, m)
    /\ UNCHANGED <<asks, used>>

\* The coordinator answers AllocateShard.
ArriveAnswer(h, s, n) ==
    /\ asks[h][s] > 0
    /\ asks' = [asks EXCEPT ![h][s] = @ - 1]
    /\ Arrive(h, [type |-> "ShardAllocated", shard |-> s, node |-> n])
    /\ UNCHANGED <<arrivals, used>>

Environment ==
    \E h \in Hosts, s \in Shards :
        \/ \E r \in Requests : ArriveRequest(h, s, r)
        \/ \E i \in Stops : ArriveStop(h, s, i)
        \/ \E n \in Nodes :
               \/ ArriveBroadcast(h, [type |-> "ShardAllocated", shard |-> s, node |-> n])
               \/ ArriveAnswer(h, s, n)
        \/ ArriveBroadcast(h, [type |-> "ShardReallocating", shard |-> s])

Init == HostInit /\ arrivals = 0 /\ used = {}

HostStep == (HostNext \/ \E d \in sending : NotFound(d)) /\ UNCHANGED <<arrivals, used>>

Next == Environment \/ HostStep

Spec == Init /\ [][Next]_vars

-----------------------------------------------------------------------------
(* Properties *)

\* Whatever the order of allocations, stops and restarts of the shard, a request
\* is always in exactly one place: no buffer keeps a copy of a request it has
\* passed on, so none reaches an entity twice, and none disappears unnoticed.
OnePlace == \A r \in Requests \cap used : Cardinality(Places(r)) = 1

=============================================================================
