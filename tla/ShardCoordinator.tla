-------------------------- MODULE ShardCoordinator --------------------------
(***************************************************************************)
(* The shard coordinator: the singleton actor that decides which node      *)
(* hosts which shard (coerce/src/sharding/coordinator).  It keeps two      *)
(* views of one assignment, `shards` (shard -> node) and `hosts`           *)
(* (node -> status and set of shards), and journals every shard the first  *)
(* time it is asked for, so that its successor can rebuild the assignment. *)
(*                                                                         *)
(* The actor handles one message at a time.  A handler that allocates      *)
(* several shards is a loop of steps over `work`; no other handler starts  *)
(* before `work` is empty.  The tasks it spawns run concurrently: `stops`  *)
(* counts those that wait for a host to answer StopShard.                  *)
(***************************************************************************)
EXTENDS Integers, Sequences, FiniteSets

CONSTANTS
    Nodes,      \* the node ids of the cluster
    Shards,     \* the shard ids
    NoNode,     \* "no entry": not a node
    MaxEvents,  \* bound: membership changes, restarts and explicit rebalances
    MaxLog      \* bound: journalled AllocateShard messages

ASSUME NodesAssumption == NoNode \notin Nodes
ASSUME ShardsAssumption == IsFiniteSet(Shards)
ASSUME BoundsAssumption == MaxEvents \in Nat /\ MaxLog \in Nat

VARIABLES
    self_node_id,   \* node the coordinator runs on; NoNode: it is down
    status,         \* hosts[n].status, or "unknown" where hosts has no entry n
    host_shards,    \* hosts[n].shards
    shards,         \* shard -> node, NoNode where there is no entry
    log,            \* shard ids of the journalled AllocateShard messages
    work,           \* shards the running handler has still to allocate
    stops,          \* tasks of rebalance_shards waiting for ShardStopped
    scheduled,      \* the timer of scheduled_rebalance is running
    fired,          \* Rebalance::All messages in the mailbox
    events          \* how much of MaxEvents is spent

coordinator == <<self_node_id, status, host_shards, shards, work, stops,
                 scheduled, fired>>
vars == <<coordinator, log, events>>

Statuses == {"unknown", "Ready", "Unavailable"}
Running == self_node_id # NoNode
Idle == Running /\ work = <<>>
Known == {n \in Nodes : status[n] # "unknown"}
is_ready(n) == status[n] = "Ready"
Load(n) == Cardinality(host_shards[n])
Allocated == {s \in Shards : shards[s] # NoNode}

Spend == events < MaxEvents /\ events' = events + 1

\* The orders in which a loop over the set S may visit it.
Orderings(S) == {q \in [1..Cardinality(S) -> S] :
                   \A i, j \in DOMAIN q : i # j => q[i] # q[j]}

-----------------------------------------------------------------------------
Init ==
    /\ self_node_id = NoNode
    /\ status = [n \in Nodes |-> "unknown"]
    /\ host_shards = [n \in Nodes |-> {}]
    /\ shards = [s \in Shards |-> NoNode]
    /\ log = <<>>
    /\ work = <<>>
    /\ stops = [s \in Shards |-> [n \in Nodes |-> 0]]
    /\ scheduled = FALSE
    /\ fired = 0
    /\ events = 0

\* `pre_recovery`, then recovery: the node itself is Ready, the rest of the
\* cluster is as the node list says, no host holds a shard, and every journalled
\* AllocateShard is allocated again, in order, before any message is handled.
pre_recovery(n, nodes) ==
    /\ ~Running
    /\ self_node_id' = n
    /\ status' = [nodes EXCEPT ![n] = "Ready"]
    /\ work' = log
    /\ UNCHANGED <<host_shards, shards, stops, scheduled, fired, log, events>>

\* The coordinator stops, or its node does.  Only the journal survives.
Stop ==
    /\ Running
    /\ Spend
    /\ self_node_id' = NoNode
    /\ status' = [n \in Nodes |-> "unknown"]
    /\ host_shards' = [n \in Nodes |-> {}]
    /\ shards' = [s \in Shards |-> NoNode]
    /\ work' = <<>>
    /\ stops' = [s \in Shards |-> [n \in Nodes |-> 0]]
    /\ scheduled' = FALSE
    /\ fired' = 0
    /\ UNCHANGED log

-----------------------------------------------------------------------------
(* Allocation *)

MutantLeastLoaded == {n \in Nodes : \A m \in Nodes : Load(n) <= Load(m)}

\* The hosts that may come first when the ready ones are sorted by load.
LeastLoaded == {n \in Nodes : /\ is_ready(n)
                              /\ \A m \in Nodes : is_ready(m) => Load(n) <= Load(m)}

allocate(s, n) ==
    /\ n \in LeastLoaded
    /\ shards' = [shards EXCEPT ![s] = n]
    /\ host_shards' = [host_shards EXCEPT ![n] = @ \cup {s}]

MutantAllocateShard ==
    /\ work # <<>>
    /\ \E n \in Nodes : allocate(Head(work), n)
    /\ work' = Tail(work)
    /\ UNCHANGED <<self_node_id, status, log, stops, scheduled, fired, events>>

\* One call of allocate_shard: AlreadyAllocated and NotAllocated change nothing.
allocate_shard ==
    /\ work # <<>>
    /\ LET s == Head(work)
       IN  \/ /\ shards[s] # NoNode \/ LeastLoaded = {}
              /\ UNCHANGED <<shards, host_shards>>
           \/ /\ shards[s] = NoNode
              /\ \E n \in Nodes : allocate(s, n)
    /\ work' = Tail(work)
    /\ UNCHANGED <<self_node_id, status, log, stops, scheduled, fired, events>>

MutantAllocateUnpersisted(s) ==
    /\ Idle
    /\ shards[s] = NoNode
    /\ work' = <<s>>
    /\ UNCHANGED <<self_node_id, status, host_shards, shards, log, stops,
                   scheduled, fired, events>>

\* AllocateShard { rebalancing: false } for a shard without an entry: persist,
\* then allocate.  (For a shard with an entry the handler changes nothing.  The
\* coordinator keeps the default policy, under which persist is tried again until
\* it succeeds: the error branch is never taken.)
AllocateShard(s) ==
    /\ Idle
    /\ shards[s] = NoNode
    /\ Len(log) < MaxLog
    /\ log' = Append(log, s)
    /\ work' = <<s>>
    /\ UNCHANGED <<self_node_id, status, host_shards, shards, stops, scheduled,
                   fired, events>>

-----------------------------------------------------------------------------
(* Rebalancing *)

\* rebalance_shards(R): shards with an entry lose it, and one task per such
\* shard asks the host it was on to stop it.
rebalance_shards(R) ==
    /\ shards' = [s \in Shards |-> IF s \in R THEN NoNode ELSE shards[s]]
    /\ host_shards' = [n \in Nodes |-> host_shards[n] \ R]
    /\ stops' = [s \in Shards |-> [n \in Nodes |->
                   IF s \in R /\ shards[s] = n THEN stops[s][n] + 1 ELSE stops[s][n]]]

\* A task got its answer: AllocateShard { rebalancing: true }, not journalled.
AllocateRebalanced(s, n) ==
    /\ Idle
    /\ stops[s][n] > 0
    /\ stops' = [stops EXCEPT ![s][n] = @ - 1]
    /\ work' = <<s>>
    /\ UNCHANGED <<self_node_id, status, host_shards, shards, log, scheduled,
                   fired, events>>

\* A task failed (StopShard could not be sent, or the answer was not readable):
\* the error is logged and nothing else happens.
StopFailed(s, n) ==
    /\ stops[s][n] > 0
    /\ stops' = [stops EXCEPT ![s][n] = @ - 1]
    /\ UNCHANGED <<self_node_id, status, host_shards, shards, log, work,
                   scheduled, fired, events>>

FairShardCount == Cardinality(Allocated) \div Cardinality(Known)

MutantSurplus(R) ==
    \A n \in Nodes :
        Cardinality(R \cap host_shards[n]) =
            IF Load(n) > FairShardCount + 1 THEN Load(n) - FairShardCount - 1 ELSE 0

\* R takes from every host with more than the fair count the surplus; which
\* shards of the host it takes is the iteration order of a HashSet.
Surplus(R) ==
    \A n \in Nodes :
        Cardinality(R \cap host_shards[n]) =
            IF Load(n) > FairShardCount THEN Load(n) - FairShardCount ELSE 0

\* Rebalance::All
RebalanceAll ==
    /\ Idle
    /\ fired > 0
    /\ fired' = fired - 1
    /\ \E R \in SUBSET Allocated : Surplus(R) /\ rebalance_shards(R)
    /\ UNCHANGED <<self_node_id, status, log, work, scheduled, events>>

\* Rebalance::Shards
RebalanceShards(R) ==
    /\ Idle
    /\ Spend
    /\ rebalance_shards(R)
    /\ UNCHANGED <<self_node_id, status, log, work, scheduled, fired>>

\* The timer of schedule_full_rebalance fires.
RebalanceTimer ==
    /\ scheduled
    /\ scheduled' = FALSE
    /\ fired' = fired + 1
    /\ UNCHANGED <<self_node_id, status, host_shards, shards, log, work, stops, events>>

-----------------------------------------------------------------------------
(* Membership *)

\* NodeAdded for a node that is new, or known and not Ready.  (For a Ready one
\* nothing changes.)  A rebalance that is already scheduled is replaced.
on_node_discovered(n) ==
    /\ Idle
    /\ ~is_ready(n)
    /\ Spend
    /\ status' = [status EXCEPT ![n] = "Ready"]
    /\ scheduled' = TRUE
    /\ UNCHANGED <<self_node_id, host_shards, shards, log, work, stops, fired>>

MutantNodeRemoved(n) ==
    /\ Idle
    /\ n \in Known \ {self_node_id}
    /\ Spend
    /\ status' = [status EXCEPT ![n] = "Unavailable"]
    /\ host_shards' = [host_shards EXCEPT ![n] = {}]
    /\ work' \in Orderings(host_shards[n])
    /\ UNCHANGED <<self_node_id, shards, log, stops, scheduled, fired>>

\* NodeRemoved: rebalance_unavailable_node takes the host's shards and allocates
\* them again one by one.  The host itself is not told.  (The code removes each
\* entry of `shards` just before it allocates that shard again; nobody reads
\* the map in between.)
on_node_removed(n) ==
    /\ Idle
    /\ n \in Known \ {self_node_id}
    /\ Spend
    /\ status' = [status EXCEPT ![n] = "Unavailable"]
    /\ host_shards' = [host_shards EXCEPT ![n] = {}]
    /\ shards' = [s \in Shards |-> IF s \in host_shards[n] THEN NoNode ELSE shards[s]]
    /\ work' \in Orderings(host_shards[n])
    /\ UNCHANGED <<self_node_id, log, stops, scheduled, fired>>

-----------------------------------------------------------------------------
Start == \E n \in Nodes : \E nodes \in [Nodes -> Statuses] : pre_recovery(n, nodes)

Next ==
    \/ Start
    \/ Stop
    \/ allocate_shard
    \/ \E s \in Shards : AllocateShard(s)
    \/ \E s \in Shards, n \in Nodes : AllocateRebalanced(s, n)
    \/ \E s \in Shards, n \in Nodes : StopFailed(s, n)
    \/ RebalanceAll
    \/ \E R \in SUBSET Shards : RebalanceShards(R)
    \/ RebalanceTimer
    \/ \E n \in Nodes : on_node_discovered(n)
    \/ \E n \in Nodes : on_node_removed(n)

Spec == Init /\ [][Next]_vars

-----------------------------------------------------------------------------
(* Properties *)

\* The types of the coordinator's fields and of the tasks it spawned.
TypeOK ==
    /\ self_node_id \in Nodes \cup {NoNode}
    /\ status \in [Nodes -> Statuses]
    /\ host_shards \in [Nodes -> SUBSET Shards]
    /\ shards \in [Shards -> Nodes \cup {NoNode}]
    /\ log \in Seq(Shards)
    /\ work \in Seq(Shards)
    /\ stops \in [Shards -> [Nodes -> Nat]]
    /\ scheduled \in BOOLEAN
    /\ fired \in Nat
    /\ events \in Nat

\* The two maps of the coordinator describe one assignment: a shard's entry in
\* `shards` names the one host whose set holds it, through allocation,
\* rebalancing, loss of nodes and recovery.  rebalance_shards relies on it: it
\* unwraps hosts.get_mut(shards.remove(shard)).
OneAssignment ==
    \A s \in Shards, n \in Nodes : shards[s] = n <=> s \in host_shards[n]

\* A shard is only ever assigned to a host that is marked Ready, and the node
\* of the coordinator is one: a removed node keeps nothing, and a node that
\* comes back comes back empty.
AssignedToReady ==
    /\ \A s \in Allocated : is_ready(shards[s])
    /\ Running => is_ready(self_node_id)

\* No allocation is visible before it is durable: every shard that is assigned
\* or being moved is in the journal the next coordinator recovers from, though
\* the allocations made by a rebalance are not journalled themselves.
AllocatedIsJournalled ==
    \A s \in Shards :
        (shards[s] # NoNode \/ \E n \in Nodes : stops[s][n] > 0)
            => \E i \in DOMAIN log : log[i] = s

\* No rebalance is due or under way and every journalled shard has a host.
Settled ==
    /\ Idle
    /\ ~scheduled
    /\ fired = 0
    /\ \A i \in DOMAIN log : shards[log[i]] # NoNode

\* "Automatic load balancing, shards will be fairly allocated across the
\* cluster" (README.md): once settled, no ready host has two shards more than
\* another.
FairlyAllocated ==
    Settled => \A m, n \in Nodes : is_ready(m) /\ is_ready(n) => Load(m) <= Load(n) + 1

\* A shard changes host only by way of "no host": in no single step does its
\* entry go from one node to another, so a move is always preceded by
\* ShardReallocating or by the loss of the host.
NoDirectMove ==
    [][\A s \in Shards : shards[s] # NoNode => shards'[s] \in {shards[s], NoNode}]_vars
=============================================================================
