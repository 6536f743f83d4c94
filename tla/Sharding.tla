------------------------------ MODULE Sharding ------------------------------
(***************************************************************************)
(* The coordinator and the hosts of a sharded entity type together         *)
(* (coerce/src/sharding).  The coordinator's handlers spawn tasks that     *)
(* send to the hosts: nothing orders the messages of two tasks, nor those  *)
(* of a task and the answer to a host's own AllocateShard.                 *)
(* The coordinator is started once here and keeps running.                 *)
(***************************************************************************)
EXTENDS ShardHost

CONSTANTS
    MaxEvents, MaxLog,  \* bounds of ShardCoordinator
    Prompt,             \* a host is not slower than the 90 ms for which a remote
                        \* message is tried again while its actor is missing
    Scenarios           \* what may happen to the cluster, a subset of {"join",
                        \* "leave", "rebalance"}, and which requests are made

\* As ShardCoordinator assumes.
ASSUME ShardingAssumption ==
    NoNode \notin Nodes /\ IsFiniteSet(Shards) /\ MaxEvents \in Nat /\ MaxLog \in Nat

VARIABLES
    self_node_id, status, host_shards, shards, log, work, stops, scheduled,
    fired, events,  \* ShardCoordinator
    tasks,          \* broadcast tasks, with the hosts each has still to send to
    emitted,        \* number of tasks spawned so far: it names them
    waiting,        \* StopShard tasks that wait for the answer of a host
    caller,         \* host whose AllocateShard is being handled, or NoNode
    scenario        \* the member of Scenarios that unfolds, fixed from the start

coord == <<self_node_id, status, host_shards, shards, log, work, stops, scheduled,
           fired, events>>
vars == <<host_vars, coord, tasks, emitted, waiting, caller, scenario>>

Coordinator == INSTANCE ShardCoordinator

Init == /\ HostInit
        /\ Coordinator!Init
        /\ tasks = {}
        /\ emitted = 0
        /\ waiting = {}
        /\ caller = NoNode
        /\ scenario \in Scenarios

-----------------------------------------------------------------------------
(* What the coordinator's handlers send *)

\* broadcast_allocation, to the hosts that are ready.
broadcast_allocation(s) ==
    [no |-> emitted + 1, type |-> "ShardAllocated", shard |-> s, node |-> shards'[s],
     to |-> {n \in Nodes : Coordinator!is_ready(n)}]

MutantReply(h, s) ==
    [no |-> emitted + 2, type |-> "ShardAllocated", shard |-> s, node |-> h, to |-> {h}]

\* The result of AllocateShard, which the host that asked turns into a
\* ShardAllocated message to itself.
Reply(h, s) ==
    [no |-> emitted + 2, type |-> "ShardAllocated", shard |-> s, node |-> shards'[s], to |-> {h}]

\* broadcast_reallocation, to all known hosts, and StopShard to the old one.
broadcast_reallocation(s, no) ==
    [no |-> no, type |-> "ShardReallocating", shard |-> s, to |-> Coordinator!Known]

StopTask(s, no) ==
    [no |-> no, type |-> "StopShard", shard |-> s, req |-> no, to |-> {shards[s]}]

\* Numbers for the tasks of the shards in R, two for each.
Numbering(R) == CHOOSE f \in [R -> 1..Cardinality(R)] : \A x, y \in R : x # y => f[x] # f[y]

-----------------------------------------------------------------------------
(* Steps of the coordinator *)

Start ==
    /\ Coordinator!Start
    /\ UNCHANGED <<host_vars, tasks, emitted, waiting, caller>>

MutantAllocateStep ==
    /\ Coordinator!allocate_shard
    /\ LET s == Head(work)
       IN  /\ tasks' = tasks
                \cup (IF shards'[s] # shards[s] THEN {broadcast_allocation(s)} ELSE {})
           /\ asks' = IF caller = NoNode THEN asks ELSE [asks EXCEPT ![caller][s] = @ - 1]
    /\ emitted' = emitted + 2
    /\ caller' = NoNode
    /\ UNCHANGED <<mailbox, routing, actors, registry, ref_cache, last_id, stopping, sending,
                   answers, served, dropped, waiting>>

\* One allocation.  A new one is broadcast; a host that asked is answered.
AllocateStep ==
    /\ Coordinator!allocate_shard
    /\ LET s == Head(work)
       IN  /\ tasks' = tasks
                \cup (IF shards'[s] # shards[s] THEN {broadcast_allocation(s)} ELSE {})
                \cup (IF caller # NoNode /\ shards'[s] # NoNode THEN {Reply(caller, s)} ELSE {})
           /\ asks' = IF caller = NoNode THEN asks ELSE [asks EXCEPT ![caller][s] = @ - 1]
    /\ emitted' = emitted + 2
    /\ caller' = NoNode
    /\ UNCHANGED <<mailbox, routing, actors, registry, ref_cache, last_id, stopping, sending, answers,
                   served, dropped, waiting>>

\* A host's AllocateShard: persist and allocate, or AlreadyAllocated.
Ask(h, s) ==
    /\ asks[h][s] > 0
    /\ \/ /\ Coordinator!AllocateShard(s)
          /\ caller' = h
          /\ UNCHANGED <<asks, tasks, emitted>>
       \/ /\ Coordinator!Idle
          /\ shards[s] # NoNode
          /\ UNCHANGED <<coord, caller>>
          /\ tasks' = tasks \cup {Reply(h, s)}
          /\ emitted' = emitted + 2
          /\ asks' = [asks EXCEPT ![h][s] = @ - 1]
    /\ UNCHANGED <<mailbox, routing, actors, registry, ref_cache, last_id, stopping, sending, answers,
                   served, dropped, waiting>>

\* The answer to StopShard reaches the task that waits for it.
Answer(t) ==
    /\ t \in answers
    /\ t.req \in waiting
    /\ Coordinator!AllocateRebalanced(t.shard, t.node)
    /\ waiting' = waiting \ {t.req}
    /\ UNCHANGED <<host_vars, tasks, emitted, caller>>

SpawnRebalance ==
    LET R == {s \in Shards : shards[s] # NoNode /\ shards'[s] = NoNode}
        no(s) == emitted + 2 * Numbering(R)[s]
    IN  /\ tasks' = tasks \cup {broadcast_reallocation(s, no(s) - 1) : s \in R}
                          \cup {StopTask(s, no(s)) : s \in R}
        /\ waiting' = waiting \cup {no(s) : s \in R}
        /\ emitted' = emitted + 2 * Cardinality(R)
        /\ UNCHANGED <<host_vars, caller>>

Rebalance ==
    \/ Coordinator!RebalanceAll /\ SpawnRebalance
    \/ /\ "rebalance" \in scenario.changes
       /\ \E R \in SUBSET Coordinator!Allocated : R # {} /\ Coordinator!RebalanceShards(R)
       /\ SpawnRebalance

Membership ==
    /\ \/ "join" \in scenario.changes /\ \E n \in Nodes : Coordinator!on_node_discovered(n)
       \/ "leave" \in scenario.changes /\ \E n \in Nodes : Coordinator!on_node_removed(n)
       \/ Coordinator!RebalanceTimer
    /\ UNCHANGED <<host_vars, tasks, emitted, waiting, caller>>

-----------------------------------------------------------------------------
(* Messages *)

\* A task sends to the next host.  broadcast_allocation first sends to the node
\* the shard is allocated to, and waits until that host has handled the message.
Send(b, h) ==
    /\ b \in tasks
    /\ h \in b.to
    /\ b.type = "ShardAllocated" /\ b.node # h =>
          /\ b.node \notin b.to
          /\ \A i \in DOMAIN mailbox[b.node] :
                mailbox[b.node][i].type = "ShardAllocated" => mailbox[b.node][i].no # b.no
    /\ mailbox' = [mailbox EXCEPT ![h] = Append(@, [b EXCEPT !.to = {}])]
    /\ tasks' = (tasks \ {b}) \cup (IF b.to = {h} THEN {} ELSE {[b EXCEPT !.to = @ \ {h}]})
    /\ UNCHANGED <<routing, asks, actors, registry, ref_cache, last_id, stopping, sending, answers, served,
                   dropped, coord, emitted, waiting, caller>>

\* A client hands a request to the host of its node.
Request(h, s, r) ==
    /\ r \in scenario.requests
    /\ Places(r) = {}
    /\ mailbox' = [mailbox EXCEPT ![h] =
                     Append(@, [type |-> "EntityRequest", shard |-> s, request |-> r])]
    /\ UNCHANGED <<routing, asks, actors, registry, ref_cache, last_id, stopping, sending, answers, served,
                   dropped, coord, tasks, emitted, waiting, caller>>

\* An allocation to the node the request was sent to is on its way.
Starting(d) ==
    \/ \E b \in tasks : b.type = "ShardAllocated" /\ b.node = d.node /\ d.node \in b.to
    \/ \E i \in DOMAIN mailbox[d.node] : mailbox[d.node][i].type = "ShardAllocated"

HostStep ==
    /\ HostNext \/ \E d \in sending : NotFound(d) /\ ~(Prompt /\ Starting(d))
    /\ UNCHANGED <<coord, tasks, emitted, waiting, caller>>

CoordinatorStep ==
    \/ Start \/ AllocateStep \/ Rebalance
    \/ \E h \in Nodes, s \in Shards : Ask(h, s)
    \/ \E t \in answers : Answer(t)

Next ==
    /\ \/ CoordinatorStep
       \/ Membership
       \/ \E b \in tasks : \E h \in b.to : Send(b, h)
       \/ \E h \in Nodes, s \in Shards, r \in Requests : Request(h, s, r)
       \/ HostStep
    /\ UNCHANGED scenario

\* Mailboxes are drained and tasks are polled, timers fire, messages arrive and
\* there is a coordinator; clients and the cluster may stop doing anything.
Fairness ==
    /\ WF_vars(CoordinatorStep /\ UNCHANGED scenario)
    /\ WF_vars(/\ Coordinator!RebalanceTimer
               /\ UNCHANGED <<host_vars, tasks, emitted, waiting, caller, scenario>>)
    /\ WF_vars(\E b \in tasks : \E h \in b.to : Send(b, h) /\ UNCHANGED scenario)
    /\ WF_vars(HostStep /\ UNCHANGED scenario)

Spec == Init /\ [][Next]_vars /\ Fairness

-----------------------------------------------------------------------------
(* Properties *)

Stable == scenario.changes = {}

\* In a cluster whose members do not change and with one coordinator, a shard
\* has one actor and it is on the node the coordinator chose, whichever hosts
\* ask for it, however often, and in whatever order they learn the answer.
OneActor ==
    Stable => /\ \A a, b \in actors : a.shard = b.shard => a = b
              /\ \A a \in actors : shards[a.shard] = a.node

\* There, no host routes to another node than the one that runs the shard.
RoutesToOwner ==
    Stable => \A h \in Nodes, s \in Shards :
        /\ remote_shards[h][s] # NoNode => remote_shards[h][s] = shards[s]
        /\ hosted_shards[h][s] # NotHosted => h = shards[s]

\* There, every request a client makes is handed to the shard actor in the end:
\* none stays in the buffers for unallocated and for starting shards, none is
\* dropped.
RequestsAreServed ==
    <>[](\A r \in Requests : Stable /\ Places(r) # {} => r \in served)

\* A request waits for an allocation only while a task of its host waits for
\* the coordinator or an allocation is on its way to the host.
PendingHasWakeup ==
    \A h \in Nodes, s \in Shards : pending[h][s] # {} =>
        \/ asks[h][s] > 0
        \/ \E b \in tasks : b.type = "ShardAllocated" /\ b.shard = s /\ h \in b.to
        \/ \E i \in DOMAIN mailbox[h] :
              mailbox[h][i].type = "ShardAllocated" /\ mailbox[h][i].shard = s
=============================================================================
