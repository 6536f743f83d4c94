------------------------------ MODULE ShardHost ------------------------------
(***************************************************************************)
(* The shard hosts, one actor per node (coerce/src/sharding/host), with    *)
(* the shard actors they start and stop.  A host routes entity requests:   *)
(* to a shard actor of its own, to the shard actor of another node, or to  *)
(* a buffer while the coordinator is asked for an allocation.              *)
(*                                                                         *)
(* A mailbox is a FIFO queue and a host handles one message at a time.     *)
(* Shard actors, and the tasks that stop them or carry requests, run       *)
(* concurrently.  Several actors of one shard may be alive on one node:    *)
(* each has an `id` of its own, and the node's registry maps the shard's   *)
(* actor id to one of them.                                                *)
(***************************************************************************)
EXTENDS Naturals, Sequences, FiniteSets

CONSTANTS
    Nodes,      \* the node ids of the cluster
    Shards,     \* the shard ids
    NoNode,     \* "no entry": not a node
    Requests,   \* the entity requests
    Stops       \* the request ids of StopShard messages

VARIABLES
    mailbox,        \* node -> messages the host has not handled yet
    hosted_shards,  \* node -> shard -> entry, NotHosted where there is none
    remote_shards,  \* node -> shard -> node, NoNode where there is no entry
    requests_pending_shard_allocation,  \* node -> shard -> requests
    asks,           \* node -> shard -> tasks waiting for an AllocateShardResult
    actors,         \* the shard actors that are alive
    registry,       \* node -> shard -> id of the registered actor, 0: none
    ref_cache,      \* node -> shard -> actor last found by a remote message, 0: none
    last_id,        \* node -> id of the last shard actor started there
    stopping,       \* tasks of stop_shard
    sending,        \* tasks that carry a request to a shard actor
    answers,        \* ShardStopped results sent to the coordinator's node
    served,         \* requests in the mailbox of a shard actor that will run them
    dropped         \* requests that will never be answered, or with an error

routing == <<hosted_shards, remote_shards, requests_pending_shard_allocation>>
host_vars == <<mailbox, routing, asks, actors, registry, ref_cache, last_id, stopping,
               sending, answers, served, dropped>>

pending == requests_pending_shard_allocation
NotHosted == [state |-> "none", actor |-> 0, buffer |-> {}]

Alive(n, s, id) == \E a \in actors : a.node = n /\ a.shard = s /\ a.id = id

HostInit ==
    /\ mailbox = [n \in Nodes |-> <<>>]
    /\ hosted_shards = [n \in Nodes |-> [s \in Shards |-> NotHosted]]
    /\ remote_shards = [n \in Nodes |-> [s \in Shards |-> NoNode]]
    /\ requests_pending_shard_allocation = [n \in Nodes |-> [s \in Shards |-> {}]]
    /\ asks = [n \in Nodes |-> [s \in Shards |-> 0]]
    /\ actors = {}
    /\ registry = [n \in Nodes |-> [s \in Shards |-> 0]]
    /\ ref_cache = [n \in Nodes |-> [s \in Shards |-> 0]]
    /\ last_id = [n \in Nodes |-> 0]
    /\ stopping = {}
    /\ sending = {}
    /\ answers = {}
    /\ served = {}
    /\ dropped = {}

\* The host of node h takes a message of the given type from its mailbox.
Receive(h, type) ==
    /\ mailbox[h] # <<>>
    /\ Head(mailbox[h]).type = type
    /\ mailbox' = [mailbox EXCEPT ![h] = Tail(@)]

\* Stop is put in the mailbox of an actor.
SendStop(n, s, id) ==
    actors' = {IF a.node = n /\ a.shard = s /\ a.id = id
               THEN [a EXCEPT !.stop = TRUE] ELSE a : a \in actors}

-----------------------------------------------------------------------------
(* Requests *)

\* handle_request, for a set R of requests that meet the same entry e.
handle_request(h, s, e, R) ==
    \/ /\ e.state = "Starting"
       /\ hosted_shards' = [hosted_shards EXCEPT ![h][s] = [e EXCEPT !.buffer = @ \cup R]]
       /\ UNCHANGED <<sending, dropped>>
    \/ /\ e.state = "Ready"
       /\ hosted_shards' = [hosted_shards EXCEPT ![h][s] = e]
       /\ sending' = sending \cup {[request |-> r, node |-> h, shard |-> s,
                                    actor |-> e.actor] : r \in R}
       /\ UNCHANGED dropped
    \/ /\ e.state = "Stopping"
       /\ hosted_shards' = [hosted_shards EXCEPT ![h][s] = e]
       /\ dropped' = dropped \cup R
       /\ UNCHANGED sending

\* remote_entity_request: the request goes to whatever actor is registered
\* under the shard's actor id on the node (actor 0: look it up there).
remote_entity_request(n, s, R) ==
    sending' = sending \cup {[request |-> r, node |-> n, shard |-> s, actor |-> 0] : r \in R}

EntityRequest(h) ==
    /\ Receive(h, "EntityRequest")
    /\ LET s == Head(mailbox[h]).shard
           r == Head(mailbox[h]).request
           e == hosted_shards[h][s]
       IN  \/ /\ e # NotHosted
              /\ handle_request(h, s, e, {r})
              /\ UNCHANGED <<requests_pending_shard_allocation, asks>>
           \/ /\ e = NotHosted
              /\ remote_shards[h][s] # NoNode
              /\ remote_entity_request(remote_shards[h][s], s, {r})
              /\ UNCHANGED <<hosted_shards, requests_pending_shard_allocation, asks, dropped>>
           \/ /\ e = NotHosted
              /\ remote_shards[h][s] = NoNode
              /\ requests_pending_shard_allocation' = [pending EXCEPT ![h][s] = @ \cup {r}]
              /\ asks' = [asks EXCEPT ![h][s] = @ + 1]
              /\ UNCHANGED <<hosted_shards, sending, dropped>>
    /\ UNCHANGED <<remote_shards, actors, registry, ref_cache, last_id, stopping, answers, served>>

\* A request reaches the mailbox of actor `id`; behind a Stop nobody looks at it.
Enqueue(d, id) ==
    LET open == \E a \in actors : /\ a.node = d.node /\ a.shard = d.shard
                                  /\ a.id = id /\ ~a.stop
    IN  /\ sending' = sending \ {d}
        /\ served' = IF open THEN served \cup {d.request} ELSE served
        /\ dropped' = IF open THEN dropped ELSE dropped \cup {d.request}

DeliverLocal(d) ==
    /\ d.actor # 0
    /\ Enqueue(d, d.actor)
    /\ UNCHANGED <<mailbox, routing, asks, actors, registry, ref_cache, last_id, stopping, answers>>

\* get_actor_ref: the cached reference while its actor is alive, else the
\* registered one; 0: not found.
get_actor_ref(n, s) ==
    IF Alive(n, s, ref_cache[n][s]) THEN ref_cache[n][s] ELSE registry[n][s]

DeliverRemote(d) ==
    LET id == get_actor_ref(d.node, d.shard)
    IN  /\ d.actor = 0
        /\ id # 0
        /\ Enqueue(d, id)
        /\ ref_cache' = [ref_cache EXCEPT ![d.node][d.shard] = id]
        /\ UNCHANGED <<mailbox, routing, asks, actors, registry, last_id, stopping, answers>>

\* The actor was not found by any of the attempts, 10 ms apart, of handle_attempt.
NotFound(d) ==
    /\ d \in sending
    /\ d.actor = 0
    /\ get_actor_ref(d.node, d.shard) = 0
    /\ sending' = sending \ {d}
    /\ dropped' = dropped \cup {d.request}
    /\ UNCHANGED <<mailbox, routing, asks, actors, registry, ref_cache, last_id, stopping,
                   answers, served>>

-----------------------------------------------------------------------------
(* Allocation *)

\* new_actor_deferred: the actor is registered (whatever was registered before)
\* and starts in the background.
new_shard(h, s) ==
    LET id == last_id[h] + 1
    IN  /\ last_id' = [last_id EXCEPT ![h] = id]
        /\ registry' = [registry EXCEPT ![h][s] = id]
        /\ actors' = actors \cup {[node |-> h, shard |-> s, id |-> id,
                                   phase |-> "starting", stop |-> FALSE]}

MutantAllocatedHere(h, s) ==
    LET e == hosted_shards[h][s]
        new == [state |-> "Starting", actor |-> last_id[h] + 1, buffer |-> {}]
    IN  /\ IF e = NotHosted THEN new_shard(h, s) ELSE UNCHANGED <<actors, registry, last_id>>
        /\ handle_request(h, s, IF e = NotHosted THEN new ELSE e, pending[h][s])
        /\ remote_shards' = [remote_shards EXCEPT ![h][s] = NoNode]
        /\ UNCHANGED requests_pending_shard_allocation

MutantStartAgain(h, s) ==
    LET new == [state |-> "Starting", actor |-> last_id[h] + 1, buffer |-> {}]
    IN  /\ new_shard(h, s)
        /\ handle_request(h, s, new, pending[h][s])
        /\ remote_shards' = [remote_shards EXCEPT ![h][s] = NoNode]
        /\ requests_pending_shard_allocation' = [pending EXCEPT ![h][s] = {}]

\* The shard is allocated to this node: start it unless there is an entry.
AllocatedHere(h, s) ==
    LET e == hosted_shards[h][s]
        new == [state |-> "Starting", actor |-> last_id[h] + 1, buffer |-> {}]
    IN  /\ IF e = NotHosted THEN new_shard(h, s) ELSE UNCHANGED <<actors, registry, last_id>>
        /\ handle_request(h, s, IF e = NotHosted THEN new ELSE e, pending[h][s])
        /\ remote_shards' = [remote_shards EXCEPT ![h][s] = NoNode]
        /\ requests_pending_shard_allocation' = [pending EXCEPT ![h][s] = {}]

MutantAllocatedThere(h, s, n) ==
    LET e == hosted_shards[h][s]
    IN  /\ hosted_shards' = [hosted_shards EXCEPT ![h][s] = NotHosted]
        /\ IF e.state \in {"Starting", "Ready"} THEN SendStop(h, s, e.actor)
                                                ELSE UNCHANGED actors
        /\ dropped' = dropped \cup e.buffer
        /\ remote_shards' = [remote_shards EXCEPT ![h][s] = n]
        /\ UNCHANGED <<sending, requests_pending_shard_allocation, registry, last_id>>

\* It is allocated to node n: give up an entry of our own and stop its actor.
\* Requests buffered in the entry go with it.
AllocatedThere(h, s, n) ==
    LET e == hosted_shards[h][s]
    IN  /\ hosted_shards' = [hosted_shards EXCEPT ![h][s] = NotHosted]
        /\ IF e.state \in {"Starting", "Ready"} THEN SendStop(h, s, e.actor)
                                                ELSE UNCHANGED actors
        /\ dropped' = dropped \cup e.buffer
        /\ remote_shards' = [remote_shards EXCEPT ![h][s] = n]
        /\ remote_entity_request(n, s, pending[h][s])
        /\ requests_pending_shard_allocation' = [pending EXCEPT ![h][s] = {}]
        /\ UNCHANGED <<registry, last_id>>

\* Both end with the requests that were waiting for the allocation.
ShardAllocated(h) ==
    /\ Receive(h, "ShardAllocated")
    /\ LET m == Head(mailbox[h])
       IN  IF m.node = h THEN AllocatedHere(h, m.shard) ELSE AllocatedThere(h, m.shard, m.node)
    /\ UNCHANGED <<asks, ref_cache, stopping, answers, served>>

ShardReallocating(h) ==
    /\ Receive(h, "ShardReallocating")
    /\ remote_shards' = [remote_shards EXCEPT ![h][Head(mailbox[h]).shard] = NoNode]
    /\ UNCHANGED <<hosted_shards, requests_pending_shard_allocation, asks, actors, registry,
                   ref_cache, last_id, stopping, sending, answers, served, dropped>>

-----------------------------------------------------------------------------
(* Starting and stopping *)

MutantActorStarted(a) ==
    /\ a \in actors
    /\ a.phase = "starting"
    /\ actors' = (actors \ {a}) \cup {[a EXCEPT !.phase = "running"]}
    /\ UNCHANGED <<mailbox, routing, asks, registry, ref_cache, last_id, stopping, sending, answers,
                   served, dropped>>

\* A shard actor has recovered and tells its host (post_recovery).  Shards keep the
\* default policy: a recovery that fails is tried again until it succeeds.
ActorStarted(a) ==
    /\ a \in actors
    /\ a.phase = "starting"
    /\ actors' = (actors \ {a}) \cup {[a EXCEPT !.phase = "running"]}
    /\ mailbox' = [mailbox EXCEPT ![a.node] =
                     Append(@, [type |-> "ShardReady", shard |-> a.shard, actor |-> a.id])]
    /\ UNCHANGED <<routing, asks, registry, ref_cache, last_id, stopping, sending, answers, served, dropped>>

\* It handles Stop.  De-registration removes whatever is registered under its id.
ActorStopped(a) ==
    /\ a \in actors
    /\ a.phase = "running"
    /\ a.stop
    /\ actors' = actors \ {a}
    /\ registry' = [registry EXCEPT ![a.node][a.shard] = 0]
    /\ UNCHANGED <<mailbox, routing, asks, ref_cache, last_id, stopping, sending, answers, served, dropped>>

\* The entry becomes Ready whatever it was; what a Starting entry buffered is
\* sent on.  (stop_requested of a Starting entry is always None here: StopShard
\* replaces the entry it should have set it in.)
ShardReady(h) ==
    /\ Receive(h, "ShardReady")
    /\ LET s == Head(mailbox[h]).shard
           e == hosted_shards[h][s]
           ready == [state |-> "Ready", actor |-> Head(mailbox[h]).actor, buffer |-> {}]
       IN  /\ hosted_shards' = [hosted_shards EXCEPT ![h][s] = ready]
           /\ sending' = sending \cup {[request |-> r, node |-> h, shard |-> s,
                                        actor |-> ready.actor] : r \in e.buffer}
    /\ UNCHANGED <<remote_shards, requests_pending_shard_allocation, asks, actors, registry,
                   ref_cache, last_id, stopping, answers, served, dropped>>

\* The entry becomes Stopping.  Only a Ready one starts stop_shard; the request
\* to stop a Starting one, and what that one buffered, are dropped with it.
StopShard(h) ==
    /\ Receive(h, "StopShard")
    /\ LET s == Head(mailbox[h]).shard
           e == hosted_shards[h][s]
           task == [node |-> h, shard |-> s, actor |-> e.actor,
                    req |-> Head(mailbox[h]).req, sent |-> FALSE]
       IN  /\ hosted_shards' = IF e = NotHosted THEN hosted_shards
                               ELSE [hosted_shards EXCEPT ![h][s] =
                                       [NotHosted EXCEPT !.state = "Stopping"]]
           /\ stopping' = IF e.state = "Ready" THEN stopping \cup {task} ELSE stopping
           /\ dropped' = dropped \cup e.buffer
    /\ UNCHANGED <<remote_shards, requests_pending_shard_allocation, asks, actors, registry,
                   ref_cache, last_id, sending, answers, served>>

\* stop_shard's task sends Stop to the actor ...
StopSent(t) ==
    /\ t \in stopping
    /\ ~t.sent
    /\ stopping' = (stopping \ {t}) \cup {[t EXCEPT !.sent = TRUE]}
    /\ SendStop(t.node, t.shard, t.actor)
    /\ UNCHANGED <<mailbox, routing, asks, registry, ref_cache, last_id, sending, answers, served, dropped>>

MutantStopCompleted(t) ==
    /\ t \in stopping
    /\ t.sent
    /\ stopping' = stopping \ {t}
    /\ mailbox' = [mailbox EXCEPT ![t.node] =
                     Append(@, [type |-> "ShardStopped", shard |-> t.shard])]
    /\ answers' = answers \cup {t}
    /\ UNCHANGED <<routing, asks, actors, registry, ref_cache, last_id, sending, served, dropped>>

\* ... waits until it is gone, tells the host, then answers the coordinator.
StopCompleted(t) ==
    /\ t \in stopping
    /\ t.sent
    /\ ~Alive(t.node, t.shard, t.actor)
    /\ stopping' = stopping \ {t}
    /\ mailbox' = [mailbox EXCEPT ![t.node] =
                     Append(@, [type |-> "ShardStopped", shard |-> t.shard])]
    /\ answers' = answers \cup {t}
    /\ UNCHANGED <<routing, asks, actors, registry, ref_cache, last_id, sending, served, dropped>>

\* The entry is removed, whatever it is by now.
ShardStopped(h) ==
    /\ Receive(h, "ShardStopped")
    /\ LET s == Head(mailbox[h]).shard
       IN  /\ hosted_shards' = [hosted_shards EXCEPT ![h][s] = NotHosted]
           /\ dropped' = dropped \cup hosted_shards[h][s].buffer
    /\ UNCHANGED <<remote_shards, requests_pending_shard_allocation, asks, actors, registry,
                   ref_cache, last_id, stopping, sending, answers, served>>

Handle(h) == \/ EntityRequest(h) \/ ShardAllocated(h) \/ ShardReallocating(h)
             \/ ShardReady(h) \/ StopShard(h) \/ ShardStopped(h)

HostNext ==
    \/ \E h \in Nodes : Handle(h)
    \/ \E d \in sending : DeliverLocal(d) \/ DeliverRemote(d)
    \/ \E a \in actors : ActorStarted(a) \/ ActorStopped(a)
    \/ \E t \in stopping : StopSent(t) \/ StopCompleted(t)

-----------------------------------------------------------------------------
(* Properties *)

\* The places a request that was sent to a host can be in.
Places(r) ==
    {<<"mailbox", n>> : n \in {m \in Nodes : \E i \in DOMAIN mailbox[m] :
                                 /\ mailbox[m][i].type = "EntityRequest"
                                 /\ mailbox[m][i].request = r}}
    \cup {p \in {"pending", "buffered"} \X Nodes \X Shards :
            r \in IF p[1] = "pending" THEN pending[p[2]][p[3]]
                                      ELSE hosted_shards[p[2]][p[3]].buffer}
    \cup {<<"sending", d>> : d \in {x \in sending : x.request = r}}
    \cup {<<"done", x>> : x \in {y \in {"served", "dropped"} :
                                   r \in IF y = "served" THEN served ELSE dropped}}

\* A request waits in a Starting entry only as long as the ShardReady that will
\* send it on is still to come: the entry's actor has not finished starting, or
\* its message is in the host's mailbox.
BufferHasWakeup ==
    \A h \in Nodes, s \in Shards :
        LET e == hosted_shards[h][s]
        IN  e.state = "Starting" =>
                \/ \E a \in actors : /\ a.node = h /\ a.shard = s
                                     /\ a.id = e.actor /\ a.phase = "starting"
                \/ \E i \in DOMAIN mailbox[h] :
                      /\ mailbox[h][i].type = "ShardReady"
                      /\ mailbox[h][i].shard = s

\* The coordinator is told ShardStopped only for an actor that is gone: what
\* rebalance_shards waits for before it allocates the shard again.
AnsweredIsGone == \A t \in answers : ~Alive(t.node, t.shard, t.actor)
=============================================================================
