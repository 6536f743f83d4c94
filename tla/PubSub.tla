------------------------------- MODULE PubSub -------------------------------
(***************************************************************************)
(* Publications to a topic across a cluster: on every node a stream        *)
(* mediator (remote/stream/mediator) with a broadcast channel for the      *)
(* topic, and a task for each subscription that hands what it reads to its *)
(* actor (remote/stream/pubsub.rs).  A publication for the cluster is sent *)
(* to the nodes the mediator knows; it learns of them as a subscriber of   *)
(* the system topic, on which the discovery of its node publishes.         *)
(*                                                                         *)
(* Publishers wait for their mediator, and are many: their messages reach  *)
(* it in any order.                                                        *)
(***************************************************************************)
EXTENDS Naturals, Sequences, SequencesExt, FiniteSets

CONSTANTS
    Nodes,
    Subscribers,
    Home,        \* subscriber -> its node
    Messages,
    Origin,      \* message -> the node it is published on
    Reach,       \* message -> Local | Cluster
    Links,       \* <<node, node>>: who may discover and forget whom
    Capacity,    \* of a channel, 1024
    MaxChanges   \* bounds the changes of the cluster

ASSUME PubSubAssumption ==
    /\ Home \in [Subscribers -> Nodes] /\ Origin \in [Messages -> Nodes]
    /\ Reach \in [Messages -> {"Local", "Cluster"}]
    /\ Links \subseteq Nodes \X Nodes /\ Capacity \in Nat \ {0}

VARIABLES
    \* The topic's channel on a node.
    topic,       \* node -> it has been subscribed to, so it exists
    log,         \* node -> all that was broadcast, the last Capacity of which is kept
    \* The subscriptions.
    state,       \* none | active | ended
    start,       \* subscriber -> where in the log its subscription starts
    received,    \* subscriber -> what its actor was sent
    stopped,     \* the subscribers whose actors have stopped
    \* Publications on their way.
    published,
    tasks,       \* <<message, nodes>>: tasks that still notify these nodes
    arrived,     \* <<message, node>>: tasks of sessions (session_stream_publish)
    targets,     \* message -> the nodes that its task was given
    lost,        \* <<message, node>>: lost on the way, or no topic there
    \* Membership.
    nodes,       \* node -> the nodes its mediator knows
    joined,      \* node -> the nodes that its discovery has added and not forgotten since
    removals,    \* <<node, node>> -> how many tasks wait to publish NodeRemoved
    late,        \* <<node, node>>: announced again while such a task was waiting
    system,      \* node -> the events of the system topic for its mediator
    changes

channels == <<topic, log>>
subscriptions == <<state, start, received, stopped>>
publications == <<published, tasks, arrived, targets, lost>>
membership == <<nodes, joined, removals, late, system, changes>>
vars == <<channels, subscriptions, publications, membership>>

Init ==
    /\ topic = [n \in Nodes |-> FALSE] /\ log = [n \in Nodes |-> <<>>]
    /\ state = [s \in Subscribers |-> "none"] /\ start = [s \in Subscribers |-> 0]
    /\ received = [s \in Subscribers |-> <<>>] /\ stopped = {}
    /\ published = {} /\ tasks = {} /\ arrived = {} /\ lost = {}
    /\ targets = [m \in Messages |-> {}]
    /\ nodes = [n \in Nodes |-> {}] /\ joined = [n \in Nodes |-> {}]
    /\ removals = [l \in Links |-> 0] /\ late = {} /\ system = [n \in Nodes |-> <<>>] /\ changes = 0

-----------------------------------------------------------------------------
(* Subscriptions.                                                           *)

Subscribe(s) ==
    /\ state[s] = "none" /\ state' = [state EXCEPT ![s] = "active"]
    /\ topic' = [topic EXCEPT ![Home[s]] = TRUE]
    /\ start' = [start EXCEPT ![s] = Len(log[Home[s]])]
    /\ UNCHANGED <<log, received, stopped, publications, membership>>

Unread(s) == Len(log[Home[s]]) - (start[s] + Len(received[s]))

MutantReceive(s) ==
    /\ state[s] = "active" /\ Unread(s) > 0
    /\ received' = [received EXCEPT ![s] = Append(@, log[Home[s]][IF Unread(s) > Capacity
                        THEN Len(log[Home[s]]) - Capacity + 1 ELSE start[s] + Len(@) + 1])]
    /\ UNCHANGED <<state, channels, start, stopped, publications, membership>>

(* The subscription's task hands on the next message; it ends if the        *)
(* channel has dropped it (Lagged), and panics if the actor has stopped.    *)
Receive(s) ==
    /\ state[s] = "active" /\ Unread(s) > 0
    /\ IF Unread(s) > Capacity \/ s \in stopped
       THEN state' = [state EXCEPT ![s] = "ended"] /\ UNCHANGED received
       ELSE /\ received' = [received EXCEPT ![s] = Append(@, log[Home[s]][start[s] + Len(@) + 1])]
            /\ UNCHANGED state
    /\ UNCHANGED <<channels, start, stopped, publications, membership>>

(* The Subscription is dropped, by its actor or with it.                    *)
Unsubscribe(s) ==
    /\ state[s] = "active" /\ state' = [state EXCEPT ![s] = "ended"]
    /\ UNCHANGED <<channels, start, received, stopped, publications, membership>>

(* The actor stops and its Subscription, held elsewhere, is not dropped.    *)
Stop(s) ==
    /\ state[s] = "active" /\ s \notin stopped /\ stopped' = stopped \cup {s}
    /\ UNCHANGED <<channels, state, start, received, publications, membership>>

-----------------------------------------------------------------------------
(* Publications.                                                            *)

Broadcast(n, m) == log' = IF topic[n] THEN [log EXCEPT ![n] = Append(@, m)] ELSE log

(* Publish: to the local channel, and by a task to the nodes that the       *)
(* mediator knows now.                                                      *)
Publish(n, m) ==
    /\ n = Origin[m] /\ m \notin published /\ published' = published \cup {m}
    /\ Broadcast(n, m)
    /\ IF Reach[m] = "Cluster" /\ nodes[n] # {}
       THEN tasks' = tasks \cup {<<m, nodes[n]>>} /\ targets' = [targets EXCEPT ![m] = nodes[n]]
       ELSE UNCHANGED <<tasks, targets>>
    /\ UNCHANGED <<topic, subscriptions, arrived, lost, membership>>

MutantNotifyNode(t, n) ==
    /\ t \in tasks /\ n \in t[2]
    /\ \/ /\ arrived' = arrived \cup {<<t[1], n>>} /\ UNCHANGED lost
          /\ tasks' = (tasks \ {t}) \cup (IF t[2] = {n} THEN {} ELSE {<<t[1], t[2] \ {n}>>})
       \/ lost' = lost \cup {<<t[1], n>>} /\ tasks' = tasks \ {t} /\ UNCHANGED arrived
    /\ UNCHANGED <<channels, subscriptions, published, targets, membership>>

(* The task notifies one node after the other; the request is lost without  *)
(* a client for the node, or with its connection, and the task goes on.     *)
notify_node(t, n) ==
    /\ t \in tasks /\ n \in t[2]
    /\ tasks' = (tasks \ {t}) \cup (IF t[2] = {n} THEN {} ELSE {<<t[1], t[2] \ {n}>>})
    /\ \/ arrived' = arrived \cup {<<t[1], n>>} /\ UNCHANGED lost
       \/ lost' = lost \cup {<<t[1], n>>} /\ UNCHANGED arrived
    /\ UNCHANGED <<channels, subscriptions, published, targets, membership>>

MutantPublishRaw(n, m) ==
    /\ <<m, n>> \in arrived /\ arrived' = arrived \ {<<m, n>>}
    /\ Broadcast(n, m)
    /\ tasks' = IF nodes[n] # {} THEN tasks \cup {<<m, nodes[n]>>} ELSE tasks
    /\ lost' = IF topic[n] THEN lost ELSE lost \cup {<<m, n>>}
    /\ UNCHANGED <<topic, subscriptions, published, targets, membership>>

(* PublishRaw: what came from another node goes to the local channel only.  *)
PublishRaw(n, m) ==
    /\ <<m, n>> \in arrived /\ arrived' = arrived \ {<<m, n>>}
    /\ Broadcast(n, m)
    /\ lost' = IF topic[n] THEN lost ELSE lost \cup {<<m, n>>}
    /\ UNCHANGED <<topic, subscriptions, published, tasks, targets, membership>>

-----------------------------------------------------------------------------
(* Membership.                                                              *)

(* The discovery of n publishes NodeAdded, and waits for the mediator.      *)
(* When nodes are discovered and forgotten is up to Membership: here, at    *)
(* any time and in any order.                                               *)
NodeAdded(n, p) ==
    /\ changes < MaxChanges /\ changes' = changes + 1
    /\ joined' = [joined EXCEPT ![n] = @ \cup {p}]
    /\ system' = [system EXCEPT ![n] = Append(@, <<"NodeAdded", p>>)]
    /\ late' = IF removals[<<n, p>>] > 0 THEN late \cup {<<n, p>>} ELSE late
    /\ UNCHANGED <<channels, subscriptions, publications, nodes, removals>>

(* Forget leaves the publication of NodeRemoved to a task.                  *)
Forget(n, p) ==
    /\ changes < MaxChanges /\ changes' = changes + 1
    /\ joined' = [joined EXCEPT ![n] = @ \ {p}]
    /\ removals' = [removals EXCEPT ![<<n, p>>] = @ + 1]
    /\ UNCHANGED <<channels, subscriptions, publications, nodes, late, system>>

NodeRemoved(n, p) ==
    /\ removals[<<n, p>>] > 0 /\ removals' = [removals EXCEPT ![<<n, p>>] = @ - 1]
    /\ system' = [system EXCEPT ![n] = Append(@, <<"NodeRemoved", p>>)]
    /\ UNCHANGED <<channels, subscriptions, publications, nodes, joined, late, changes>>

MutantReceiveSystem(n) ==
    /\ system[n] # <<>> /\ system' = [system EXCEPT ![n] = Tail(@)]
    /\ nodes' = [nodes EXCEPT ![n] = @ \cup {Head(system[n])[2]}]
    /\ UNCHANGED <<channels, subscriptions, publications, joined, removals, late, changes>>

(* The mediator, as a subscriber of the system topic.                       *)
ReceiveSystem(n) ==
    /\ system[n] # <<>> /\ system' = [system EXCEPT ![n] = Tail(@)]
    /\ LET event == Head(system[n])
       IN nodes' = [nodes EXCEPT ![n] = IF event[1] = "NodeAdded" 
                                                 THEN @ \cup ({event[2]} \ {n}) ELSE @ \ {event[2]}]
    /\ UNCHANGED <<channels, subscriptions, publications, joined, removals, late, changes>>

-----------------------------------------------------------------------------
TaskStep ==
    \/ \E s \in Subscribers : Receive(s)
    \/ \E t \in tasks : \E n \in Nodes : notify_node(t, n)
    \/ \E n \in Nodes : ReceiveSystem(n) \/ \E m \in Messages : PublishRaw(n, m)
    \/ \E l \in Links : NodeRemoved(l[1], l[2])

Next ==
    \/ TaskStep
    \/ \E s \in Subscribers : Subscribe(s) \/ Unsubscribe(s) \/ Stop(s)
    \/ \E n \in Nodes, m \in Messages : Publish(n, m)
    \/ \E l \in Links : NodeAdded(l[1], l[2]) \/ Forget(l[1], l[2])

Spec == Init /\ [][Next]_vars /\ WF_vars(TaskStep)

-----------------------------------------------------------------------------
(* Properties.                                                              *)

(* An actor is sent the topic's messages from its subscription on, in the   *)
(* order in which its node broadcast them, without a gap: a subscription    *)
(* that falls behind the channel ends, it does not skip.                    *)
NoGaps ==
    \A s \in Subscribers : IsPrefix(received[s], SubSeq(log[Home[s]], start[s] + 1, Len(log[Home[s]])))

(* A publication is broadcast once on a node, however many nodes know each  *)
(* other, and one with Reach::Local only where it was made.                 *)
BroadcastOnce ==
    \A n \in Nodes : \A i, j \in DOMAIN log[n] :
        /\ log[n][i] = log[n][j] => i = j
        /\ Reach[log[n][i]] = "Local" => Origin[log[n][i]] = n

(* The mediator comes to know the nodes that the discovery has announced,   *)
(* unless a NodeRemoved was overtaken by the NodeAdded that followed it.    *)
MediatorFollowsDiscovery ==
    <>[](\A n, p \in Nodes : <<n, p>> \notin late => (p \in nodes[n] <=> p \in joined[n]))

(* A publication for the cluster ends up broadcast on every node that the   *)
(* publisher's mediator knew, but for those where it was itself lost on the *)
(* way or had no topic; and a subscription that lasts is given all that is  *)
(* broadcast.                                                               *)
PublicationsArrive ==
    <>[](/\ \A m \in Messages : \A n \in targets[m] : m \in ToSet(log[n]) \/ <<m, n>> \in lost
         /\ \A s \in Subscribers : state[s] = "active" => Unread(s) = 0)
=============================================================================
