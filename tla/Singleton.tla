----------------------------- MODULE Singleton ------------------------------
(***************************************************************************)
(* The cluster singleton (coerce/src/singleton): every node runs a manager *)
(* and a proxy.  The manager of the leader asks all managers it knows for  *)
(* the lease, starts the singleton actor when each has acknowledged, and   *)
(* tells them; proxies buffer requests until they know where it runs.      *)
(*                                                                         *)
(* What a node learns of the cluster comes from its own heartbeat, so      *)
(* nodes learn of joins, failures and leaders at different times.  Node    *)
(* ids are the order in which nodes started: the oldest healthy node leads.*)
(* Messages between managers are handled by tasks of their own on the      *)
(* receiving node, so nothing orders them.                                 *)
(***************************************************************************)
EXTENDS Naturals, Sequences, FiniteSets, FiniteSetsExt

CONSTANTS
    Nodes,      \* node ids: positive numbers, in the order the nodes start
    Requests,   \* requests clients send through the proxies
    Clusters    \* clusters to begin with, each with its members and bounds: the
                \* nodes that may fail, the suspicions of running nodes, the requests

ASSUME NodesAssumption == Nodes \subseteq Nat \ {0} /\ IsFiniteSet(Nodes)
ASSUME ClustersAssumption ==
    Clusters \subseteq [members : (SUBSET Nodes) \ {{}}, crashes : Nat, flaps : Nat,
                       requests : SUBSET Requests]

VARIABLES
    alive,      \* the nodes that are running
    crashes,    \* nodes that failed so far
    flaps,      \* suspicions of running nodes so far
    view,       \* node -> the nodes its heartbeat knows
    suspects,   \* node -> those among them it holds for unhealthy
    leader,     \* node -> its current leader
    news,       \* node -> cluster events its manager has not handled yet
    state,      \* node -> the manager's State
    managers,   \* node -> the nodes whose managers it knows
    messages,   \* bag of messages between managers
    starts,     \* node -> tasks of start_actor that have not finished
    results,    \* node -> ActorStartResult messages not handled yet
    actors,     \* the singleton actors that are alive
    last_id,    \* number of singleton actors started so far
    proxy,      \* node -> Active: the node the proxy sends to; 0: Buffered
    queue,      \* node -> request_queue of the proxy
    sent,       \* requests that were sent to a singleton actor
    scenario,   \* the member of Clusters this behaviour began with
    twice       \* history: nodes that started the actor while a start was under way

cluster == <<alive, crashes, flaps, view, suspects, leader>>
lease == <<state, managers, messages, starts>>
running == <<results, actors, last_id>>
proxies == <<proxy, queue, sent>>
vars == <<cluster, news, lease, running, proxies, scenario, twice>>

\* Bags, as in the module Bags.  (Its version for the proof system brings in the
\* theorems about sets and sequences, which every step of a proof would carry.)
SetToBag(S) == [e \in S |-> 1]
BagToSet(B) == DOMAIN B
EmptyBag == SetToBag({})
CopiesIn(e, B) == IF e \in DOMAIN B THEN B[e] ELSE 0
B1 (+) B2 == [e \in DOMAIN B1 \cup DOMAIN B2 |-> CopiesIn(e, B1) + CopiesIn(e, B2)]
B1 (-) B2 == [e \in {d \in DOMAIN B1 : CopiesIn(d, B1) > CopiesIn(d, B2)} |->
                 CopiesIn(e, B1) - CopiesIn(e, B2)]

MemberUp(l, N) == [type |-> "MemberUp", leader |-> l, nodes |-> N]
LeaderChanged(l) == [type |-> "LeaderChanged", leader |-> l]
NodeAdded(n) == [type |-> "NodeAdded", node |-> n]
NodeRemoved(n) == [type |-> "NodeRemoved", node |-> n]

\* State: the acknowledgements of Starting (of Joining: the one that is pending)
\* and the actor of Running and Stopping.
Joining(P) == [kind |-> "Joining", nodes |-> P, actor |-> 0]
IdleState == [kind |-> "Idle", nodes |-> {}, actor |-> 0]
Starting(A) == [kind |-> "Starting", nodes |-> A, actor |-> 0]
RunningState(id) == [kind |-> "Running", nodes |-> {}, actor |-> id]
Stopping(id) == [kind |-> "Stopping", nodes |-> {}, actor |-> id]

is_running(n) == state[n].kind \in {"Running", "Starting"}
is_joining(n) == state[n].kind = "Joining"

\* Events of one heartbeat are published by separate tasks: in any order.
Shuffle(a, b) == {a \o b, b \o a}

Init ==
    /\ scenario \in Clusters
    /\ alive = scenario.members
    /\ crashes = 0 /\ flaps = 0
    /\ view = [n \in Nodes |-> IF n \in alive THEN alive ELSE {}]
    /\ suspects = [n \in Nodes |-> {}]
    /\ leader = [n \in Nodes |-> IF n \in alive THEN Min(alive) ELSE 0]
    /\ news \in [Nodes -> {<<>>} \cup Shuffle(<<MemberUp(Min(alive), alive)>>,
                                              <<LeaderChanged(Min(alive))>>)]
    /\ \A n \in Nodes : news[n] = <<>> <=> n \notin alive
    /\ state = [n \in Nodes |-> Joining({})]
    /\ managers = [n \in Nodes |-> {}]
    /\ messages = EmptyBag
    /\ starts = [n \in Nodes |-> 0]
    /\ results = [n \in Nodes |-> <<>>]
    /\ actors = {}
    /\ last_id = 0
    /\ proxy = [n \in Nodes |-> 0]
    /\ queue = [n \in Nodes |-> {}]
    /\ sent = {}
    /\ twice = {}

-----------------------------------------------------------------------------
(* The cluster, as each node's heartbeat sees it *)

\* Node n's heartbeat finds leader Min(V); `events` is what else it publishes.
Elect(n, V, events) ==
    LET l == Min(V)
    IN  /\ leader' = [leader EXCEPT ![n] = l]
        /\ \E e \in IF l = leader[n] THEN {events} ELSE Shuffle(events, <<LeaderChanged(l)>>) :
               news' = [news EXCEPT ![n] = @ \o e]

\* A node starts, and learns the nodes of the cluster from its seed before its
\* heartbeat first looks for a leader.
Join(n) ==
    /\ n \notin alive
    /\ view[n] = {}
    /\ \A m \in alive : m < n
    /\ alive # {}
    /\ alive' = alive \cup {n}
    /\ view' = [view EXCEPT ![n] = alive']
    /\ Elect(n, alive', <<MemberUp(Min(alive'), alive')>>)
    /\ UNCHANGED <<crashes, flaps, suspects, lease, running, proxies>>

Learn(n, m) ==
    /\ {n, m} \subseteq alive
    /\ m \notin view[n]
    /\ view' = [view EXCEPT ![n] = @ \cup {m}]
    /\ news' = [news EXCEPT ![n] = Append(@, NodeAdded(m))]
    /\ UNCHANGED <<alive, crashes, flaps, suspects, leader, lease, running, proxies>>

\* The part of the bag of messages that is in S.
BagOf(S) == [m \in S |-> messages[m]]

\* A node fails, with all its actors; what was sent to it is lost.
Crash(n) ==
    /\ n \in alive
    /\ crashes < scenario.crashes
    /\ crashes' = crashes + 1
    /\ alive' = alive \ {n}
    /\ actors' = {a \in actors : a.node # n}
    /\ news' = [news EXCEPT ![n] = <<>>]
    /\ results' = [results EXCEPT ![n] = <<>>]
    /\ messages' = BagOf({m \in BagToSet(messages) : m.to # n})
    /\ UNCHANGED <<flaps, view, suspects, leader, state, managers, starts, last_id, proxies>>

\* Assumed of the time it takes to notice a failure: nobody has noticed before
\* what the failed node had sent has been handled, or lost.
Silent(m) == \A x \in BagToSet(messages) : x.from # m

\* For the heartbeat of n, m is not healthy: it answers late, or it failed and is
\* not connected any more.  (Only of the leader: of another node nothing follows
\* until those before it are unhealthy, too.)
Suspect(n, m) ==
    /\ n \in alive
    /\ m = leader[n]
    /\ m # n
    /\ IF m \in alive THEN flaps < scenario.flaps ELSE Silent(m)
    /\ flaps' = IF m \in alive THEN flaps + 1 ELSE flaps
    /\ suspects' = [suspects EXCEPT ![n] = @ \cup {m}]
    /\ Elect(n, view[n] \ suspects'[n], <<>>)
    /\ UNCHANGED <<alive, crashes, view, lease, running, proxies>>

\* m answers again.
Trust(n, m) ==
    /\ n \in alive
    /\ m \in suspects[n] \cap alive
    /\ suspects' = [suspects EXCEPT ![n] = @ \ {m}]
    /\ Elect(n, view[n] \ suspects'[n], <<>>)
    /\ UNCHANGED <<alive, crashes, flaps, view, lease, running, proxies>>

\* The ping timer of n's client finds it is not connected to m any more.
Forget(n, m) ==
    /\ n \in alive
    /\ m \in view[n] \ alive
    /\ Silent(m)
    /\ view' = [view EXCEPT ![n] = @ \ {m}]
    /\ news' = [news EXCEPT ![n] = Append(@, NodeRemoved(m))]
    /\ UNCHANGED <<alive, crashes, flaps, suspects, leader, lease, running, proxies>>

-----------------------------------------------------------------------------
(* Managers *)

\* notify_manager, notify_managers: messages from n to the nodes N, as a bag.
\* One to a manager that n does not know is not sent, and one to a node that has
\* failed is lost.  (notify tries again every 2 s until the node is removed.)
notify(n, type, N) ==
    SetToBag({[type |-> type, from |-> n, to |-> m] : m \in N \cap managers'[n] \cap alive})

MutantMaybeStart(n, s, send) ==
    /\ state' = [state EXCEPT ![n] = s]
    /\ starts' = [starts EXCEPT ![n] = IF s.kind = "Starting" THEN @ + 1 ELSE @]
    /\ messages' = send

\* The manager is in state s with the messages `send`.  A Starting manager whose
\* acknowledgements are as many as the managers it knows starts the actor.
MaybeStart(n, s, send) ==
    /\ state' = [state EXCEPT ![n] = s]
    /\ starts' = [starts EXCEPT ![n] =
                    IF s.kind = "Starting" /\ Cardinality(s.nodes) = Cardinality(managers'[n])
                    THEN @ + 1 ELSE @]
    /\ messages' = send

begin_starting(n, send) ==
    MaybeStart(n, Starting({}), send (+) notify(n, "RequestLease", managers'[n]))

\* Joining ends.  A lease request that came too early is acknowledged now.
OnMemberUp(n, e) ==
    /\ managers' = [managers EXCEPT ![n] = @ \cup (e.nodes \ {n})]
    /\ LET ack == IF is_joining(n) THEN notify(n, "LeaseAck", state[n].nodes) ELSE EmptyBag
       IN  IF e.leader = n THEN begin_starting(n, messages (+) ack)
                           ELSE MaybeStart(n, IdleState, messages (+) ack)

OnLeaderChanged(n, e) ==
    /\ UNCHANGED managers
    /\ IF e.leader = n /\ ~is_joining(n) /\ ~is_running(n)
       THEN begin_starting(n, messages)
       ELSE UNCHANGED <<state, starts, messages>>

\* A manager that was not known is told what it missed.
OnNodeAdded(n, e) ==
    /\ managers' = [managers EXCEPT ![n] = @ \cup {e.node}]
    /\ LET type == [Starting |-> "RequestLease", Running |-> "SingletonStarted"]
       IN  messages' = IF e.node \notin managers[n] /\ is_running(n)
                       THEN messages (+) notify(n, type[state[n].kind], {e.node})
                       ELSE messages
    /\ UNCHANGED <<state, starts>>

MutantNodeRemoved(n, e) ==
    /\ managers' = [managers EXCEPT ![n] = @ \ {e.node}]
    /\ UNCHANGED <<state, starts, messages>>

\* The acknowledgement of a removed node is not needed any more.
OnNodeRemoved(n, e) ==
    /\ managers' = [managers EXCEPT ![n] = @ \ {e.node}]
    /\ IF state[n].kind = "Starting"
       THEN MaybeStart(n, Starting(state[n].nodes \ {e.node}), messages)
       ELSE UNCHANGED <<state, starts, messages>>

HandleNews(n) ==
    /\ n \in alive
    /\ news[n] # <<>>
    /\ LET e == Head(news[n])
       IN  \/ e.type = "MemberUp" /\ OnMemberUp(n, e)
           \/ e.type = "LeaderChanged" /\ OnLeaderChanged(n, e)
           \/ e.type = "NodeAdded" /\ OnNodeAdded(n, e)
           \/ e.type = "NodeRemoved" /\ OnNodeRemoved(n, e)
    /\ news' = [news EXCEPT ![n] = Tail(@)]
    /\ UNCHANGED <<cluster, running, proxies>>

\* Manager n takes message m.
Receive(n, m, type) ==
    /\ n \in alive
    /\ m.to = n
    /\ m.type = type
    /\ UNCHANGED <<cluster, news, results, last_id>>

Took(m) == messages (-) SetToBag({m})

\* grant_lease at once when nothing runs here, else begin_stopping, which stops a
\* Running actor and does nothing in Starting.  (The manager is not the parent of
\* the actor, so on_child_stopped, which would grant the lease then, is never
\* called, and lease_requested_by is never read.)
RequestLease(n, m) ==
    /\ Receive(n, m, "RequestLease")
    /\ UNCHANGED <<managers, starts, proxies>>
    /\ \/ /\ is_joining(n)
          /\ state' = [state EXCEPT ![n] = Joining({m.from})]
          /\ messages' = Took(m)
          /\ UNCHANGED actors
       \/ /\ state[n].kind \in {"Idle", "Stopping"}
          /\ messages' = Took(m) (+) notify(n, "LeaseAck", {m.from})
          /\ UNCHANGED <<state, actors>>
       \/ /\ state[n].kind = "Running"
          /\ state' = [state EXCEPT ![n] = Stopping(@.actor)]
          /\ actors' = {IF a.node = n /\ a.id = state[n].actor
                        THEN [node |-> n, id |-> a.id, stop |-> TRUE] ELSE a : a \in actors}
          /\ messages' = Took(m) (+) notify(n, "SingletonStopped", managers[n])
       \/ /\ state[n].kind = "Starting"
          /\ messages' = Took(m)
          /\ UNCHANGED <<state, actors>>

\* on_lease_ack
LeaseAck(n, m) ==
    /\ Receive(n, m, "LeaseAck")
    /\ UNCHANGED <<managers, actors, proxies>>
    /\ IF state[n].kind = "Starting"
       THEN MaybeStart(n, Starting(state[n].nodes \cup {m.from}), Took(m))
       ELSE messages' = Took(m) /\ UNCHANGED <<state, starts>>

-----------------------------------------------------------------------------
(* Starting and stopping the actor *)

\* start_actor's task: the actor is up and its reference is on the way.
ActorStarted(n) ==
    /\ n \in alive
    /\ starts[n] > 0
    /\ starts' = [starts EXCEPT ![n] = @ - 1]
    /\ last_id' = last_id + 1
    /\ actors' = actors \cup {[node |-> n, id |-> last_id', stop |-> FALSE]}
    /\ results' = [results EXCEPT ![n] = Append(@, last_id')]
    /\ UNCHANGED <<cluster, news, state, managers, messages, proxies>>

ActorStopped(a) ==
    /\ a \in actors
    /\ a.stop
    /\ actors' = actors \ {a}
    /\ UNCHANGED <<cluster, news, lease, results, last_id, proxies>>

-----------------------------------------------------------------------------
(* Proxies.  A manager's messages to the proxy of its node are handled with   *)
(* the step that sends them: only clients talk to a proxy besides.            *)

\* The proxy of node n becomes Active for the actor of node m.
ProxyStarted(n, m) ==
    /\ proxy' = [proxy EXCEPT ![n] = m]
    /\ sent' = sent \cup queue[n]
    /\ queue' = [queue EXCEPT ![n] = {}]

MutantProxyStopping(n) ==
    /\ proxy' = [proxy EXCEPT ![n] = 0]
    /\ queue' = [queue EXCEPT ![n] = {}]
    /\ UNCHANGED sent

\* It goes back to buffering; what it has buffered already stays.
ProxyStopping(n) ==
    /\ proxy' = [proxy EXCEPT ![n] = 0]
    /\ UNCHANGED <<queue, sent>>

\* The manager is Running whatever it was before, and says so.
ActorStartResult(n) ==
    /\ n \in alive
    /\ results[n] # <<>>
    /\ results' = [results EXCEPT ![n] = Tail(@)]
    /\ state' = [state EXCEPT ![n] = RunningState(Head(results[n]))]
    /\ UNCHANGED <<cluster, news, managers, starts, actors, last_id>>
    /\ messages' = messages (+) notify(n, "SingletonStarted", managers[n])
    /\ ProxyStarted(n, n)

SingletonStarted(n, m) ==
    /\ Receive(n, m, "SingletonStarted")
    /\ messages' = Took(m)
    /\ ProxyStarted(n, m.from)
    /\ UNCHANGED <<state, managers, starts, actors>>

SingletonStopped(n, m) ==
    /\ Receive(n, m, "SingletonStopped")
    /\ messages' = Took(m)
    /\ ProxyStopping(n)
    /\ UNCHANGED <<state, managers, starts, actors>>

\* A client sends a request through the proxy of node n.
Deliver(n, r) ==
    /\ n \in alive
    /\ r \notin sent
    /\ \A m \in Nodes : r \notin queue[m]
    /\ IF proxy[n] = 0
       THEN queue' = [queue EXCEPT ![n] = @ \cup {r}] /\ UNCHANGED sent
       ELSE sent' = sent \cup {r} /\ UNCHANGED queue
    /\ UNCHANGED <<cluster, news, lease, running, proxy>>

-----------------------------------------------------------------------------
Handle(n) ==
    \/ HandleNews(n)
    \/ ActorStarted(n)
    \/ ActorStartResult(n)
    \/ \E m \in BagToSet(messages) : \/ RequestLease(n, m) \/ LeaseAck(n, m)
                                     \/ SingletonStarted(n, m) \/ SingletonStopped(n, m)

Environment ==
    \/ \E n \in Nodes : Join(n) \/ Crash(n) \/ \E r \in scenario.requests : Deliver(n, r)
    \/ \E n, m \in Nodes : Suspect(n, m) \/ Trust(n, m)

\* What heartbeats and clients of running nodes find out sooner or later.
Detect ==
    \E n, m \in Nodes :
        Learn(n, m) \/ Forget(n, m) \/ (m \notin alive /\ Suspect(n, m))

\* What no handler changes: the scenario, and the history.
History ==
    /\ UNCHANGED scenario
    /\ twice' = twice \cup
           {n \in Nodes : starts'[n] > starts[n] /\ (starts[n] > 0 \/ results[n] # <<>>)}

Next ==
    /\ \/ Environment
       \/ Detect
       \/ \E n \in Nodes : Handle(n)
       \/ \E a \in actors : ActorStopped(a)
    /\ History

\* Running nodes handle what they receive and learn of each other and of
\* failures; nodes need not join or fail, clients need not send.
Fairness ==
    /\ \A n \in Nodes : WF_vars(Handle(n) /\ History)
    /\ WF_vars(Detect /\ History)

Spec == Init /\ [][Next]_vars /\ Fairness

-----------------------------------------------------------------------------
(* Properties *)

NobodyJoined == \A n \in Nodes \ scenario.members : view[n] = {}

\* The point of the lease: no two nodes run the singleton (an actor that was told
\* to stop and has not finished does not count), provided a node is removed only
\* when it has really failed.  While no running node is suspected this holds
\* whoever joins or fails.  With suspicions, whatever the nodes believe about each
\* other's health and about who leads, it takes two more things: managers that
\* know each other from the beginning, and no manager that counts its
\* acknowledgements complete once more while start_actor is under way (a node
\* added or removed then does that, and of the two actors it starts the first is
\* never stopped).
OneNode ==
    flaps = 0 \/ (NobodyJoined /\ twice = {}) =>
        \A a, b \in actors : ~a.stop /\ ~b.stop => a.node = b.node

\* A request that was handed to a proxy stays in its queue until it is sent to a
\* singleton actor, across any sequence of SingletonStarted and SingletonStopped.
ProxyKeepsRequests ==
    [][\A n \in Nodes : queue[n] \subseteq queue'[n] \cup sent']_vars

\* The singleton runs on the oldest running node, every proxy sends to it, and no
\* request waits in a proxy.
Serving ==
    /\ alive # {}
    /\ LET l == Min(alive)
       IN  /\ state[l].kind = "Running"
           /\ [node |-> l, id |-> state[l].actor, stop |-> FALSE] \in actors
           /\ \A n \in alive : proxy[n] = l /\ queue[n] = {}

\* If no running node is suspected, the managers get there in the end and stay,
\* whenever nodes join or fail: also while a lease is being requested, or before
\* a manager has handled MemberUp.
Failover == [](flaps = 0 /\ alive # {}) => <>[]Serving
=============================================================================
