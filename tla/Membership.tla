----------------------------- MODULE Membership -----------------------------
(***************************************************************************)
(* Who is in the cluster, as one node (Self) sees it: the heartbeat that   *)
(* judges its peers by their answers to pings and elects a leader          *)
(* (remote/heartbeat), the discovery of nodes (remote/cluster/discovery)   *)
(* and the store that both read and overwrite (remote/cluster/node.rs,     *)
(* remote/actor/registry.rs).  Each is an actor; the heartbeat's tick      *)
(* reads the store, and writes back what it read, in two messages.         *)
(*                                                                         *)
(* Time is what the heartbeat compares: a pong is Fresh, came after a Slow *)
(* ping, or is older than the timeout for unhealthy (Stale) or terminated  *)
(* (Old) nodes.                                                            *)
(***************************************************************************)
EXTENDS Naturals, Sequences, FiniteSets

CONSTANTS
    Self,
    Peers,
    age,          \* node -> its rank by start time and id
    minimum_size, \* minimum_cluster_size, or 0 for none
    None,
    MaxChanges    \* bounds what happens to the peers

VARIABLES
    \* The peers, and the clients for them.
    peer,              \* up: answers in time | hung: does not answer | down
    changes,
    conn,              \* none: no client | closed | connected
    timer,             \* the peers whose client has a ping timer
    pings,             \* <<peer, live | lost>>: the tasks that wait for a Pong
    notices,           \* <<peer, Disconnected | Forget>>: messages of the clients
    \* The heartbeat.
    node_pings,        \* peer -> None | Fresh | Slow | Stale | Old | Timeout | Disconnected
    phase,             \* idle | reading | updating
    updates,           \* node -> what the tick writes back, or None
    ticked,            \* last_heartbeat is set
    leader,
    cluster_member_up,
    \* The store.
    nodes,             \* node -> None | [status, beat: None | recent | old]
    \* The discovery.
    known,             \* discovered_nodes_by_addr, discovered_nodes_by_id
    discovering,
    addr_seeds,        \* the peers for which a Discover(Addr) is on its way
    node_seeds,        \* the sets of peers for which a Discover(Nodes) is
    registering,       \* the peers that the Discover(Nodes) at hand still registers
    handshakes         \* peer -> how many handshakes are under way

environment == <<peer, changes>>
clients == <<conn, timer, pings, notices>>
heartbeat == <<node_pings, phase, updates, ticked, leader, cluster_member_up>>
discovery == <<known, discovering, addr_seeds, node_seeds, registering, handshakes>>
vars == <<environment, clients, heartbeat, nodes, discovery>>

Nodes == Peers \cup {Self}

Joining == [status |-> "Joining", beat |-> "None"]

Init ==
    /\ peer = [n \in Peers |-> "up"] /\ changes = 0
    /\ conn = [n \in Peers |-> "none"] /\ timer = {} /\ pings = {} /\ notices = {}
    /\ node_pings = [n \in Peers |-> "None"]
    /\ phase = "idle" /\ updates = [n \in Nodes |-> None]
    /\ ticked = FALSE /\ leader = None /\ cluster_member_up = FALSE
    /\ nodes = [n \in Nodes |-> IF n = Self THEN Joining ELSE None]
    /\ known = {} /\ discovering = {} /\ registering = {}
    /\ addr_seeds \in {{n} : n \in Peers} /\ node_seeds = {}
    /\ handshakes = [n \in Peers |-> 0]

-----------------------------------------------------------------------------
(* The heartbeat.                                                           *)

Handled(notice) == notice \in notices /\ notices' = notices \ {notice}

(* NodePing, with the result that the ping's task, or the client, sends:    *)
(* whichever comes last is kept.                                            *)
NodePing(n, result) ==
    /\ phase = "idle"
    /\ node_pings' = [node_pings EXCEPT ![n] = result]
    /\ UNCHANGED <<environment, conn, timer, phase, updates, ticked, leader, cluster_member_up,
                   nodes, discovery>>

Pong(n) ==
    /\ <<n, "live">> \in pings /\ pings' = pings \ {<<n, "live">>}
    /\ NodePing(n, "Fresh") /\ UNCHANGED notices

(* A ping to a peer that hangs times out, or is answered late.              *)
PingTimeout(n) ==
    /\ <<n, "lost">> \in pings /\ pings' = pings \ {<<n, "lost">>}
    /\ \/ NodePing(n, "Timeout")
       \/ peer[n] = "up" /\ NodePing(n, "Slow")
    /\ UNCHANGED notices

NodeDisconnected(n) ==
    /\ Handled(<<n, "Disconnected">>)
    /\ NodePing(n, "Disconnected") /\ UNCHANGED pings

HeartbeatTick ==
    /\ phase = "idle" /\ phase' = "reading"
    /\ UNCHANGED <<environment, clients, node_pings, updates, ticked, leader, cluster_member_up,
                   nodes, discovery>>

(* NodeTerminated, for a peer that said it was shutting down: the store     *)
(* learns of it at once, and a tick follows.                                *)
NodeTerminated(n) ==
    /\ phase = "idle" /\ phase' = "reading"
    /\ peer[n] = "up" /\ conn[n] = "connected" /\ changes < MaxChanges /\ changes' = changes + 1
    /\ peer' = [peer EXCEPT ![n] = "down"] /\ conn' = [conn EXCEPT ![n] = "closed"]
    /\ nodes' = IF nodes[n] = None THEN nodes ELSE [nodes EXCEPT ![n].status = "Terminated"]
    /\ node_pings' = [node_pings EXCEPT ![n] = "None"]
    /\ UNCHANGED <<timer, pings, notices, updates, ticked, leader,
                   cluster_member_up, discovery>>

MutantUpdateNode(n) ==
    LET ping == node_pings[n]
        beat == CASE ping \in {"Fresh", "Slow", "Stale"} -> "recent"
                  [] ping = "Old" -> "old"
                  [] OTHER -> nodes[n].beat
        status == CASE ping = "Fresh" -> "Healthy"
                    [] ping \in {"Slow", "Stale"} -> "Unhealthy"
                    [] ping = "Old" -> "Terminated"
                    [] ping = "Disconnected" -> nodes[n].status
                    [] ping = "Timeout" -> IF beat = "old" THEN "Unhealthy" ELSE "Terminated"
                    [] OTHER -> IF nodes[n].status = "Terminated" THEN "Terminated" ELSE "Joining"
    IN [status |-> status, beat |-> beat]

(* update_node and node_status.  After a timeout a peer that was heard of   *)
(* recently is the one that is terminated.                                  *)
update_node(n) ==
    LET ping == node_pings[n]
        beat == CASE ping \in {"Fresh", "Slow", "Stale"} -> "recent"
                  [] ping = "Old" -> "old"
                  [] OTHER -> nodes[n].beat
        status == CASE ping = "Fresh" -> "Healthy"
                    [] ping \in {"Slow", "Stale"} -> "Unhealthy"
                    [] ping \in {"Old", "Disconnected"} -> "Terminated"
                    [] ping = "Timeout" -> IF beat = "old" THEN "Unhealthy" ELSE "Terminated"
                    [] OTHER -> IF nodes[n].status = "Terminated" THEN "Terminated" ELSE "Joining"
    IN [status |-> status, beat |-> beat]

(* The tick, up to update_nodes: the answer to GetNodes, judged.            *)
GetNodes ==
    /\ phase = "reading" /\ phase' = "updating"
    /\ updates' = [n \in Nodes |-> IF nodes[n] = None THEN None
                                   ELSE IF n = Self THEN [status |-> "Healthy", beat |-> "recent"]
                                   ELSE update_node(n)]
    /\ UNCHANGED <<environment, clients, node_pings, ticked, leader, cluster_member_up, nodes, discovery>>

(* The first healthy node in the order of start times.                      *)
OldestHealthy ==
    LET healthy == {n \in Nodes : updates[n] # None /\ updates[n].status = "Healthy"}
    IN CHOOSE n \in healthy : \A m \in healthy : age[n] <= age[m]

MutantMinClusterSizeReached ==
    minimum_size = 0 \/ minimum_size > Cardinality({n \in Peers : node_pings[n] # "None"})

(* The comparison that on_min_cluster_size_reached hangs on; it is looked   *)
(* at only when the leader changes.                                         *)
MinClusterSizeReached ==
    minimum_size = 0 \/ minimum_size >= Cardinality({n \in Peers : node_pings[n] # "None"})

(* The rest of the tick.  What it read is written back over whatever was    *)
(* registered since.                                                        *)
UpdateNodes ==
    /\ phase = "updating" /\ phase' = "idle" /\ ticked' = TRUE
    /\ nodes' = [n \in Nodes |-> IF updates[n] = None THEN nodes[n] ELSE updates[n]]
    /\ updates' = [n \in Nodes |-> None]
    /\ LET changed == ticked /\ leader # OldestHealthy
       IN /\ leader' = IF changed THEN OldestHealthy ELSE leader
          /\ cluster_member_up' = (cluster_member_up \/ (changed /\ MinClusterSizeReached))
    /\ UNCHANGED <<environment, clients, node_pings, discovery>>

-----------------------------------------------------------------------------
(* The clients.                                                             *)

(* PingTick.                                                                *)
PingTick(n) ==
    /\ n \in timer
    /\ IF conn[n] = "connected"
       THEN /\ pings' = pings \cup {<<n, IF peer[n] = "up" THEN "live" ELSE "lost">>}
            /\ UNCHANGED <<timer, notices>>
       ELSE /\ notices' = notices \cup {<<n, "Disconnected">>, <<n, "Forget">>}
            /\ timer' = timer \ {n} /\ UNCHANGED pings
    /\ UNCHANGED <<environment, conn, heartbeat, nodes, discovery>>

(* The client connects, starts its timer and asks for the discovery of its  *)
(* node.                                                                    *)
ClientConnects(n) ==
    /\ conn[n] = "closed" /\ peer[n] = "up"
    /\ conn' = [conn EXCEPT ![n] = "connected"] /\ timer' = timer \cup {n}
    /\ addr_seeds' = addr_seeds \cup {n}
    /\ UNCHANGED <<environment, pings, notices, heartbeat, nodes,
                   known, discovering, node_seeds, registering, handshakes>>

-----------------------------------------------------------------------------
(* The discovery.                                                           *)

HasClient(S) == [n \in Peers |-> IF n \in S /\ conn[n] = "none" THEN "closed" ELSE conn[n]]

(* Discover, of an address: the node and the peers it knows of identify     *)
(* themselves, or do not in time; those that do are discovered together.    *)
DiscoverAddr(n) ==
    /\ registering = {} /\ n \in addr_seeds
    /\ addr_seeds' = addr_seeds \ {n}
    /\ \E S \in SUBSET Peers :
        /\ \A m \in S : m \in known \/ conn[m] = "connected"
        /\ n \in known => S = {}
        /\ n \notin S => S = {}
        /\ known' = known \cup S
        /\ node_seeds' = IF S = {} THEN node_seeds ELSE node_seeds \cup {S}
    /\ conn' = HasClient(IF n \in known THEN {} ELSE Peers)
    /\ UNCHANGED <<environment, timer, pings, notices, heartbeat, nodes,
                   discovering, registering, handshakes>>

(* A peer's handshake names the nodes it knows of (session_handshake).      *)
HandshakeReceived(S) ==
    /\ S \notin node_seeds /\ node_seeds' = node_seeds \cup {S}
    /\ changes < MaxChanges /\ changes' = changes + 1
    /\ UNCHANGED <<peer, clients, heartbeat, nodes,
                   known, discovering, addr_seeds, registering, handshakes>>

MutantDiscoverNodes(S) ==
    /\ registering = {} /\ S \in node_seeds
    /\ node_seeds' = node_seeds \ {S}
    /\ registering' = {n \in S : nodes[n] = None \/ nodes[n].status = "Terminated"}
    /\ UNCHANGED <<environment, clients, heartbeat, nodes,
                   known, discovering, addr_seeds, handshakes>>

(* Discover, of nodes: those that are neither in the store, unless          *)
(* terminated, nor being discovered.                                        *)
DiscoverNodes(S) ==
    /\ registering = {} /\ S \in node_seeds
    /\ node_seeds' = node_seeds \ {S}
    /\ registering' = {n \in S \ discovering : nodes[n] = None \/ nodes[n].status = "Terminated"}
    /\ UNCHANGED <<environment, clients, heartbeat, nodes,
                   known, discovering, addr_seeds, handshakes>>

RegisterNode(n) ==
    /\ n \in registering /\ registering' = registering \ {n}
    /\ nodes' = [nodes EXCEPT ![n] = Joining]
    /\ conn' = HasClient({n})
    /\ discovering' = discovering \cup {n}
    /\ handshakes' = [handshakes EXCEPT ![n] = @ + 1]
    /\ UNCHANGED <<environment, timer, pings, notices, heartbeat, known, addr_seeds, node_seeds>>

(* NodeDiscovered, at the end of a handshake: a node whose handshake failed *)
(* stays in discovering.                                                    *)
NodeDiscovered(n) ==
    /\ registering = {} /\ handshakes[n] > 0
    /\ handshakes' = [handshakes EXCEPT ![n] = @ - 1]
    /\ \/ /\ peer[n] = "up" /\ conn[n] = "connected"
          /\ discovering' = discovering \ {n}
       \/ UNCHANGED discovering
    /\ UNCHANGED <<environment, clients, heartbeat, nodes, known, addr_seeds, node_seeds, registering>>

Forget(n) ==
    /\ registering = {} /\ Handled(<<n, "Forget">>)
    /\ known' = known \ {n}
    /\ UNCHANGED <<environment, conn, timer, pings, heartbeat, nodes,
                   discovering, addr_seeds, node_seeds, registering, handshakes>>

-----------------------------------------------------------------------------
(* What happens to the peers, and time.                                     *)

Change(n, now) ==
    /\ changes < MaxChanges /\ changes' = changes + 1
    /\ peer[n] # now /\ peer' = [peer EXCEPT ![n] = now]
    /\ conn' = IF now = "down" /\ conn[n] = "connected" THEN [conn EXCEPT ![n] = "closed"] ELSE conn
    /\ pings' = IF now # "up" /\ <<n, "live">> \in pings
                THEN (pings \ {<<n, "live">>}) \cup {<<n, "lost">>} ELSE pings
    /\ UNCHANGED <<timer, notices, heartbeat, nodes, discovery>>

(* A pong grows old while its peer gives no other.                          *)
TimePasses(n) ==
    /\ peer[n] # "up"
    /\ \/ /\ node_pings[n] \in {"Fresh", "Slow"}
          /\ node_pings' = [node_pings EXCEPT ![n] = "Stale"] /\ UNCHANGED nodes
       \/ /\ node_pings[n] = "Stale"
          /\ node_pings' = [node_pings EXCEPT ![n] = "Old"]
          /\ nodes' = IF nodes[n] = None THEN nodes ELSE [nodes EXCEPT ![n].beat = "old"]
       \/ /\ node_pings[n] \in {"Timeout", "Disconnected"}
          /\ nodes[n] # None /\ nodes[n].beat = "recent"
          /\ nodes' = [nodes EXCEPT ![n].beat = "old"] /\ UNCHANGED node_pings
    /\ UNCHANGED <<environment, clients, phase, updates, ticked, leader, cluster_member_up, discovery>>

Tick == HeartbeatTick \/ GetNodes \/ UpdateNodes

DiscoveryStep ==
    \/ \E n \in Peers : DiscoverAddr(n) \/ RegisterNode(n) \/ NodeDiscovered(n) \/ Forget(n)
    \/ \E S \in SUBSET Peers : DiscoverNodes(S)

ClientStep(n) == PingTick(n) \/ ClientConnects(n)

Result(n) == Pong(n) \/ PingTimeout(n) \/ NodeDisconnected(n)

Next ==
    \/ Tick \/ DiscoveryStep
    \/ \E n \in Peers :
        \/ ClientStep(n) \/ Result(n) \/ TimePasses(n) \/ NodeTerminated(n)
        \/ \E now \in {"up", "hung", "down"} : Change(n, now)
    \/ \E S \in SUBSET Peers \ {{}} : HandshakeReceived(S)

(* The heartbeat's timer ticks, actors handle what they are sent, pings are *)
(* sent and end, and time passes.                                           *)
Spec ==
    /\ Init /\ [][Next]_vars
    /\ WF_vars(HeartbeatTick) /\ WF_vars(GetNodes \/ UpdateNodes) /\ WF_vars(DiscoveryStep)
    /\ \A n \in Peers : WF_vars(PingTick(n)) /\ WF_vars(ClientConnects(n)) /\ WF_vars(TimePasses(n))
    /\ \A n \in Peers : SF_vars(Pong(n)) /\ SF_vars(PingTimeout(n)) /\ SF_vars(NodeDisconnected(n))

-----------------------------------------------------------------------------
(* Properties.                                                              *)

(* A node is never discovered twice at the same time: seeds, reconnections  *)
(* and handshakes of other nodes all ask for it.                            *)
OneHandshakePerNode == \A n \in Peers : handshakes[n] <= 1

(* The oldest of the nodes that are in the store and answer.                *)
Eldest ==
    LET members == {n \in Nodes : n = Self \/ (nodes[n] # None /\ peer[n] = "up" /\ conn[n] = "connected")}
    IN CHOOSE n \in members : \A m \in members : age[n] <= age[m]

(* Once the peers stay as they are the leader is, and remains, the eldest   *)
(* of those that answer: so all nodes that see the same peers agree on it,  *)
(* whatever results of earlier pings come in late.                          *)
EldestLeads == <>[](leader = Eldest)

(* Without a minimum size, or with one that no number of peers exceeds, the *)
(* node comes up in the end.                                                *)
MemberComesUp ==
    (minimum_size = 0 \/ minimum_size >= Cardinality(Peers)) => <>cluster_member_up
=============================================================================
