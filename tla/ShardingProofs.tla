--------------------------- MODULE ShardingProofs ---------------------------
(***************************************************************************)
(* Proofs about Sharding, for every set of nodes, every finite set of      *)
(* shards, any requests and any number of changes of the cluster.  The     *)
(* proofs about the coordinator alone are those of ShardCoordinatorProofs: *)
(* its actions here are the actions there.                                 *)
(***************************************************************************)
EXTENDS Sharding, Integers, TLAPS

\* Few steps need arithmetic or sequences; those name the SMT solver.
USE Zenon

Message ==
    [type : {"EntityRequest"}, shard : Shards, request : Requests]
    \cup [no : Nat, type : {"ShardAllocated"}, shard : Shards, node : Nodes, to : SUBSET Nodes]
    \cup [no : Nat, type : {"ShardReallocating"}, shard : Shards, to : SUBSET Nodes]
    \cup [no : Nat, type : {"StopShard"}, shard : Shards, req : Nat, to : SUBSET Nodes]
    \cup [type : {"ShardReady"}, shard : Shards, actor : Nat]
    \cup [type : {"ShardStopped"}, shard : Shards]

Broadcast == {b \in Message : b.type \in {"ShardAllocated", "ShardReallocating", "StopShard"}}

Entry == [state : {"none", "Starting", "Ready", "Stopping"}, actor : Nat, buffer : SUBSET Requests]
Actor == [node : Nodes, shard : Shards, id : Nat, phase : {"starting", "running"}, stop : BOOLEAN]
Task == [node : Nodes, shard : Shards, actor : Nat, req : Nat, sent : BOOLEAN]

\* The types of what the hosts keep, and of what is sent.
Types ==
    /\ mailbox \in [Nodes -> Seq(Message)]
    /\ hosted_shards \in [Nodes -> [Shards -> Entry]]
    /\ remote_shards \in [Nodes -> [Shards -> Nodes \cup {NoNode}]]
    /\ requests_pending_shard_allocation \in [Nodes -> [Shards -> SUBSET Requests]]
    /\ asks \in [Nodes -> [Shards -> Nat]]
    /\ actors \subseteq Actor
    /\ last_id \in [Nodes -> Nat]
    /\ stopping \subseteq Task /\ answers \subseteq Task
    /\ tasks \subseteq Broadcast
    /\ emitted \in Nat
    /\ caller \in Nodes \cup {NoNode}

\* There is work only while a coordinator runs.
WorkIsRunning == work # <<>> => Coordinator!Running

\* The host whose AllocateShard is being handled has a task that waits for it.
CallerWaits == caller # NoNode => work # <<>> /\ asks[caller][Head(work)] > 0

\* Nothing ever takes a shard from its node: no rebalance is due, no shard is
\* asked to stop, and all that says where a shard is, says where it is.
Settling ==
    /\ ~scheduled /\ fired = 0 /\ stopping = {} /\ answers = {}
    /\ \A b \in tasks : b.type = "ShardAllocated" /\ b.node = shards[b.shard]
    /\ \A h \in Nodes : \A i \in DOMAIN mailbox[h] :
          LET m == mailbox[h][i]
          IN  /\ m.type \in {"EntityRequest", "ShardAllocated", "ShardReady"}
              /\ m.type = "ShardAllocated" => m.node = shards[m.shard]
              /\ m.type = "ShardReady" => h = shards[m.shard]
    /\ \A h \in Nodes, s \in Shards :
          /\ remote_shards[h][s] # NoNode => remote_shards[h][s] = shards[s]
          /\ hosted_shards[h][s] # NotHosted => h = shards[s]

\* A host starts an actor for a shard only once: it keeps the entry.
ActorHasEntry ==
    /\ \A a, b \in actors : a.shard = b.shard => a = b
    /\ \A a \in actors : a.node = shards[a.shard] /\ hosted_shards[a.node][a.shard] # NotHosted

StableInv == Stable => Settling /\ ActorHasEntry

HostsInv == Types /\ WorkIsRunning /\ CallerWaits /\ PendingHasWakeup /\ StableInv

\* What the hosts rely on in the coordinator: its types, and that it finds a
\* node for a shard whenever it runs.
CoordinatorOk == Coordinator!TypeOK /\ (Coordinator!Running => Coordinator!LeastLoaded # {})

\* The tasks of a rebalance are numbered.
Numbered ==
    \A R \in SUBSET Shards :
        Cardinality(R) \in Nat /\ Numbering(R) \in [R -> 1 .. Cardinality(R)]

-----------------------------------------------------------------------------
(* The coordinator: what happens to it. *)

\* The actions of the coordinator that occur here, ...
CoordinatorAction ==
    \/ Coordinator!Start \/ Coordinator!allocate_shard
    \/ \E s \in Shards : Coordinator!AllocateShard(s)
    \/ \E s \in Shards, n \in Nodes : Coordinator!AllocateRebalanced(s, n)
    \/ Coordinator!RebalanceAll \/ \E R \in SUBSET Shards : Coordinator!RebalanceShards(R)
    \/ Coordinator!RebalanceTimer
    \/ \E n \in Nodes : Coordinator!on_node_discovered(n) \/ Coordinator!on_node_removed(n)

\* ... are all that happens to it.
LEMMA CoordinatorSteps ==
    ASSUME Types, Next
    PROVE  CoordinatorAction \/ UNCHANGED coord
<1>1. CASE CoordinatorStep
  <2>1. CASE Start \/ AllocateStep
    BY <2>1 DEF Start, AllocateStep, CoordinatorAction
  <2>2. CASE Rebalance
    BY <2>2 DEF Rebalance, CoordinatorAction, Coordinator!Allocated
  <2>3. CASE \E h \in Nodes, s \in Shards : Ask(h, s)
    BY <2>3 DEF Ask, CoordinatorAction
  <2>4. CASE \E t \in answers : Answer(t)
    BY <2>4 DEF Answer, CoordinatorAction, Types, Task
  <2>5. QED
    BY <1>1, <2>1, <2>2, <2>3, <2>4 DEF CoordinatorStep
<1>2. CASE Membership
  BY <1>2 DEF Membership, CoordinatorAction
<1>3. CASE \E b \in tasks : \E h \in b.to : Send(b, h)
  BY <1>3 DEF Send
<1>4. CASE \E h \in Nodes, s \in Shards, r \in Requests : Request(h, s, r)
  BY <1>4 DEF Request
<1>5. CASE HostStep
  BY <1>5 DEF HostStep
<1>6. QED
  BY <1>1, <1>2, <1>3, <1>4, <1>5 DEF Next

\* And there is work only while it runs.
LEMMA WorkStaysRunning ==
    ASSUME WorkIsRunning, CoordinatorAction \/ UNCHANGED coord
    PROVE  WorkIsRunning'
<1> USE DEF WorkIsRunning, Coordinator!Running
<1>1. CASE Coordinator!Start
  BY <1>1, ShardingAssumption DEF Coordinator!Start, Coordinator!pre_recovery
<1>2. CASE Coordinator!allocate_shard
  BY <1>2 DEF Coordinator!allocate_shard
<1>3. CASE CoordinatorAction /\ ~Coordinator!Start /\ ~Coordinator!allocate_shard
  BY <1>3 DEF CoordinatorAction, Coordinator!AllocateShard, Coordinator!AllocateRebalanced,
     Coordinator!RebalanceAll, Coordinator!RebalanceShards, Coordinator!RebalanceTimer,
     Coordinator!on_node_discovered, Coordinator!on_node_removed, Coordinator!Idle
<1>4. CASE UNCHANGED coord
  BY <1>4 DEF coord
<1>5. QED
  BY <1>1, <1>2, <1>3, <1>4

\* So an allocation succeeds, and no shard that has a node is given another.
LEMMA Allocates ==
    ASSUME CoordinatorOk, WorkIsRunning, Coordinator!allocate_shard
    PROVE  /\ Head(work) \in Shards
           /\ shards'[Head(work)] \in Nodes
           /\ shards' \in [Shards -> Nodes \cup {NoNode}]
           /\ \A s \in Shards : shards[s] # NoNode => shards'[s] = shards[s]
           /\ UNCHANGED <<scheduled, fired>>
<1>1. /\ work # <<>> /\ work \in Seq(Shards)
      /\ shards \in [Shards -> Nodes \cup {NoNode}]
  BY DEF Coordinator!allocate_shard, CoordinatorOk, Coordinator!TypeOK
<1>2. Head(work) \in Shards
  BY SMT, <1>1
<1>3. Coordinator!LeastLoaded # {}
  BY <1>1 DEF WorkIsRunning, CoordinatorOk
<1>4. CASE shards[Head(work)] # NoNode
  BY <1>1, <1>2, <1>4 DEF Coordinator!allocate_shard
<1>5. CASE shards[Head(work)] = NoNode
  <2>1. PICK n \in Nodes : shards' = [shards EXCEPT ![Head(work)] = n]
    BY <1>3, <1>5 DEF Coordinator!allocate_shard, Coordinator!allocate
  <2>2. QED
    BY <1>1, <1>2, <1>5, <2>1 DEF Coordinator!allocate_shard
<1>6. QED
  BY <1>4, <1>5

-----------------------------------------------------------------------------
(* Messages and mailboxes. *)

\* The fields a handler reads.
LEMMA MessageFields ==
    ASSUME NEW m \in Message
    PROVE  /\ m.shard \in Shards
           /\ m.type = "EntityRequest" => m.request \in Requests
           /\ m.type = "ShardAllocated" => m.node \in Nodes
           /\ m.type = "ShardReady" => m.actor \in Nat
           /\ m.type = "StopShard" => m.req \in Nat
BY DEF Message

\* Which hosts a task has still to send to does not change what it sends.
LEMMA BroadcastFields ==
    ASSUME NEW b \in Broadcast, NEW T \in SUBSET Nodes
    PROVE  /\ b.to \in SUBSET Nodes
           /\ [b EXCEPT !.to = T] \in Broadcast /\ [b EXCEPT !.to = T].to = T
           /\ [b EXCEPT !.to = T].type = b.type /\ [b EXCEPT !.to = T].shard = b.shard
           /\ b.type = "ShardAllocated" => [b EXCEPT !.to = T].node = b.node
<1>1. CASE b \in [no : Nat, type : {"ShardAllocated"}, shard : Shards, node : Nodes, to : SUBSET Nodes]
  BY <1>1 DEF Broadcast, Message
<1>2. CASE b \in [no : Nat, type : {"ShardReallocating"}, shard : Shards, to : SUBSET Nodes]
  BY <1>2 DEF Broadcast, Message
<1>3. CASE b \in [no : Nat, type : {"StopShard"}, shard : Shards, req : Nat, to : SUBSET Nodes]
  BY <1>3 DEF Broadcast, Message
<1>4. QED
  BY <1>1, <1>2, <1>3 DEF Broadcast, Message

\* A host takes the first message; the others move up.
LEMMA ReceiveMail ==
    ASSUME Types, NEW h \in Nodes, NEW type, Receive(h, type)
    PROVE  /\ Head(mailbox[h]) \in Message /\ Head(mailbox[h]).type = type
           /\ 1 \in DOMAIN mailbox[h] /\ Head(mailbox[h]) = mailbox[h][1]
           /\ mailbox' \in [Nodes -> Seq(Message)]
           /\ \A n \in Nodes : n # h => mailbox'[n] = mailbox[n]
           /\ \A i \in DOMAIN mailbox'[h] :
                i + 1 \in DOMAIN mailbox[h] /\ mailbox'[h][i] = mailbox[h][i + 1]
           /\ \A i \in DOMAIN mailbox[h] :
                i # 1 => i - 1 \in DOMAIN mailbox'[h] /\ mailbox'[h][i - 1] = mailbox[h][i]
<1>1. PICK q \in Seq(Message) : q = mailbox[h]
  BY DEF Types
<1>2. q # <<>> /\ Head(q).type = type /\ mailbox' = [mailbox EXCEPT ![h] = Tail(q)]
  BY <1>1 DEF Receive
<1>3. /\ Len(q) \in Nat /\ Len(q) >= 1 /\ Head(q) = q[1] /\ q[1] \in Message
      /\ DOMAIN q = 1 .. Len(q)
  BY SMT, <1>2
<1>4. PICK t : t = Tail(q)
  OBVIOUS
<1>5. /\ t \in Seq(Message) /\ DOMAIN t = 1 .. Len(q) - 1
      /\ \A i \in 1 .. Len(q) - 1 : t[i] = q[i + 1]
  BY SMT, <1>2, <1>4
<1>6. /\ mailbox' \in [Nodes -> Seq(Message)] /\ mailbox'[h] = t
      /\ \A n \in Nodes : n # h => mailbox'[n] = mailbox[n]
  BY <1>2, <1>4, <1>5 DEF Types
<1>7. ASSUME NEW i \in DOMAIN t
      PROVE  i + 1 \in DOMAIN q /\ t[i] = q[i + 1]
  BY SMT, <1>3, <1>5
<1>8. ASSUME NEW i \in DOMAIN q, i # 1
      PROVE  i - 1 \in DOMAIN t /\ t[i - 1] = q[i]
  BY SMT, <1>3, <1>5, <1>8
<1>9. QED
  BY SMT, <1>1, <1>2, <1>3, <1>6, <1>7, <1>8

\* A message is put at the end of a mailbox.
LEMMA AppendMail ==
    ASSUME Types, NEW h \in Nodes, NEW m \in Message,
           mailbox' = [mailbox EXCEPT ![h] = Append(@, m)]
    PROVE  /\ mailbox' \in [Nodes -> Seq(Message)]
           /\ \A n \in Nodes : \A i \in DOMAIN mailbox[n] :
                i \in DOMAIN mailbox'[n] /\ mailbox'[n][i] = mailbox[n][i]
           /\ \E k \in DOMAIN mailbox'[h] : mailbox'[h][k] = m
           /\ \A n \in Nodes : \A i \in DOMAIN mailbox'[n] :
                \/ i \in DOMAIN mailbox[n] /\ mailbox'[n][i] = mailbox[n][i]
                \/ n = h /\ mailbox'[n][i] = m
<1>1. PICK q \in Seq(Message) : q = mailbox[h]
  BY DEF Types
<1>2. PICK t : t = Append(q, m)
  OBVIOUS
<1>3. /\ t \in Seq(Message) /\ Len(q) \in Nat /\ DOMAIN q = 1 .. Len(q)
      /\ DOMAIN t = 1 .. Len(q) + 1 /\ t[Len(q) + 1] = m
      /\ \A i \in 1 .. Len(q) : t[i] = q[i]
  BY SMT, <1>2
<1>4. /\ mailbox' \in [Nodes -> Seq(Message)] /\ mailbox'[h] = t
      /\ \A n \in Nodes : n # h => mailbox'[n] = mailbox[n]
  BY <1>1, <1>2, <1>3 DEF Types
<1>5. /\ \A i \in DOMAIN q : i \in DOMAIN t /\ t[i] = q[i]
      /\ Len(q) + 1 \in DOMAIN t
      /\ \A i \in DOMAIN t : i \in DOMAIN q \/ t[i] = m
  BY SMT, <1>3
<1>6. QED
  BY SMT, <1>1, <1>3, <1>4, <1>5

\* What is appended to a mailbox is in it.
LEMMA Appended ==
    ASSUME Types, NEW h \in Nodes, NEW m \in Message,
           mailbox' = [mailbox EXCEPT ![h] = Append(@, m)]
    PROVE  \E k \in DOMAIN mailbox'[h] : mailbox'[h][k] = m
<1>1. PICK q \in Seq(Message) : q = mailbox[h]
  BY DEF Types
<1>2. Len(q) + 1 \in DOMAIN Append(q, m) /\ Append(q, m)[Len(q) + 1] = m
  BY SMT
<1>3. mailbox'[h] = Append(q, m)
  BY <1>1 DEF Types
<1>4. QED
  BY <1>2, <1>3

-----------------------------------------------------------------------------
(* What the invariants depend on. *)

Asked(h, s) == asks[h][s] > 0
Coming(h, s) == \E b \in tasks : b.type = "ShardAllocated" /\ b.shard = s /\ h \in b.to
IsAllocation(m, s) == m.type = "ShardAllocated" /\ m.shard = s
Arrived(h, s) == \E i \in DOMAIN mailbox[h] : IsAllocation(mailbox[h][i], s)
Woken(h, s) == Asked(h, s) \/ Coming(h, s) \/ Arrived(h, s)

\* PendingHasWakeup in these terms, before and after a step.
LEMMA WakeupByParts ==
    /\ PendingHasWakeup => \A h \in Nodes, s \in Shards : pending[h][s] # {} => Woken(h, s)
    /\ (\A h \in Nodes, s \in Shards : pending'[h][s] # {} => Woken(h, s)') => PendingHasWakeup'
BY DEF PendingHasWakeup, Woken, Asked, Coming, Arrived, IsAllocation

\* An allocation stays in a mailbox until it is handled.
LEMMA ArrivedStays ==
    ASSUME Types, NEW h \in Nodes, NEW s \in Shards, Arrived(h, s),
           \/ UNCHANGED mailbox
           \/ \E n \in Nodes, m \in Message : mailbox' = [mailbox EXCEPT ![n] = Append(@, m)]
           \/ \E n \in Nodes : \E type : /\ Receive(n, type)
                                         /\ n = h => ~IsAllocation(Head(mailbox[n]), s)
    PROVE  Arrived(h, s)'
<1>1. PICK i \in DOMAIN mailbox[h] : IsAllocation(mailbox[h][i], s)
  BY DEF Arrived
<1>2. CASE UNCHANGED mailbox
  BY <1>2 DEF Arrived
<1>3. ASSUME NEW n \in Nodes, NEW m \in Message, mailbox' = [mailbox EXCEPT ![n] = Append(@, m)]
      PROVE  Arrived(h, s)'
  <2>1. i \in DOMAIN mailbox'[h] /\ mailbox'[h][i] = mailbox[h][i]
    BY SMT, <1>3, AppendMail
  <2>2. QED
    BY <1>1, <2>1 DEF Arrived
<1>4. ASSUME NEW n \in Nodes, NEW type, Receive(n, type), n = h => ~IsAllocation(Head(mailbox[n]), s)
      PROVE  Arrived(h, s)'
  <2>1. CASE n # h
    BY SMT, <1>1, <1>4, <2>1, ReceiveMail DEF Arrived
  <2>2. CASE n = h
    <3>1. i # 1
      BY <1>1, <1>4, <2>2, ReceiveMail
    <3>2. i - 1 \in DOMAIN mailbox'[h] /\ mailbox'[h][i - 1] = mailbox[h][i]
      BY SMT, <1>4, <2>2, <3>1, ReceiveMail
    <3>3. QED
      BY <1>1, <3>2 DEF Arrived
  <2>3. QED
    BY <2>1, <2>2
<1>5. QED
  BY <1>2, <1>3, <1>4

\* A step that adds no pending request and takes no wake-up away.
LEMMA WakeupKept ==
    ASSUME PendingHasWakeup,
           \A h \in Nodes, s \in Shards : pending'[h][s] # {} =>
               /\ pending[h][s] # {} /\ (Asked(h, s) => Woken(h, s)')
               /\ Coming(h, s) => Woken(h, s)'
               /\ Arrived(h, s) => Woken(h, s)'
    PROVE  PendingHasWakeup'
<1>1. ASSUME NEW h \in Nodes, NEW s \in Shards, pending'[h][s] # {}
      PROVE  Woken(h, s)'
  <2>1. Asked(h, s) \/ Coming(h, s) \/ Arrived(h, s)
    BY <1>1, WakeupByParts DEF Woken
  <2>2. QED
    BY <1>1, <2>1
<1>2. QED
  BY <1>1, WakeupByParts

\* Messages for a cluster that does not change: none stops a shard, all say
\* where it is, sh.
Says(sh, h, m) ==
    /\ m.type \in {"EntityRequest", "ShardAllocated", "ShardReady"}
    /\ m.type = "ShardAllocated" => m.node = sh[m.shard]
    /\ m.type = "ShardReady" => h = sh[m.shard]

\* What the hosts know is kept by a step that only lets hosts learn what is so.
LEMMA SettlingKept ==
    ASSUME Types, Settling, Coordinator!TypeOK,
           shards' \in [Shards -> Nodes \cup {NoNode}],
           \A s \in Shards : shards[s] # NoNode => shards'[s] = shards[s],
           UNCHANGED <<scheduled, fired, stopping, answers>>,
           \A b \in tasks' : \/ \E c \in tasks : b.type = c.type /\ b.shard = c.shard /\ b.node = c.node
                             \/ b.type = "ShardAllocated" /\ b.node = shards'[b.shard],
           \A h \in Nodes : \A i \in DOMAIN mailbox'[h] :
               \/ \E j \in DOMAIN mailbox[h] : mailbox'[h][i] = mailbox[h][j]
               \/ Says(shards', h, mailbox'[h][i]),
           \A h \in Nodes, s \in Shards :
               /\ remote_shards'[h][s] \in {remote_shards[h][s], NoNode, shards'[s]}
               /\ hosted_shards'[h][s] # NotHosted => hosted_shards[h][s] # NotHosted \/ h = shards'[s]
    PROVE  Settling'
<1>0. \A h \in Nodes : h # NoNode
  BY ShardingAssumption
<1>1. ~scheduled' /\ fired' = 0 /\ stopping' = {} /\ answers' = {}
  BY DEF Settling
<1>2. ASSUME NEW b \in tasks'
      PROVE  b.type = "ShardAllocated" /\ b.node = shards'[b.shard]
  <2>1. ASSUME NEW c \in tasks
        PROVE  c.type = "ShardAllocated" /\ c.node = shards[c.shard] /\ c.shard \in Shards /\ c.node \in Nodes
    <3>1. c \in Message
      BY DEF Types, Broadcast
    <3>2. QED
      BY <3>1, MessageFields DEF Settling
  <2>2. QED
    BY SMT, <1>0, <2>1
<1>3. ASSUME NEW h \in Nodes, NEW i \in DOMAIN mailbox'[h]
      PROVE  Says(shards', h, mailbox'[h][i])
  <2>1. CASE \E j \in DOMAIN mailbox[h] : mailbox'[h][i] = mailbox[h][j]
    <3>1. PICK j \in DOMAIN mailbox[h] : mailbox'[h][i] = mailbox[h][j]
      BY <2>1
    <3>2. PICK m : m = mailbox[h][j]
      OBVIOUS
    <3>3. m \in Message
      BY SMT, <3>2 DEF Types
    <3>4. Says(shards, h, m)
      BY SMT, <3>2 DEF Settling, Says
    <3>5. Says(shards', h, m)
      BY SMT, <1>0, <3>3, <3>4, MessageFields DEF Says
    <3>6. QED
      BY <3>1, <3>2, <3>5 DEF Says
  <2>2. QED
    BY <2>1
<1>4. ASSUME NEW h \in Nodes, NEW s \in Shards
      PROVE  /\ remote_shards'[h][s] # NoNode => remote_shards'[h][s] = shards'[s]
             /\ hosted_shards'[h][s] # NotHosted => h = shards'[s]
  <2>1. /\ remote_shards[h][s] # NoNode => remote_shards[h][s] = shards[s]
        /\ hosted_shards[h][s] # NotHosted => h = shards[s]
    BY SMT DEF Settling
  <2>2. QED
    BY <1>0, <2>1
<1>5. QED
  BY <1>1, <1>2, <1>3, <1>4 DEF Settling, Says

-----------------------------------------------------------------------------
(* Types: the steps of the hosts. *)

\* The outcome of handle_request is an entry.
LEMMA HandleRequestTypes ==
    ASSUME Types, NEW h \in Nodes, NEW s \in Shards, NEW e \in Entry, NEW R \in SUBSET Requests,
           handle_request(h, s, e, R)
    PROVE  /\ hosted_shards' \in [Nodes -> [Shards -> Entry]]
           /\ hosted_shards'[h][s] # NotHosted
           /\ \A n \in Nodes, x \in Shards :
                 <<n, x>> # <<h, s>> => hosted_shards'[n][x] = hosted_shards[n][x]
<1>1. PICK f \in Entry : f.state # "none" /\ hosted_shards' = [hosted_shards EXCEPT ![h][s] = f]
  <2>1. CASE e.state = "Starting"
    <3>1. [e EXCEPT !.buffer = @ \cup R] \in Entry /\ [e EXCEPT !.buffer = @ \cup R].state = "Starting"
      BY <2>1 DEF Entry
    <3>2. QED
      BY <2>1, <3>1 DEF handle_request
  <2>2. CASE e.state \in {"Ready", "Stopping"}
    BY <2>2 DEF handle_request
  <2>3. QED
    BY <2>1, <2>2 DEF handle_request
<1>2. f # NotHosted
  BY SMT, <1>1 DEF NotHosted
<1>3. QED
  BY <1>1, <1>2 DEF Types


\* A Stop in the mailbox of an actor changes nothing else of it.
LEMMA SendStopTypes ==
    ASSUME Types, NEW n, NEW s, NEW id, SendStop(n, s, id)
    PROVE  actors' \subseteq Actor
<1>1. ASSUME NEW a \in actors
      PROVE  a \in Actor /\ [a EXCEPT !.stop = TRUE] \in Actor
  BY DEF Types, Actor
<1>2. QED
  BY <1>1 DEF SendStop

\* NotHosted is what the map answers where it has no entry.
LEMMA EntryTypes ==
    /\ NotHosted \in Entry /\ NotHosted.state = "none"
    /\ [NotHosted EXCEPT !.state = "Stopping"] \in Entry
    /\ \A id \in Nat : /\ [state |-> "Starting", actor |-> id, buffer |-> {}] \in Entry
                       /\ [state |-> "Ready", actor |-> id, buffer |-> {}] \in Entry
BY DEF NotHosted, Entry

\* What a host's steps leave to the coordinator's side.
OthersUnchanged == UNCHANGED <<coord, tasks, emitted, caller, scenario>>

\* A client's request at its host.
LEMMA EntityRequestTypes ==
    ASSUME Types, NEW h \in Nodes, EntityRequest(h), OthersUnchanged
    PROVE  Types'
<1> DEFINE m == Head(mailbox[h])
           e == hosted_shards[h][m.shard]
<1>1. /\ m.shard \in Shards /\ m.request \in Requests /\ {m.request} \in SUBSET Requests
      /\ mailbox' \in [Nodes -> Seq(Message)]
  <2>1. Receive(h, "EntityRequest")
    BY DEF EntityRequest
  <2>2. m \in Message /\ m.type = "EntityRequest" /\ mailbox' \in [Nodes -> Seq(Message)]
    BY <2>1, ReceiveMail
  <2> HIDE DEF m
  <2>3. QED
    BY <2>2, MessageFields
<1>2. UNCHANGED <<remote_shards, actors, last_id, stopping, answers, tasks, emitted, caller>>
  BY DEF EntityRequest, OthersUnchanged
<1>3. e \in Entry /\ asks[h][m.shard] \in Nat
  BY <1>1 DEF Types
<1> HIDE DEF m, e
<1>4. CASE /\ handle_request(h, m.shard, e, {m.request})
           /\ UNCHANGED <<requests_pending_shard_allocation, asks>>
  BY <1>1, <1>2, <1>3, <1>4, HandleRequestTypes DEF Types
<1>5. CASE UNCHANGED <<hosted_shards, requests_pending_shard_allocation, asks>>
  BY <1>1, <1>2, <1>5 DEF Types
<1>6. CASE /\ requests_pending_shard_allocation' = [pending EXCEPT ![h][m.shard] = @ \cup {m.request}]
           /\ asks' = [asks EXCEPT ![h][m.shard] = @ + 1]
           /\ UNCHANGED hosted_shards
  <2>1. requests_pending_shard_allocation' \in [Nodes -> [Shards -> SUBSET Requests]]
    BY SMT, <1>1, <1>6 DEF Types, pending
  <2>2. asks' \in [Nodes -> [Shards -> Nat]]
    BY SMT, <1>1, <1>3, <1>6 DEF Types
  <2>3. QED
    BY <1>1, <1>2, <1>6, <2>1, <2>2 DEF Types
<1>7. QED
  BY <1>4, <1>5, <1>6 DEF EntityRequest, m, e

\* ShardAllocated at a host.
LEMMA ShardAllocatedTypes ==
    ASSUME Types, NEW h \in Nodes, ShardAllocated(h), OthersUnchanged
    PROVE  Types'
<1> DEFINE m == Head(mailbox[h])
           s == m.shard
           e == hosted_shards[h][s]
<1>1. s \in Shards /\ m.node \in Nodes /\ mailbox' \in [Nodes -> Seq(Message)]
  BY SMT, ReceiveMail, MessageFields DEF ShardAllocated
<1>2. UNCHANGED <<asks, stopping, answers, tasks, emitted, caller>>
  BY DEF ShardAllocated, OthersUnchanged
<1>3. e \in Entry /\ pending[h][s] \in SUBSET Requests /\ last_id[h] + 1 \in Nat
  BY SMT, <1>1 DEF Types, pending
<1>4. CASE m.node = h
  <2>1. AllocatedHere(h, s)
    BY <1>4 DEF ShardAllocated
  <2> HIDE DEF s, m
  <2>2. hosted_shards' \in [Nodes -> [Shards -> Entry]]
    BY <1>1, <1>3, <2>1, EntryTypes, HandleRequestTypes DEF AllocatedHere
  <2>3. actors' \subseteq Actor /\ last_id' \in [Nodes -> Nat]
    <3>1. CASE new_shard(h, s)
      <4>1. [node |-> h, shard |-> s, id |-> last_id[h] + 1, phase |-> "starting", stop |-> FALSE]
              \in Actor
        BY <1>1, <1>3 DEF Actor
      <4>2. QED
        BY <1>3, <3>1, <4>1 DEF new_shard, Types
    <3>2. CASE UNCHANGED <<actors, last_id>>
      BY <3>2 DEF Types
    <3>3. QED
      BY <2>1, <3>1, <3>2 DEF AllocatedHere
  <2>4. /\ remote_shards' \in [Nodes -> [Shards -> Nodes \cup {NoNode}]]
        /\ requests_pending_shard_allocation' \in [Nodes -> [Shards -> SUBSET Requests]]
    BY <1>1, <2>1 DEF AllocatedHere, Types, pending
  <2>5. QED
    BY <1>1, <1>2, <2>2, <2>3, <2>4 DEF Types
<1>5. CASE m.node # h
  <2>1. AllocatedThere(h, s, m.node)
    BY <1>5 DEF ShardAllocated
  <2> HIDE DEF s, m
  <2>2. actors' \subseteq Actor
    BY <2>1, SendStopTypes DEF AllocatedThere, Types
  <2>3. hosted_shards' \in [Nodes -> [Shards -> Entry]]
    BY <1>1, <2>1, EntryTypes DEF AllocatedThere, Types
  <2>4. /\ remote_shards' \in [Nodes -> [Shards -> Nodes \cup {NoNode}]]
        /\ requests_pending_shard_allocation' \in [Nodes -> [Shards -> SUBSET Requests]]
        /\ UNCHANGED last_id
    BY <1>1, <2>1 DEF AllocatedThere, Types, pending
  <2>5. QED
    BY <1>1, <1>2, <2>2, <2>3, <2>4 DEF Types
<1>6. QED
  BY <1>4, <1>5

\* The other messages of a host.
LEMMA HandleTypes ==
    ASSUME Types, NEW h \in Nodes, Handle(h), OthersUnchanged
    PROVE  Types'
<1>1. CASE EntityRequest(h)
  BY <1>1, EntityRequestTypes
<1>2. CASE ShardAllocated(h)
  BY <1>2, ShardAllocatedTypes
<1>3. CASE ShardReallocating(h)
  <2>1. mailbox' \in [Nodes -> Seq(Message)] /\ Head(mailbox[h]).shard \in Shards
    BY <1>3, ReceiveMail, MessageFields DEF ShardReallocating
  <2>2. QED
    BY <1>3, <2>1 DEF ShardReallocating, Types, OthersUnchanged
<1>4. CASE ShardReady(h)
  <2> DEFINE m == Head(mailbox[h])
             ready == [state |-> "Ready", actor |-> m.actor, buffer |-> {}]
  <2>1. mailbox' \in [Nodes -> Seq(Message)] /\ m.shard \in Shards /\ m.actor \in Nat
    BY SMT, <1>4, ReceiveMail, MessageFields DEF ShardReady
  <2>2. ready \in Entry
    BY <2>1, EntryTypes
  <2> HIDE DEF m
  <2>3. /\ hosted_shards' = [hosted_shards EXCEPT ![h][m.shard] = ready]
        /\ UNCHANGED <<remote_shards, requests_pending_shard_allocation, asks, actors, last_id, stopping,
                       answers, tasks, emitted, caller>>
    BY <1>4 DEF ShardReady, m, OthersUnchanged
  <2> HIDE DEF ready
  <2>4. QED
    BY <2>1, <2>2, <2>3 DEF Types
<1>5. CASE StopShard(h)
  <2> DEFINE m == Head(mailbox[h])
             e == hosted_shards[h][m.shard]
             task == [node |-> h, shard |-> m.shard, actor |-> e.actor, req |-> m.req, sent |-> FALSE]
  <2>1. mailbox' \in [Nodes -> Seq(Message)] /\ m.shard \in Shards /\ m.req \in Nat
    BY SMT, <1>5, ReceiveMail, MessageFields DEF StopShard
  <2>2. task \in Task
    <3>1. e \in Entry
      BY <2>1 DEF Types
    <3>2. e.actor \in Nat
      BY <3>1 DEF Entry
    <3> HIDE DEF m, e
    <3>3. QED
      BY <2>1, <3>2 DEF Task
  <2> HIDE DEF m
  <2>3. hosted_shards' \in [Nodes -> [Shards -> Entry]]
    BY <1>5, <2>1, EntryTypes DEF StopShard, Types, m
  <2>4. stopping' \in {stopping, stopping \cup {task}}
    BY <1>5 DEF StopShard, m
  <2>5. UNCHANGED <<remote_shards, requests_pending_shard_allocation, asks, actors, last_id, answers,
                    tasks, emitted, caller>>
    BY <1>5 DEF StopShard, OthersUnchanged
  <2> HIDE DEF task
  <2>6. QED
    BY <2>1, <2>2, <2>3, <2>4, <2>5 DEF Types
<1>6. CASE ShardStopped(h)
  <2>1. mailbox' \in [Nodes -> Seq(Message)] /\ Head(mailbox[h]).shard \in Shards
    BY <1>6, ReceiveMail, MessageFields DEF ShardStopped
  <2>2. QED
    BY <1>6, <2>1, EntryTypes DEF ShardStopped, Types, OthersUnchanged
<1>7. QED
  BY <1>1, <1>2, <1>3, <1>4, <1>5, <1>6 DEF Handle

\* The steps of the shard actors and of the tasks on their nodes.
TaskStep ==
    \/ \E d \in sending : DeliverLocal(d) \/ DeliverRemote(d) \/ NotFound(d)
    \/ \E a \in actors : ActorStarted(a) \/ ActorStopped(a)
    \/ \E t \in stopping : StopSent(t) \/ StopCompleted(t)

\* They keep the types.
LEMMA TaskTypes ==
    ASSUME Types, TaskStep, OthersUnchanged
    PROVE  Types'
<1>1. ASSUME NEW d \in sending, DeliverLocal(d) \/ DeliverRemote(d) \/ NotFound(d)
      PROVE  Types'
  BY <1>1 DEF DeliverLocal, DeliverRemote, NotFound, Types, routing, OthersUnchanged
<1>2. ASSUME NEW a \in actors, ActorStarted(a)
      PROVE  Types'
  <2>1. a \in Actor
    BY DEF Types
  <2>2. [a EXCEPT !.phase = "running"] \in Actor /\ a.node \in Nodes
    BY <2>1 DEF Actor
  <2>3. [type |-> "ShardReady", shard |-> a.shard, actor |-> a.id] \in Message
    BY <2>1 DEF Actor, Message
  <2>4. mailbox' \in [Nodes -> Seq(Message)]
    BY <1>2, <2>2, <2>3, AppendMail DEF ActorStarted
  <2>5. QED
    BY <1>2, <2>2, <2>4 DEF ActorStarted, Types, routing, OthersUnchanged
<1>3. ASSUME NEW a \in actors, ActorStopped(a)
      PROVE  Types'
  BY <1>3 DEF ActorStopped, Types, routing, OthersUnchanged
<1>4. ASSUME NEW t \in stopping, StopSent(t)
      PROVE  Types'
  <2>1. [t EXCEPT !.sent = TRUE] \in Task
    BY DEF Types, Task
  <2>2. actors' \subseteq Actor
    BY <1>4, SendStopTypes DEF StopSent
  <2>3. QED
    BY <1>4, <2>1, <2>2 DEF StopSent, Types, routing, OthersUnchanged
<1>5. ASSUME NEW t \in stopping, StopCompleted(t)
      PROVE  Types'
  <2>1. t.node \in Nodes /\ [type |-> "ShardStopped", shard |-> t.shard] \in Message
    BY DEF Types, Task, Message
  <2>2. mailbox' \in [Nodes -> Seq(Message)]
    BY <1>5, <2>1, AppendMail DEF StopCompleted
  <2>3. QED
    BY <1>5, <2>2 DEF StopCompleted, Types, routing, OthersUnchanged
<1>6. QED
  BY <1>1, <1>2, <1>3, <1>4, <1>5 DEF TaskStep

-----------------------------------------------------------------------------
(* Types: the steps of the coordinator and of its tasks. *)

\* What the coordinator broadcasts and answers.
LEMMA BroadcastTypes ==
    ASSUME NEW s \in Shards, NEW h \in Nodes, NEW T \in SUBSET Nodes, NEW n \in Nat
    PROVE  /\ [no |-> n, type |-> "ShardAllocated", shard |-> s, node |-> h, to |-> T] \in Broadcast
           /\ [no |-> n, type |-> "ShardReallocating", shard |-> s, to |-> T] \in Broadcast
           /\ [no |-> n, type |-> "StopShard", shard |-> s, req |-> n, to |-> T] \in Broadcast
<1>1. [no |-> n, type |-> "ShardAllocated", shard |-> s, node |-> h, to |-> T] \in Broadcast
  BY DEF Broadcast, Message
<1>2. [no |-> n, type |-> "ShardReallocating", shard |-> s, to |-> T] \in Broadcast
  BY DEF Broadcast, Message
<1>3. [no |-> n, type |-> "StopShard", shard |-> s, req |-> n, to |-> T] \in Broadcast
  BY DEF Broadcast, Message
<1>4. QED
  BY <1>1, <1>2, <1>3

\* One allocation.
LEMMA AllocateStepTypes ==
    ASSUME Types, CoordinatorOk, WorkIsRunning, CallerWaits, AllocateStep
    PROVE  Types'
<1> DEFINE s == Head(work)
<1>0. emitted + 1 \in Nat /\ emitted + 2 \in Nat /\ (caller # NoNode => caller \in Nodes)
  BY SMT DEF Types
<1>1. s \in Shards /\ shards'[s] \in Nodes
  BY Allocates DEF AllocateStep
<1> HIDE DEF s
<1>2. broadcast_allocation(s) \in Broadcast
  BY <1>0, <1>1, BroadcastTypes DEF broadcast_allocation
<1>3. caller # NoNode => caller \in Nodes /\ Reply(caller, s) \in Broadcast
  <2>1. CASE caller # NoNode
    <3>1. caller \in Nodes /\ {caller} \in SUBSET Nodes
      BY <1>0, <2>1
    <3>2. QED
      BY <1>0, <1>1, <3>1, BroadcastTypes DEF Reply
  <2>2. QED
    BY <2>1
<1>4. tasks' \subseteq Broadcast
  BY <1>2, <1>3 DEF AllocateStep, Types, s
<1>5. asks' \in [Nodes -> [Shards -> Nat]]
  <2>1. CASE caller = NoNode
    BY <2>1 DEF AllocateStep, Types
  <2>2. CASE caller # NoNode
    <3>1. asks' = [asks EXCEPT ![caller][s] = @ - 1]
      BY <2>2 DEF AllocateStep, s
    <3>2. caller \in Nodes /\ asks[caller][s] - 1 \in Nat
      BY SMT, <1>1, <1>3, <2>2 DEF Types, CallerWaits, s
    <3>3. QED
      BY <1>1, <3>1, <3>2 DEF Types
  <2>3. QED
    BY <2>1, <2>2
<1>6. /\ UNCHANGED <<mailbox, hosted_shards, remote_shards, requests_pending_shard_allocation, actors,
                   last_id, stopping, answers>>
      /\ emitted' \in Nat /\ caller' = NoNode
  BY <1>0 DEF AllocateStep, routing
<1>7. QED
  BY <1>4, <1>5, <1>6 DEF Types

\* A host's question.
LEMMA AskTypes ==
    ASSUME Types, CoordinatorOk, NEW h \in Nodes, NEW s \in Shards, Ask(h, s)
    PROVE  Types'
<1>1. CASE caller' = h /\ UNCHANGED <<asks, tasks, emitted>>
  BY <1>1 DEF Ask, Types, routing
<1>2. CASE /\ shards[s] # NoNode
           /\ UNCHANGED <<coord, caller>>
           /\ tasks' = tasks \cup {Reply(h, s)}
           /\ emitted' = emitted + 2
           /\ asks' = [asks EXCEPT ![h][s] = @ - 1]
  <2>0. emitted + 2 \in Nat /\ {h} \in SUBSET Nodes
    BY SMT DEF Types
  <2>1. shards'[s] \in Nodes
    BY <1>2 DEF coord, CoordinatorOk, Coordinator!TypeOK
  <2>2. Reply(h, s) \in Broadcast
    BY <2>0, <2>1, BroadcastTypes DEF Reply
  <2>3. asks' \in [Nodes -> [Shards -> Nat]]
    <3>1. asks[h][s] - 1 \in Nat
      BY SMT DEF Ask, Types
    <3>2. QED
      BY <1>2, <3>1 DEF Types
  <2>4. QED
    BY SMT, <1>2, <2>2, <2>3 DEF Ask, Types, routing
<1>3. QED
  BY <1>1, <1>2 DEF Ask

\* The tasks of a rebalance.
LEMMA SpawnRebalanceTypes ==
    ASSUME Types, CoordinatorOk, Numbered, SpawnRebalance
    PROVE  Types'
<1> DEFINE R == {s \in Shards : shards[s] # NoNode /\ shards'[s] = NoNode}
           no(s) == emitted + 2 * Numbering(R)[s]
<1>1. Cardinality(R) \in Nat /\ Numbering(R) \in [R -> 1 .. Cardinality(R)]
  BY DEF Numbered
<1>2. ASSUME NEW s \in R
      PROVE  /\ broadcast_reallocation(s, no(s) - 1) \in Broadcast
             /\ StopTask(s, no(s)) \in Broadcast
  <2>1. Numbering(R)[s] \in Nat /\ Numbering(R)[s] >= 1
    BY SMT, <1>1
  <2>2. no(s) \in Nat /\ no(s) - 1 \in Nat
    BY SMT, <2>1 DEF Types
  <2>3. s \in Shards /\ shards[s] \in Nodes
    BY DEF CoordinatorOk, Coordinator!TypeOK
  <2> HIDE DEF no, R
  <2>4. broadcast_reallocation(s, no(s) - 1) \in Broadcast
    BY <2>2, <2>3, BroadcastTypes DEF broadcast_reallocation, Coordinator!Known
  <2>5. StopTask(s, no(s)) \in Broadcast
    BY <2>2, <2>3, BroadcastTypes DEF StopTask
  <2>6. QED
    BY <2>4, <2>5
<1>3. /\ tasks' = tasks \cup {broadcast_reallocation(s, no(s) - 1) : s \in R}
                        \cup {StopTask(s, no(s)) : s \in R}
      /\ emitted' = emitted + 2 * Cardinality(R)
      /\ UNCHANGED <<host_vars, caller>>
  BY DEF SpawnRebalance
<1> HIDE DEF no, R
<1>4. tasks' \subseteq Broadcast
  BY <1>2, <1>3 DEF Types
<1>5. QED
  BY SMT, <1>1, <1>3, <1>4 DEF Types, host_vars, routing

\* A task sends to a host.
LEMMA SendTypes ==
    ASSUME Types, NEW b \in tasks, NEW h \in b.to, Send(b, h)
    PROVE  /\ Types' /\ h \in Nodes /\ [b EXCEPT !.to = {}] \in Message
           /\ mailbox' = [mailbox EXCEPT ![h] = Append(@, [b EXCEPT !.to = {}])]
<1>1. b \in Broadcast
  BY DEF Types
<1>2. h \in Nodes /\ {} \in SUBSET Nodes /\ b.to \ {h} \in SUBSET Nodes
  BY <1>1, BroadcastFields
<1>3. [b EXCEPT !.to = {}] \in Broadcast /\ [b EXCEPT !.to = b.to \ {h}] \in Broadcast
  BY <1>1, <1>2, BroadcastFields
<1>4. [b EXCEPT !.to = {}] \in Message
  BY <1>3 DEF Broadcast
<1>5. mailbox' = [mailbox EXCEPT ![h] = Append(@, [b EXCEPT !.to = {}])]
  BY DEF Send
<1>6. mailbox' \in [Nodes -> Seq(Message)]
  BY <1>2, <1>4, <1>5, AppendMail
<1>7. tasks' \subseteq tasks \cup {[b EXCEPT !.to = b.to \ {h}]}
  BY DEF Send
<1>8. tasks' \subseteq Broadcast
  BY <1>3, <1>7 DEF Types
<1>9. UNCHANGED <<routing, asks, actors, last_id, stopping, answers, emitted, caller>>
  BY DEF Send
<1>10. Types'
  BY <1>6, <1>8, <1>9 DEF Types, routing
<1>11. QED
  BY <1>2, <1>4, <1>5, <1>10

\* A client sends a request.
LEMMA RequestTypes ==
    ASSUME Types, NEW h \in Nodes, NEW s \in Shards, NEW r \in Requests, Request(h, s, r)
    PROVE  /\ Types' /\ [type |-> "EntityRequest", shard |-> s, request |-> r] \in Message
           /\ mailbox' = [mailbox EXCEPT ![h] =
                            Append(@, [type |-> "EntityRequest", shard |-> s, request |-> r])]
<1>1. [type |-> "EntityRequest", shard |-> s, request |-> r] \in Message
  BY DEF Message
<1>2. mailbox' = [mailbox EXCEPT ![h] = Append(@, [type |-> "EntityRequest", shard |-> s, request |-> r])]
  BY DEF Request
<1>3. mailbox' \in [Nodes -> Seq(Message)]
  BY <1>1, <1>2, AppendMail
<1>4. UNCHANGED <<routing, asks, actors, last_id, stopping, answers, tasks, emitted, caller>>
  BY DEF Request
<1>5. QED
  BY <1>1, <1>2, <1>3, <1>4 DEF Types, routing

-----------------------------------------------------------------------------
(* PendingHasWakeup: the steps of the coordinator and of its tasks. *)

\* The answer is under way before the task of the host that asked is done.
LEMMA AllocateStepWakeup ==
    ASSUME Types, CoordinatorOk, WorkIsRunning, PendingHasWakeup, AllocateStep
    PROVE  PendingHasWakeup'
<1>1. PICK s : s = Head(work)
  OBVIOUS
<1>2. s \in Shards /\ shards'[s] \in Nodes /\ NoNode \notin Nodes
  BY <1>1, Allocates, ShardingAssumption DEF AllocateStep
<1>3. /\ tasks \subseteq tasks' /\ UNCHANGED <<mailbox, pending>>
      /\ asks' = IF caller = NoNode THEN asks ELSE [asks EXCEPT ![caller][s] = @ - 1]
  BY <1>1 DEF AllocateStep, pending, routing
<1>4. ASSUME NEW h \in Nodes, h = caller
      PROVE  Coming(h, s)'
  <2>1. CASE caller # NoNode
    <3>1. Reply(h, s) \in tasks'
      BY <1>1, <1>2, <1>4, <2>1 DEF AllocateStep
    <3>2. /\ Reply(h, s).type = "ShardAllocated" /\ Reply(h, s).shard = s
          /\ Reply(h, s).to = {h}
      BY DEF Reply
    <3>3. QED
      BY <3>1, <3>2 DEF Coming
  <2>2. QED
    BY <1>2, <1>4, <2>1
<1>5. ASSUME NEW h \in Nodes, NEW x \in Shards
      PROVE  /\ Asked(h, x) => Woken(h, x)'
             /\ Coming(h, x) => Woken(h, x)'
             /\ Arrived(h, x) => Woken(h, x)'
  <2>1. Coming(h, x) => Coming(h, x)'
    BY <1>3 DEF Coming
  <2>2. Arrived(h, x) => Arrived(h, x)'
    BY <1>3 DEF Arrived
  <2>3. CASE caller = NoNode \/ h # caller \/ x # s
    <3>1. asks'[h][x] = asks[h][x]
      BY <1>2, <1>3, <2>3 DEF Types
    <3>2. QED
      BY <2>1, <2>2, <3>1 DEF Woken, Asked
  <2>4. CASE caller # NoNode /\ h = caller /\ x = s
    BY <1>4, <2>4 DEF Woken
  <2>5. QED
    BY <2>3, <2>4
<1>6. QED
  BY <1>3, <1>5, WakeupKept

\* So it is where the shard has a node already.
LEMMA AskWakeup ==
    ASSUME Types, PendingHasWakeup, NEW h \in Nodes, NEW s \in Shards, Ask(h, s)
    PROVE  PendingHasWakeup'
<1>1. UNCHANGED <<mailbox, pending>>
  BY DEF Ask, pending, routing
<1>2. CASE UNCHANGED <<asks, tasks>>
  BY <1>1, <1>2, WakeupKept DEF Woken, Asked, Coming, Arrived
<1>3. CASE /\ tasks' = tasks \cup {Reply(h, s)}
           /\ asks' = [asks EXCEPT ![h][s] = @ - 1]
  <2>1. Coming(h, s)'
    <3>1. /\ Reply(h, s).type = "ShardAllocated" /\ Reply(h, s).shard = s
          /\ Reply(h, s).to = {h}
      BY DEF Reply
    <3>2. QED
      BY <1>3, <3>1 DEF Coming
  <2>2. ASSUME NEW g \in Nodes, NEW x \in Shards
        PROVE  /\ Asked(g, x) => Woken(g, x)'
               /\ Coming(g, x) => Woken(g, x)'
               /\ Arrived(g, x) => Woken(g, x)'
    <3>1. (Coming(g, x) => Coming(g, x)') /\ (Arrived(g, x) => Arrived(g, x)')
      BY <1>1, <1>3 DEF Coming, Arrived
    <3>2. g # h \/ x # s => asks'[g][x] = asks[g][x]
      BY <1>3 DEF Types
    <3>3. QED
      BY <2>1, <3>1, <3>2 DEF Woken, Asked
  <2>3. QED
    BY <1>1, <2>2, WakeupKept
<1>4. QED
  BY <1>2, <1>3 DEF Ask

\* A task that has sent to a host has put its message in the mailbox.
LEMMA SendWakeup ==
    ASSUME Types, PendingHasWakeup, NEW b \in tasks, NEW h \in b.to, Send(b, h)
    PROVE  PendingHasWakeup'
<1>1. /\ b \in Broadcast /\ h \in Nodes /\ [b EXCEPT !.to = {}] \in Message
      /\ mailbox' = [mailbox EXCEPT ![h] = Append(@, [b EXCEPT !.to = {}])]
  BY SendTypes DEF Types
<1>2. /\ UNCHANGED <<pending, asks>>
      /\ tasks' = (tasks \ {b}) \cup (IF b.to = {h} THEN {} ELSE {[b EXCEPT !.to = @ \ {h}]})
  BY DEF Send, pending, routing
<1>3. PICK m \in Message : m = [b EXCEPT !.to = {}]
  BY <1>1
<1>4. /\ m.type = b.type /\ m.shard = b.shard
      /\ mailbox' = [mailbox EXCEPT ![h] = Append(@, m)]
  BY <1>1, <1>3, BroadcastFields
<1>5. PICK c : c = [b EXCEPT !.to = b.to \ {h}]
  OBVIOUS
<1>6. c.type = b.type /\ c.shard = b.shard /\ c.to = b.to \ {h}
  BY <1>1, <1>5, BroadcastFields
<1>7. tasks' = (tasks \ {b}) \cup (IF b.to = {h} THEN {} ELSE {c})
  BY <1>2, <1>5
<1>8. \E k \in DOMAIN mailbox'[h] : mailbox'[h][k] = m
  BY <1>1, <1>4, Appended
<1>9. ASSUME NEW g \in Nodes, NEW x \in Shards
      PROVE  /\ Coming(g, x) => Woken(g, x)'
             /\ Arrived(g, x) => Woken(g, x)'
  <2>1. Arrived(g, x) => Arrived(g, x)'
    BY <1>1, ArrivedStays
  <2>2. ASSUME Coming(g, x)
        PROVE  Coming(g, x)' \/ Arrived(g, x)'
    <3>1. PICK d \in tasks : d.type = "ShardAllocated" /\ d.shard = x /\ g \in d.to
      BY <2>2 DEF Coming
    <3>2. CASE d # b
      BY <1>7, <3>1, <3>2 DEF Coming
    <3>3. CASE d = b /\ g # h
      BY <1>6, <1>7, <3>1, <3>3 DEF Coming
    <3>4. CASE d = b /\ g = h
      BY <1>4, <1>8, <3>1, <3>4 DEF Arrived, IsAllocation
    <3>5. QED
      BY <3>2, <3>3, <3>4
  <2>3. QED
    BY <2>1, <2>2 DEF Woken
<1>10. \A g \in Nodes, x \in Shards : Asked(g, x) => Woken(g, x)'
  BY <1>2 DEF Asked, Woken
<1>11. QED
  BY <1>2, <1>9, <1>10, WakeupKept

\* More tasks and more messages take no wake-up away.
LEMMA GrowthWakeup ==
    ASSUME Types, PendingHasWakeup, UNCHANGED <<pending, asks>>, tasks \subseteq tasks',
           \/ UNCHANGED mailbox
           \/ \E n \in Nodes, m \in Message : mailbox' = [mailbox EXCEPT ![n] = Append(@, m)]
    PROVE  PendingHasWakeup'
<1>1. ASSUME NEW h \in Nodes, NEW s \in Shards
      PROVE  /\ Asked(h, s) => Asked(h, s)'
             /\ Coming(h, s) => Coming(h, s)'
             /\ Arrived(h, s) => Arrived(h, s)'
  <2>1. Arrived(h, s) => Arrived(h, s)'
    BY ArrivedStays
  <2>2. QED
    BY <2>1 DEF Asked, Coming
<1>2. QED
  BY <1>1, WakeupKept DEF Woken


-----------------------------------------------------------------------------
(* PendingHasWakeup: the steps of the hosts. *)

\* What a handler leaves of the wake-ups: all but those it takes.
LEMMA ReceiveKeeps ==
    ASSUME Types, NEW h \in Nodes, NEW type, Receive(h, type), UNCHANGED tasks,
           NEW g \in Nodes, NEW x \in Shards,
           g = h /\ type = "ShardAllocated" => Head(mailbox[h]).shard # x
    PROVE  (Coming(g, x) => Coming(g, x)') /\ (Arrived(g, x) => Arrived(g, x)')
<1>1. Coming(g, x) => Coming(g, x)'
  BY DEF Coming
<1>2. g = h => ~IsAllocation(Head(mailbox[h]), x)
  BY ReceiveMail DEF IsAllocation
<1>3. Arrived(g, x) => Arrived(g, x)'
  BY <1>2, ArrivedStays
<1>4. QED
  BY <1>1, <1>3

\* A handler of another message that puts nothing aside.
LEMMA OtherWakeup ==
    ASSUME Types, PendingHasWakeup, NEW h \in Nodes, NEW type, Receive(h, type),
           type # "ShardAllocated", UNCHANGED <<tasks, pending, asks>>
    PROVE  PendingHasWakeup'
<1>1. ASSUME NEW g \in Nodes, NEW x \in Shards
      PROVE  /\ Coming(g, x) => Coming(g, x)'
             /\ Arrived(g, x) => Arrived(g, x)'
             /\ Asked(g, x) => Asked(g, x)'
  BY SMT, ReceiveKeeps DEF Asked
<1>2. QED
  BY <1>1, WakeupKept DEF Woken

\* A host asks the coordinator for the shard of a request it puts aside, ...
LEMMA EntityRequestWakeup ==
    ASSUME Types, PendingHasWakeup, NEW h \in Nodes, EntityRequest(h), UNCHANGED tasks
    PROVE  PendingHasWakeup'
<1>1. PICK m : m = Head(mailbox[h])
  OBVIOUS
<1>2. Receive(h, "EntityRequest")
  BY DEF EntityRequest
<1>3. m \in Message
  BY <1>1, <1>2, ReceiveMail
<1>4. m.shard \in Shards
  BY <1>3, MessageFields
<1>5. CASE UNCHANGED <<pending, asks>>
  BY <1>2, <1>5, OtherWakeup
<1>6. CASE /\ pending' = [pending EXCEPT ![h][m.shard] = @ \cup {m.request}]
           /\ asks' = [asks EXCEPT ![h][m.shard] = @ + 1]
  <2>1. ASSUME NEW g \in Nodes, NEW x \in Shards, pending'[g][x] # {}
        PROVE  Woken(g, x)'
    <3>1. CASE g = h /\ x = m.shard
      <4>1. asks'[g][x] = asks[g][x] + 1 /\ asks[g][x] \in Nat
        BY <1>6, <3>1 DEF Types
      <4>2. QED
        BY SMT, <4>1 DEF Woken, Asked
    <3>2. CASE ~(g = h /\ x = m.shard)
      <4>1. pending'[g][x] = pending[g][x] /\ asks'[g][x] = asks[g][x]
        BY <1>4, <1>6, <3>2 DEF Types, pending
      <4>2. Woken(g, x)
        BY <2>1, <4>1, WakeupByParts
      <4>3. (Coming(g, x) => Coming(g, x)') /\ (Arrived(g, x) => Arrived(g, x)')
        BY SMT, <1>2, ReceiveKeeps
      <4>4. QED
        BY <4>1, <4>2, <4>3 DEF Woken, Asked
    <3>3. QED
      BY <3>1, <3>2
  <2>2. QED
    BY <2>1, WakeupByParts
<1>7. QED
  BY <1>1, <1>5, <1>6 DEF EntityRequest, pending

\* ... and an allocation takes the requests of its shard along.
LEMMA ShardAllocatedWakeup ==
    ASSUME Types, PendingHasWakeup, NEW h \in Nodes, ShardAllocated(h), UNCHANGED tasks
    PROVE  PendingHasWakeup'
<1>1. Receive(h, "ShardAllocated") /\ UNCHANGED asks
  BY DEF ShardAllocated
<1>2. Head(mailbox[h]) \in Message
  BY <1>1, ReceiveMail
<1>3. PICK s \in Shards : s = Head(mailbox[h]).shard
  BY <1>2, MessageFields
<1>4. pending' = [pending EXCEPT ![h][s] = {}]
  BY <1>3 DEF ShardAllocated, AllocatedHere, AllocatedThere, pending
<1>5. ASSUME NEW g \in Nodes, NEW x \in Shards, pending'[g][x] # {}
      PROVE  Woken(g, x)'
  <2>1. ~(g = h /\ x = s) /\ pending'[g][x] = pending[g][x]
    BY <1>4, <1>5 DEF Types, pending
  <2>2. Woken(g, x)
    BY <1>5, <2>1, WakeupByParts
  <2>3. (Coming(g, x) => Coming(g, x)') /\ (Arrived(g, x) => Arrived(g, x)')
    BY <1>1, <1>3, <2>1, ReceiveKeeps
  <2>4. QED
    BY <1>1, <2>2, <2>3 DEF Woken, Asked
<1>6. QED
  BY <1>5, WakeupByParts

\* All steps of the hosts.
LEMMA HostWakeup ==
    ASSUME Types, PendingHasWakeup, OthersUnchanged,
           (\E h \in Nodes : Handle(h)) \/ TaskStep
    PROVE  PendingHasWakeup'
<1>0. UNCHANGED tasks
  BY DEF OthersUnchanged
<1>1. ASSUME NEW h \in Nodes, Handle(h)
      PROVE  PendingHasWakeup'
  <2>1. CASE EntityRequest(h)
    BY <1>0, <2>1, EntityRequestWakeup
  <2>2. CASE ShardAllocated(h)
    BY <1>0, <2>2, ShardAllocatedWakeup
  <2>3. CASE ShardReallocating(h)
    <3>1. Receive(h, "ShardReallocating") /\ UNCHANGED <<pending, asks>>
      BY <2>3 DEF ShardReallocating, pending
    <3>2. QED
      BY <1>0, <3>1, OtherWakeup
  <2>4. CASE ShardReady(h)
    <3>1. Receive(h, "ShardReady") /\ UNCHANGED <<pending, asks>>
      BY <2>4 DEF ShardReady, pending
    <3>2. QED
      BY <1>0, <3>1, OtherWakeup
  <2>5. CASE StopShard(h)
    <3>1. Receive(h, "StopShard") /\ UNCHANGED <<pending, asks>>
      BY <2>5 DEF StopShard, pending
    <3>2. QED
      BY <1>0, <3>1, OtherWakeup
  <2>6. CASE ShardStopped(h)
    <3>1. Receive(h, "ShardStopped") /\ UNCHANGED <<pending, asks>>
      BY <2>6 DEF ShardStopped, pending
    <3>2. QED
      BY <1>0, <3>1, OtherWakeup
  <2>7. QED
    BY <1>1, <2>1, <2>2, <2>3, <2>4, <2>5, <2>6 DEF Handle
<1>2. ASSUME TaskStep
      PROVE  /\ UNCHANGED <<pending, asks>>
             /\ \/ UNCHANGED mailbox
                \/ \E n \in Nodes, m \in Message : mailbox' = [mailbox EXCEPT ![n] = Append(@, m)]
  <2>1. ASSUME NEW a \in actors, ActorStarted(a)
        PROVE  \E n \in Nodes, m \in Message : mailbox' = [mailbox EXCEPT ![n] = Append(@, m)]
    <3>1. a.node \in Nodes /\ [type |-> "ShardReady", shard |-> a.shard, actor |-> a.id] \in Message
      BY DEF Types, Actor, Message
    <3>2. QED
      BY <2>1, <3>1 DEF ActorStarted
  <2>2. ASSUME NEW t \in stopping, StopCompleted(t)
        PROVE  \E n \in Nodes, m \in Message : mailbox' = [mailbox EXCEPT ![n] = Append(@, m)]
    <3>1. t.node \in Nodes /\ [type |-> "ShardStopped", shard |-> t.shard] \in Message
      BY DEF Types, Task, Message
    <3>2. QED
      BY <2>2, <3>1 DEF StopCompleted
  <2>3. UNCHANGED <<pending, asks>>
    BY <1>2 DEF TaskStep, DeliverLocal, DeliverRemote, NotFound, ActorStarted, ActorStopped,
       StopSent, StopCompleted, routing, pending
  <2>4. QED
    BY <1>2, <2>1, <2>2, <2>3 DEF TaskStep, DeliverLocal, DeliverRemote, NotFound, ActorStopped, StopSent
<1>3. QED
  BY <1>0, <1>1, <1>2, GrowthWakeup

-----------------------------------------------------------------------------
(* CallerWaits *)

\* While an AllocateShard is handled no other handler starts, and no task of a
\* host gives up waiting.
LEMMA CallerKeepsWaiting ==
    ASSUME Types, CoordinatorOk, WorkIsRunning, CallerWaits, Next
    PROVE  CallerWaits'
<1>1. CASE UNCHANGED <<caller, asks, work>>
  BY <1>1 DEF CallerWaits
<1>2. CASE UNCHANGED caller /\ (~Coordinator!Running \/ work = <<>>)
  BY <1>2 DEF CallerWaits, WorkIsRunning
<1>3. CASE Start
  BY <1>2, <1>3 DEF Start, Coordinator!Start, Coordinator!pre_recovery
<1>4. CASE AllocateStep
  BY <1>4 DEF AllocateStep, CallerWaits
<1>5. CASE Rebalance
  BY <1>2, <1>5 DEF Rebalance, SpawnRebalance, Coordinator!RebalanceAll, Coordinator!RebalanceShards,
     Coordinator!Idle
<1>6. ASSUME NEW h \in Nodes, NEW s \in Shards, Ask(h, s)
      PROVE  CallerWaits'
  <2>1. CASE Coordinator!AllocateShard(s) /\ caller' = h /\ UNCHANGED asks
    <3>1. work' = <<s>> /\ asks'[h][s] > 0
      BY <1>6, <2>1 DEF Coordinator!AllocateShard, Ask
    <3>2. QED
      BY SMT, <2>1, <3>1 DEF CallerWaits
  <2>2. CASE Coordinator!Idle /\ UNCHANGED caller
    BY <1>2, <2>2 DEF Coordinator!Idle
  <2>3. QED
    BY <1>6, <2>1, <2>2 DEF Ask
<1>7. CASE \E t \in answers : Answer(t)
  BY <1>2, <1>7 DEF Answer, Coordinator!AllocateRebalanced, Coordinator!Idle
<1>8. CASE Membership
  BY <1>1, <1>2, <1>8 DEF Membership, Coordinator!on_node_discovered, Coordinator!on_node_removed,
     Coordinator!RebalanceTimer, Coordinator!Idle, host_vars
<1>9. CASE \E b \in tasks : \E h \in b.to : Send(b, h)
  BY <1>1, <1>9 DEF Send, coord
<1>10. CASE \E h \in Nodes, s \in Shards, r \in Requests : Request(h, s, r)
  BY <1>1, <1>10 DEF Request, coord
<1>11. CASE HostStep
  <2>1. UNCHANGED <<caller, work>>
    BY <1>11 DEF HostStep, coord
  <2>2. UNCHANGED asks \/ \E h \in Nodes : EntityRequest(h)
    BY <1>11 DEF HostStep, HostNext, Handle, ShardAllocated, ShardReallocating, ShardReady, StopShard,
       ShardStopped, DeliverLocal, DeliverRemote, NotFound, ActorStarted, ActorStopped, StopSent,
       StopCompleted
  <2>3. ASSUME NEW h \in Nodes, EntityRequest(h), ~UNCHANGED asks
        PROVE  CallerWaits'
    <3>1. Head(mailbox[h]) \in Message
      BY <2>3, ReceiveMail DEF EntityRequest
    <3>2. PICK s \in Shards : s = Head(mailbox[h]).shard
      BY <3>1, MessageFields
    <3>3. asks' = [asks EXCEPT ![h][s] = @ + 1]
      BY <2>3, <3>2 DEF EntityRequest
    <3>4. CASE caller # NoNode
      <4>1. caller \in Nodes /\ work # <<>> /\ work \in Seq(Shards) /\ asks[caller][Head(work)] > 0
        BY <3>4 DEF CallerWaits, Types, CoordinatorOk, Coordinator!TypeOK
      <4>2. PICK x \in Shards : x = Head(work)
        <5>1. work # <<>> /\ work \in Seq(Shards)
          BY <4>1
        <5>2. Head(work) \in Shards
          BY SMT, <5>1
        <5>3. QED
          BY <5>2
      <4>3. asks'[caller][x] > 0
        <5>1. asks[caller][x] \in Nat /\ asks'[caller][x] \in {asks[caller][x], asks[caller][x] + 1}
          BY <3>3, <4>1 DEF Types
        <5>2. QED
          BY SMT, <4>1, <4>2, <5>1
      <4>4. QED
        BY <2>1, <4>1, <4>2, <4>3 DEF CallerWaits
    <3>5. QED
      BY <2>1, <3>4 DEF CallerWaits
  <2>4. QED
    BY <1>1, <2>1, <2>2, <2>3
<1>12. QED
  BY <1>3, <1>4, <1>5, <1>6, <1>7, <1>8, <1>9, <1>10, <1>11 DEF Next, CoordinatorStep

-----------------------------------------------------------------------------
(* A cluster that does not change: the coordinator and its tasks. *)

\* No shard that has a node is given another.
ShardsStay ==
    /\ shards' \in [Shards -> Nodes \cup {NoNode}]
    /\ \A s \in Shards : shards[s] # NoNode => shards'[s] = shards[s]

\* The actors keep their entries.
LEMMA ActorsKept ==
    ASSUME Types, ActorHasEntry, ShardsStay, actors' \subseteq actors,
           \A h \in Nodes, s \in Shards : hosted_shards[h][s] # NotHosted => hosted_shards'[h][s] # NotHosted
    PROVE  ActorHasEntry'
<1>1. ASSUME NEW a \in actors
      PROVE  a.node \in Nodes /\ a.shard \in Shards /\ a.node # NoNode
  BY ShardingAssumption DEF Types, Actor
<1>2. QED
  BY SMT, <1>1 DEF ActorHasEntry, ShardsStay

\* An allocation is announced as it is.
LEMMA AllocateStepStable ==
    ASSUME Types, CoordinatorOk, WorkIsRunning, Settling, ActorHasEntry, AllocateStep
    PROVE  Settling' /\ ActorHasEntry'
<1>1. ShardsStay /\ UNCHANGED <<scheduled, fired>>
  BY Allocates DEF AllocateStep, ShardsStay
<1>2. UNCHANGED <<mailbox, routing, actors, stopping, answers>>
  BY DEF AllocateStep
<1>3. ASSUME NEW b \in tasks'
      PROVE  b \in tasks \/ (b.type = "ShardAllocated" /\ b.node = shards'[b.shard])
  <2>1. b \in tasks \/ b = broadcast_allocation(Head(work)) \/ b = Reply(caller, Head(work))
    BY <1>3 DEF AllocateStep
  <2>2. CASE b = broadcast_allocation(Head(work)) \/ b = Reply(caller, Head(work))
    BY SMT, <2>2 DEF broadcast_allocation, Reply
  <2>3. QED
    BY <2>1, <2>2
<1>4. Settling'
  BY <1>1, <1>2, <1>3, SettlingKept DEF ShardsStay, routing, CoordinatorOk
<1>5. QED
  BY <1>1, <1>2, <1>4, ActorsKept DEF routing

\* Steps that change nothing but where messages are.
LEMMA OnlyMessages ==
    ASSUME Types, CoordinatorOk, Settling, ActorHasEntry,
           UNCHANGED <<shards, scheduled, fired, stopping, answers, routing, actors>>,
           \A b \in tasks' : \/ \E c \in tasks : b.type = c.type /\ b.shard = c.shard /\ b.node = c.node
                             \/ b.type = "ShardAllocated" /\ b.node = shards'[b.shard],
           \A h \in Nodes : \A i \in DOMAIN mailbox'[h] :
               \/ \E j \in DOMAIN mailbox[h] : mailbox'[h][i] = mailbox[h][j]
               \/ Says(shards', h, mailbox'[h][i])
    PROVE  Settling' /\ ActorHasEntry'
<1>1. ShardsStay
  BY DEF ShardsStay, CoordinatorOk, Coordinator!TypeOK
<1>2. Settling'
  BY <1>1, SettlingKept DEF ShardsStay, routing, CoordinatorOk
<1>3. QED
  BY <1>1, <1>2, ActorsKept DEF routing

\* The other steps of the coordinator, none of which takes a shard away.
LEMMA CoordinatorStable ==
    ASSUME Types, CoordinatorOk, Stable, Settling, ActorHasEntry,
           \/ Start \/ Rebalance \/ Membership
           \/ \E h \in Nodes, s \in Shards : Ask(h, s)
           \/ \E t \in answers : Answer(t)
    PROVE  Settling' /\ ActorHasEntry'
<1>1. CASE Start
  BY <1>1, OnlyMessages DEF Start, Coordinator!Start, Coordinator!pre_recovery, host_vars
<1>2. CASE Rebalance
  <2>1. fired = 0 /\ scenario.changes = {}
    BY DEF Settling, Stable
  <2>2. ~Coordinator!RebalanceAll
    BY SMT, <2>1 DEF Coordinator!RebalanceAll
  <2>3. "rebalance" \notin scenario.changes
    BY <2>1
  <2>4. QED
    BY <1>2, <2>2, <2>3 DEF Rebalance
<1>3. CASE Membership
  <2>1. ~scheduled /\ scenario.changes = {}
    BY DEF Settling, Stable
  <2>2. ~Coordinator!RebalanceTimer
    BY <2>1 DEF Coordinator!RebalanceTimer
  <2>3. "join" \notin scenario.changes /\ "leave" \notin scenario.changes
    BY <2>1
  <2>4. QED
    BY <1>3, <2>2, <2>3 DEF Membership
<1>4. ASSUME NEW h \in Nodes, NEW s \in Shards, Ask(h, s)
      PROVE  Settling' /\ ActorHasEntry'
  <2>1. UNCHANGED <<shards, scheduled, fired, stopping, answers, mailbox, routing, actors>>
    BY <1>4 DEF Ask, Coordinator!AllocateShard, coord
  <2>2. ASSUME NEW b \in tasks'
        PROVE  b \in tasks \/ (b.type = "ShardAllocated" /\ b.node = shards'[b.shard])
    <3>1. b \in tasks \/ b = Reply(h, s)
      BY <1>4, <2>2 DEF Ask
    <3>2. CASE b = Reply(h, s)
      BY <3>2 DEF Reply
    <3>3. QED
      BY <3>1, <3>2
  <2>3. QED
    BY <2>1, <2>2, OnlyMessages
<1>5. CASE \E t \in answers : Answer(t)
  BY <1>5 DEF Settling
<1>6. QED
  BY <1>1, <1>2, <1>3, <1>4, <1>5

\* A task sends what it says.
LEMMA SendStable ==
    ASSUME Types, CoordinatorOk, Settling, ActorHasEntry, NEW b \in tasks, NEW h \in b.to, Send(b, h)
    PROVE  Settling' /\ ActorHasEntry'
<1>1. UNCHANGED <<shards, scheduled, fired, stopping, answers, routing, actors>>
  BY DEF Send, coord
<1>2. b \in Broadcast /\ b.type = "ShardAllocated" /\ b.node = shards[b.shard]
  BY SMT DEF Types, Settling
<1>3. h \in Nodes /\ {} \in SUBSET Nodes /\ b.to \ {h} \in SUBSET Nodes
  BY <1>2, BroadcastFields
<1>4. PICK m \in Message : m = [b EXCEPT !.to = {}]
  BY SendTypes
<1>5. m.type = b.type /\ m.shard = b.shard /\ m.node = b.node
  BY <1>2, <1>3, <1>4, BroadcastFields
<1>6. mailbox' = [mailbox EXCEPT ![h] = Append(@, m)]
  BY <1>4 DEF Send
<1>7. Says(shards', h, m)
  BY <1>1, <1>2, <1>5 DEF Says
<1>8. ASSUME NEW g \in Nodes, NEW i \in DOMAIN mailbox'[g]
      PROVE  (\E j \in DOMAIN mailbox[g] : mailbox'[g][i] = mailbox[g][j]) \/ Says(shards', g, mailbox'[g][i])
  <2>1. \/ i \in DOMAIN mailbox[g] /\ mailbox'[g][i] = mailbox[g][i]
        \/ g = h /\ mailbox'[g][i] = m
    BY SMT, <1>3, <1>6, AppendMail
  <2>2. QED
    BY <1>7, <2>1
<1>9. PICK c : c = [b EXCEPT !.to = b.to \ {h}]
  OBVIOUS
<1>10. c.type = b.type /\ c.shard = b.shard /\ c.node = b.node
  BY <1>2, <1>3, <1>9, BroadcastFields
<1>11. tasks' \subseteq tasks \cup {c}
  BY <1>9 DEF Send
<1>12. QED
  BY <1>1, <1>8, <1>10, <1>11, OnlyMessages

\* A request says nothing.
LEMMA RequestStable ==
    ASSUME Types, CoordinatorOk, Settling, ActorHasEntry, NEW h \in Nodes, NEW s \in Shards, NEW r \in Requests,
           Request(h, s, r)
    PROVE  Settling' /\ ActorHasEntry'
<1>1. UNCHANGED <<shards, scheduled, fired, stopping, answers, routing, actors, tasks>>
  BY DEF Request, coord
<1>2. PICK m \in Message : m = [type |-> "EntityRequest", shard |-> s, request |-> r]
  BY RequestTypes
<1>3. mailbox' = [mailbox EXCEPT ![h] = Append(@, m)]
  BY <1>2 DEF Request
<1>4. Says(shards', h, m)
  BY <1>2 DEF Says
<1>5. ASSUME NEW g \in Nodes, NEW i \in DOMAIN mailbox'[g]
      PROVE  (\E j \in DOMAIN mailbox[g] : mailbox'[g][i] = mailbox[g][j]) \/ Says(shards', g, mailbox'[g][i])
  <2>1. \/ i \in DOMAIN mailbox[g] /\ mailbox'[g][i] = mailbox[g][i]
        \/ g = h /\ mailbox'[g][i] = m
    BY SMT, <1>3, AppendMail
  <2>2. QED
    BY <1>4, <2>1
<1>6. QED
  BY <1>1, <1>5, OnlyMessages

-----------------------------------------------------------------------------
(* A cluster that does not change: the hosts. *)

\* What a host takes from its mailbox says what is so, and so does the rest.
LEMMA ReceivedSays ==
    ASSUME Types, Settling, NEW h \in Nodes, NEW type, Receive(h, type)
    PROVE  /\ type \in {"EntityRequest", "ShardAllocated", "ShardReady"}
           /\ Says(shards, h, Head(mailbox[h]))
           /\ \A n \in Nodes : \A i \in DOMAIN mailbox'[n] :
                 \E j \in DOMAIN mailbox[n] : mailbox'[n][i] = mailbox[n][j]
<1>1. Says(shards, h, mailbox[h][1]) /\ mailbox[h][1].type = type
  <2>1. 1 \in DOMAIN mailbox[h] /\ mailbox[h][1].type = type
    BY SMT, ReceiveMail
  <2>2. QED
    BY SMT, <2>1 DEF Settling, Says
<1>2. ASSUME NEW n \in Nodes, NEW i \in DOMAIN mailbox'[n]
      PROVE  \E j \in DOMAIN mailbox[n] : mailbox'[n][i] = mailbox[n][j]
  <2>1. CASE n = h
    BY SMT, <2>1, ReceiveMail
  <2>2. CASE n # h
    BY SMT, <2>2, ReceiveMail
  <2>3. QED
    BY <2>1, <2>2
<1>3. Head(mailbox[h]) = mailbox[h][1]
  BY ReceiveMail
<1>4. QED
  BY <1>1, <1>2, <1>3 DEF Says

\* What a handler has to do to the maps.
LEMMA HandledStable ==
    ASSUME Types, CoordinatorOk, Settling, NEW h \in Nodes, NEW type, Receive(h, type),
           UNCHANGED <<shards, scheduled, fired, stopping, answers, tasks>>,
           \A g \in Nodes, s \in Shards :
               /\ remote_shards'[g][s] \in {remote_shards[g][s], NoNode, shards'[s]}
               /\ hosted_shards'[g][s] # NotHosted => hosted_shards[g][s] # NotHosted \/ g = shards'[s]
    PROVE  Settling' /\ ShardsStay
<1>1. ShardsStay
  BY DEF ShardsStay, CoordinatorOk, Coordinator!TypeOK
<1>2. \A n \in Nodes : \A i \in DOMAIN mailbox'[n] :
          \E j \in DOMAIN mailbox[n] : mailbox'[n][i] = mailbox[n][j]
  BY ReceivedSays
<1>3. Settling'
  BY <1>1, <1>2, SettlingKept DEF ShardsStay, CoordinatorOk
<1>4. QED
  BY <1>1, <1>3

\* A request: the host's entry stays an entry.
LEMMA EntityRequestStable ==
    ASSUME Types, CoordinatorOk, Settling, ActorHasEntry, NEW h \in Nodes, EntityRequest(h), OthersUnchanged
    PROVE  Settling' /\ ActorHasEntry'
<1>1. Receive(h, "EntityRequest")
  BY DEF EntityRequest
<1>2. UNCHANGED <<shards, scheduled, fired, stopping, answers, tasks, remote_shards, actors>>
  BY DEF EntityRequest, OthersUnchanged, coord
<1>3. Head(mailbox[h]) \in Message /\ Head(mailbox[h]).type = "EntityRequest"
  BY <1>1, ReceiveMail
<1>4. PICK s \in Shards, r \in Requests : s = Head(mailbox[h]).shard /\ r = Head(mailbox[h]).request
  BY <1>3, MessageFields
<1>5. \A g \in Nodes, x \in Shards : hosted_shards'[g][x] # NotHosted <=> hosted_shards[g][x] # NotHosted
  <2>1. CASE UNCHANGED hosted_shards
    BY <2>1
  <2>2. CASE hosted_shards[h][s] # NotHosted /\ handle_request(h, s, hosted_shards[h][s], {r})
    <3>1. hosted_shards[h][s] \in Entry /\ {r} \in SUBSET Requests
      BY DEF Types
    <3>2. /\ hosted_shards'[h][s] # NotHosted
          /\ \A n \in Nodes, x \in Shards :
                 <<n, x>> # <<h, s>> => hosted_shards'[n][x] = hosted_shards[n][x]
      BY <2>2, <3>1, HandleRequestTypes
    <3>3. QED
      BY <2>2, <3>2
  <2>3. QED
    BY <1>4, <2>1, <2>2 DEF EntityRequest
<1>6. Settling' /\ ShardsStay
  BY <1>1, <1>2, <1>5, HandledStable
<1>7. QED
  BY <1>2, <1>5, <1>6, ActorsKept

\* An allocation to this node: a new actor has a new entry, ...
LEMMA AllocatedHereStable ==
    ASSUME Types, CoordinatorOk, Settling, ActorHasEntry, NEW h \in Nodes, NEW s \in Shards,
           Receive(h, "ShardAllocated"), AllocatedHere(h, s), shards[s] = h,
           UNCHANGED <<shards, scheduled, fired, stopping, answers, tasks>>
    PROVE  Settling' /\ ActorHasEntry'
<1>1. PICK e \in Entry : e = IF hosted_shards[h][s] = NotHosted
                             THEN [state |-> "Starting", actor |-> last_id[h] + 1, buffer |-> {}]
                             ELSE hosted_shards[h][s]
  <2>1. last_id[h] + 1 \in Nat /\ hosted_shards[h][s] \in Entry
    BY SMT DEF Types
  <2>2. [state |-> "Starting", actor |-> last_id[h] + 1, buffer |-> {}] \in Entry
    BY <2>1, EntryTypes
  <2>3. QED
    BY <2>1, <2>2
<1>2. handle_request(h, s, e, pending[h][s]) /\ pending[h][s] \in SUBSET Requests
  <2>1. pending[h][s] \in SUBSET Requests
    BY SMT DEF Types, pending
  <2>2. handle_request(h, s, e, pending[h][s])
    BY <1>1 DEF AllocatedHere
  <2>3. QED
    BY <2>1, <2>2
<1>3. /\ hosted_shards'[h][s] # NotHosted
      /\ \A n \in Nodes, x \in Shards :
             <<n, x>> # <<h, s>> => hosted_shards'[n][x] = hosted_shards[n][x]
  BY <1>2, HandleRequestTypes
<1>4. \A n \in Nodes, x \in Shards :
         /\ hosted_shards[n][x] # NotHosted => hosted_shards'[n][x] # NotHosted
         /\ hosted_shards'[n][x] # NotHosted => hosted_shards[n][x] # NotHosted \/ n = shards'[x]
  BY SMT, <1>3
<1>5. \A n \in Nodes, x \in Shards : remote_shards'[n][x] \in {remote_shards[n][x], NoNode}
  BY DEF AllocatedHere, Types
<1>6. Settling' /\ ShardsStay
  BY <1>4, <1>5, HandledStable
<1>7. CASE hosted_shards[h][s] # NotHosted
  <2>1. UNCHANGED actors
    BY <1>7 DEF AllocatedHere
  <2>2. QED
    BY <1>4, <1>6, <2>1, ActorsKept
<1>8. CASE hosted_shards[h][s] = NotHosted
  <2>1. PICK a : a = [node |-> h, shard |-> s, id |-> last_id[h] + 1, phase |-> "starting", stop |-> FALSE]
    OBVIOUS
  <2>2. actors' = actors \cup {a} /\ a.node = h /\ a.shard = s
    BY <1>8, <2>1 DEF AllocatedHere, new_shard
  <2>3. ASSUME NEW b \in actors
        PROVE  /\ b.shard # s /\ b.node = shards'[b.shard]
               /\ hosted_shards'[b.node][b.shard] # NotHosted
    <3>1. b.node \in Nodes /\ b.shard \in Shards
      BY DEF Types, Actor
    <3>2. b.node = shards[b.shard] /\ hosted_shards[b.node][b.shard] # NotHosted
      BY DEF ActorHasEntry
    <3>3. QED
      BY <1>4, <1>8, <3>1, <3>2
  <2>4. QED
    BY SMT, <1>3, <1>6, <2>2, <2>3 DEF ActorHasEntry
<1>9. QED
  BY <1>7, <1>8

\* ... and one to another node finds none here to give up.
LEMMA AllocatedThereStable ==
    ASSUME Types, CoordinatorOk, Settling, ActorHasEntry, NEW h \in Nodes, NEW s \in Shards, NEW n \in Nodes,
           n # h, Receive(h, "ShardAllocated"), AllocatedThere(h, s, n), shards[s] = n,
           UNCHANGED <<shards, scheduled, fired, stopping, answers, tasks>>
    PROVE  Settling' /\ ActorHasEntry'
<1>1. hosted_shards[h][s] = NotHosted
  BY SMT DEF Settling
<1>2. hosted_shards' = [hosted_shards EXCEPT ![h][s] = NotHosted] /\ UNCHANGED actors
  BY <1>1, EntryTypes DEF AllocatedThere
<1>3. \A g \in Nodes, x \in Shards : hosted_shards'[g][x] = hosted_shards[g][x]
  BY <1>1, <1>2 DEF Types
<1>4. remote_shards' = [remote_shards EXCEPT ![h][s] = n]
  BY DEF AllocatedThere
<1>5. \A g \in Nodes, x \in Shards : remote_shards'[g][x] \in {remote_shards[g][x], shards'[x]}
  BY <1>4 DEF Types
<1>6. Settling' /\ ShardsStay
  BY <1>3, <1>5, HandledStable
<1>7. QED
  BY <1>2, <1>3, <1>6, ActorsKept

\* A shard actor that is ready is on the shard's node.
LEMMA ShardReadyStable ==
    ASSUME Types, CoordinatorOk, Settling, ActorHasEntry, NEW h \in Nodes, ShardReady(h), OthersUnchanged
    PROVE  Settling' /\ ActorHasEntry'
<1>1. Receive(h, "ShardReady")
  BY DEF ShardReady
<1>2. UNCHANGED <<shards, scheduled, fired, stopping, answers, tasks, remote_shards, actors>>
  BY DEF ShardReady, OthersUnchanged, coord
<1>3. Head(mailbox[h]) \in Message /\ Head(mailbox[h]).type = "ShardReady" /\ Says(shards, h, Head(mailbox[h]))
  BY <1>1, ReceiveMail, ReceivedSays
<1>4. PICK s \in Shards : s = Head(mailbox[h]).shard
  BY <1>3, MessageFields
<1>5. h = shards[s]
  BY <1>3, <1>4 DEF Says
<1>6. PICK ready : ready = [state |-> "Ready", actor |-> Head(mailbox[h]).actor, buffer |-> {}]
  OBVIOUS
<1>7. ready # NotHosted
  BY <1>6 DEF NotHosted
<1>8. hosted_shards' = [hosted_shards EXCEPT ![h][s] = ready]
  BY <1>4, <1>6 DEF ShardReady
<1>9. \A g \in Nodes, x \in Shards :
         /\ hosted_shards[g][x] # NotHosted => hosted_shards'[g][x] # NotHosted
         /\ hosted_shards'[g][x] # NotHosted => hosted_shards[g][x] # NotHosted \/ g = shards'[x]
  BY <1>2, <1>5, <1>7, <1>8 DEF Types
<1>10. Settling' /\ ShardsStay
  BY <1>1, <1>2, <1>9, HandledStable
<1>11. QED
  BY <1>2, <1>9, <1>10, ActorsKept

\* All handlers.
LEMMA HandleStable ==
    ASSUME Types, CoordinatorOk, Settling, ActorHasEntry, NEW h \in Nodes, Handle(h), OthersUnchanged
    PROVE  Settling' /\ ActorHasEntry'
<1>1. CASE EntityRequest(h)
  BY <1>1, EntityRequestStable
<1>2. CASE ShardAllocated(h)
  <2>1. Receive(h, "ShardAllocated")
    BY <1>2 DEF ShardAllocated
  <2>2. UNCHANGED <<shards, scheduled, fired, stopping, answers, tasks>>
    BY <1>2 DEF ShardAllocated, OthersUnchanged, coord
  <2>3. /\ Head(mailbox[h]) \in Message /\ Head(mailbox[h]).type = "ShardAllocated"
        /\ Says(shards, h, Head(mailbox[h]))
    BY <2>1, ReceiveMail, ReceivedSays
  <2>4. PICK s \in Shards, n \in Nodes : s = Head(mailbox[h]).shard /\ n = Head(mailbox[h]).node
    BY <2>3, MessageFields
  <2>5. shards[s] = n
    BY <2>3, <2>4 DEF Says
  <2>6. CASE n = h
    <3>1. AllocatedHere(h, s)
      BY <1>2, <2>4, <2>6 DEF ShardAllocated
    <3>2. QED
      BY <2>1, <2>2, <2>5, <2>6, <3>1, AllocatedHereStable
  <2>7. CASE n # h
    <3>1. AllocatedThere(h, s, n)
      BY <1>2, <2>4, <2>7 DEF ShardAllocated
    <3>2. QED
      BY <2>1, <2>2, <2>5, <2>7, <3>1, AllocatedThereStable
  <2>8. QED
    BY <2>6, <2>7
<1>3. CASE ShardReady(h)
  BY <1>3, ShardReadyStable
<1>4. CASE ShardReallocating(h)
  BY SMT, <1>4, ReceivedSays DEF ShardReallocating
<1>5. CASE StopShard(h)
  BY SMT, <1>5, ReceivedSays DEF StopShard
<1>6. CASE ShardStopped(h)
  BY SMT, <1>6, ReceivedSays DEF ShardStopped
<1>7. QED
  BY <1>1, <1>2, <1>3, <1>4, <1>5, <1>6 DEF Handle

\* The actors, and the tasks of the nodes.
LEMMA TaskStable ==
    ASSUME Types, CoordinatorOk, Settling, ActorHasEntry, TaskStep, OthersUnchanged
    PROVE  Settling' /\ ActorHasEntry'
<1>0. UNCHANGED <<shards, scheduled, fired, tasks>>
  BY DEF OthersUnchanged, coord
<1>1. CASE \E d \in sending : DeliverLocal(d) \/ DeliverRemote(d) \/ NotFound(d)
  <2>1. UNCHANGED <<mailbox, routing, actors, stopping, answers>>
    BY <1>1 DEF DeliverLocal, DeliverRemote, NotFound
  <2>2. QED
    BY <1>0, <2>1, OnlyMessages
<1>2. ASSUME NEW a \in actors, ActorStarted(a)
      PROVE  Settling' /\ ActorHasEntry'
  <2>1. a.node \in Nodes /\ a.shard \in Shards /\ a.id \in Nat /\ a.node = shards[a.shard]
    BY DEF Types, Actor, ActorHasEntry
  <2>2. PICK n \in Nodes : n = a.node
    BY <2>1
  <2>3. PICK m : m = [type |-> "ShardReady", shard |-> a.shard, actor |-> a.id]
    OBVIOUS
  <2>4. m \in Message
    BY <2>1, <2>3 DEF Message
  <2>5. mailbox' = [mailbox EXCEPT ![n] = Append(@, m)]
    BY <1>2, <2>2, <2>3 DEF ActorStarted
  <2>6. Says(shards', n, m)
    BY <1>0, <2>1, <2>2, <2>3 DEF Says
  <2>7. ASSUME NEW g \in Nodes, NEW i \in DOMAIN mailbox'[g]
        PROVE  (\E j \in DOMAIN mailbox[g] : mailbox'[g][i] = mailbox[g][j])
               \/ Says(shards', g, mailbox'[g][i])
    BY SMT, <2>4, <2>5, <2>6, AppendMail
  <2>8. ShardsStay /\ UNCHANGED <<routing, stopping, answers>>
    BY <1>0, <1>2 DEF ShardsStay, CoordinatorOk, Coordinator!TypeOK, ActorStarted
  <2>9. Settling'
    BY <1>0, <2>7, <2>8, SettlingKept DEF ShardsStay, routing, CoordinatorOk
  <2>10. PICK b : b = [a EXCEPT !.phase = "running"]
    OBVIOUS
  <2>11. b.node = a.node /\ b.shard = a.shard /\ actors' = (actors \ {a}) \cup {b}
    BY <1>2, <2>10 DEF ActorStarted, Types, Actor
  <2>12. UNCHANGED <<shards, hosted_shards>>
    BY <1>0, <2>8 DEF routing
  <2>13. ActorHasEntry'
    <3>1. ASSUME NEW x \in actors', NEW y \in actors', x.shard = y.shard
          PROVE  x = y
      BY SMT, <2>11, <3>1 DEF ActorHasEntry
    <3>2. ASSUME NEW x \in actors'
          PROVE  x.node = shards[x.shard] /\ hosted_shards[x.node][x.shard] # NotHosted
      BY <2>11 DEF ActorHasEntry
    <3>3. QED
      BY <2>12, <3>1, <3>2 DEF ActorHasEntry
  <2>14. QED
    BY <2>9, <2>13
<1>3. ASSUME NEW a \in actors, ActorStopped(a)
      PROVE  Settling' /\ ActorHasEntry'
  <2>1. ShardsStay /\ UNCHANGED <<mailbox, routing, stopping, answers>> /\ actors' \subseteq actors
    BY <1>0, <1>3 DEF ShardsStay, CoordinatorOk, Coordinator!TypeOK, ActorStopped
  <2>2. Settling'
    BY <1>0, <2>1, SettlingKept DEF ShardsStay, routing, CoordinatorOk
  <2>3. QED
    BY <2>1, <2>2, ActorsKept DEF routing
<1>4. CASE \E t \in stopping : StopSent(t) \/ StopCompleted(t)
  BY <1>4 DEF Settling
<1>5. QED
  BY <1>1, <1>2, <1>3, <1>4 DEF TaskStep

-----------------------------------------------------------------------------
(* The hosts' part of the invariant *)

\* The initial states: no coordinator, and hosts that know nothing.
LEMMA InitHosts == Init => HostsInv
<1> SUFFICES ASSUME Init PROVE HostsInv
  OBVIOUS
<1> USE DEF Init, HostInit
<1>1. Types
  <2>1. \A n \in Nodes : <<>> \in Seq(Message)
    BY SMT
  <2>2. mailbox \in [Nodes -> Seq(Message)]
    BY <2>1
  <2>3. hosted_shards \in [Nodes -> [Shards -> Entry]]
    BY EntryTypes
  <2>4. QED
    BY <2>2, <2>3 DEF Types
<1>2. WorkIsRunning /\ CallerWaits
  BY DEF WorkIsRunning, CallerWaits, Coordinator!Init
<1>3. PendingHasWakeup
  BY DEF PendingHasWakeup, pending
<1>4. Settling /\ ActorHasEntry
  <2>1. \A h \in Nodes : DOMAIN mailbox[h] = {}
    BY SMT
  <2>2. \A h \in Nodes, s \in Shards : remote_shards[h][s] = NoNode /\ hosted_shards[h][s] = NotHosted
    OBVIOUS
  <2>3. actors = {} /\ tasks = {} /\ stopping = {} /\ answers = {} /\ ~scheduled /\ fired = 0
    BY DEF Coordinator!Init
  <2>4. QED
    BY <2>1, <2>2, <2>3 DEF Settling, ActorHasEntry
<1>5. QED
  BY <1>1, <1>2, <1>3, <1>4 DEF HostsInv, StableInv

\* Every step preserves it, of a coordinator that does its part.
LEMMA HostsKept == HostsInv /\ CoordinatorOk /\ Numbered /\ [Next]_vars => HostsInv'
<1>1. ASSUME HostsInv, CoordinatorOk, Numbered, Next
      PROVE  HostsInv'
  <2> USE <1>1 DEF HostsInv
  <2>1. WorkIsRunning' /\ CallerWaits'
    BY CoordinatorSteps, WorkStaysRunning, CallerKeepsWaiting
  <2>2. UNCHANGED scenario /\ (Stable' <=> Stable)
    BY DEF Next, Stable
  <2> SUFFICES Types' /\ PendingHasWakeup' /\ (Stable => Settling' /\ ActorHasEntry')
    BY <2>1, <2>2 DEF StableInv
  <2> USE DEF StableInv
  <2>3. CASE AllocateStep
    BY <2>3, AllocateStepTypes, AllocateStepWakeup, AllocateStepStable
  <2>4. CASE Start \/ Membership \/ \E t \in answers : Answer(t)
    <3>1. UNCHANGED <<host_vars, tasks, emitted, caller>>
      BY <2>4 DEF Start, Membership, Answer
    <3>2. Types'
      BY <3>1 DEF Types, host_vars, routing
    <3>3. PendingHasWakeup'
      BY <3>1, GrowthWakeup DEF host_vars, routing, pending
    <3>4. QED
      BY <2>4, <3>2, <3>3, CoordinatorStable
  <2>5. CASE Rebalance
    <3>1. SpawnRebalance
      BY <2>5 DEF Rebalance
    <3>2. tasks \subseteq tasks' /\ UNCHANGED host_vars
      BY <3>1 DEF SpawnRebalance
    <3>3. PendingHasWakeup'
      BY <3>2, GrowthWakeup DEF host_vars, routing, pending
    <3>4. QED
      BY <2>5, <3>1, <3>3, SpawnRebalanceTypes, CoordinatorStable
  <2>6. CASE \E h \in Nodes, s \in Shards : Ask(h, s)
    BY <2>6, AskTypes, AskWakeup, CoordinatorStable
  <2>7. CASE \E b \in tasks : \E h \in b.to : Send(b, h)
    BY <2>7, SendTypes, SendWakeup, SendStable
  <2>8. ASSUME NEW h \in Nodes, NEW s \in Shards, NEW r \in Requests, Request(h, s, r)
        PROVE  Types' /\ PendingHasWakeup' /\ (Stable => Settling' /\ ActorHasEntry')
    <3>1. UNCHANGED <<pending, asks, tasks>>
      BY <2>8 DEF Request, routing, pending
    <3>2. \E n \in Nodes, m \in Message : mailbox' = [mailbox EXCEPT ![n] = Append(@, m)]
      BY <2>8, RequestTypes
    <3>3. PendingHasWakeup'
      BY <3>1, <3>2, GrowthWakeup
    <3>4. QED
      BY <2>8, <3>3, RequestTypes, RequestStable
  <2>9. CASE HostStep
    <3>1. OthersUnchanged
      BY <2>2, <2>9 DEF HostStep, OthersUnchanged
    <3>2. (\E h \in Nodes : Handle(h)) \/ TaskStep
      BY <2>9 DEF HostStep, HostNext, TaskStep
    <3>3. QED
      BY <3>1, <3>2, HandleTypes, TaskTypes, HostWakeup, HandleStable, TaskStable
  <2>10. QED
    BY <2>3, <2>4, <2>5, <2>6, <2>7, <2>8, <2>9 DEF Next, CoordinatorStep
<1>2. ASSUME HostsInv, UNCHANGED vars
      PROVE  HostsInv'
  <2>1. UNCHANGED <<mailbox, hosted_shards, remote_shards, requests_pending_shard_allocation, asks,
                    actors, last_id, stopping, answers, tasks, emitted, caller, scenario, coord>>
    BY <1>2 DEF vars, host_vars, routing
  <2>2. Types'
    BY <1>2, <2>1 DEF HostsInv, Types
  <2>3. WorkIsRunning' /\ CallerWaits'
    BY <1>2, <2>1, WorkStaysRunning DEF HostsInv, CallerWaits, coord
  <2>4. PendingHasWakeup'
    BY SMT, <1>2, <2>1 DEF HostsInv, PendingHasWakeup, pending
  <2>5. StableInv'
    <3>1. UNCHANGED <<shards, scheduled, fired>>
      BY <2>1 DEF coord
    <3>2. Stable' <=> Stable
      BY <2>1 DEF Stable
    <3>3. ASSUME Settling
          PROVE  Settling'
      <4>1. ~scheduled' /\ fired' = 0 /\ stopping' = {} /\ answers' = {}
        BY <2>1, <3>1, <3>3 DEF Settling
      <4>2. \A b \in tasks' : b.type = "ShardAllocated" /\ b.node = shards'[b.shard]
        BY <2>1, <3>1, <3>3 DEF Settling
      <4>3. \A h \in Nodes, s \in Shards :
               /\ remote_shards'[h][s] # NoNode => remote_shards'[h][s] = shards'[s]
               /\ hosted_shards'[h][s] # NotHosted => h = shards'[s]
        BY SMT, <2>1, <3>1, <3>3 DEF Settling
      <4>4. mailbox' = mailbox /\ shards' = shards
        BY <2>1, <3>1
      <4>5. QED
        BY SMT, <3>3, <4>1, <4>2, <4>3, <4>4 DEF Settling
    <3>4. ActorHasEntry => ActorHasEntry'
      BY <2>1, <3>1 DEF ActorHasEntry
    <3>5. QED
      BY <1>2, <3>2, <3>3, <3>4 DEF HostsInv, StableInv
  <2>6. QED
    BY <2>2, <2>3, <2>4, <2>5 DEF HostsInv
<1>3. QED
  BY <1>1, <1>2

\* The coordinator among its hosts takes only steps of ShardCoordinator.
LEMMA CoordinatorRefined == Types /\ [Next]_vars => [Coordinator!Next]_Coordinator!vars
<1>1. CoordinatorAction => Coordinator!Next
  BY DEF CoordinatorAction, Coordinator!Next
<1>2. UNCHANGED coord => UNCHANGED Coordinator!vars
  BY DEF coord, Coordinator!vars, Coordinator!coordinator
<1>3. UNCHANGED vars => UNCHANGED coord
  BY DEF vars
<1>4. QED
  BY <1>1, <1>2, <1>3, CoordinatorSteps

\* What the hosts' part of the invariant says.
LEMMA HostsInvSays == HostsInv => OneActor /\ RoutesToOwner /\ PendingHasWakeup
<1>1. HostsInv => OneActor
  BY DEF HostsInv, StableInv, ActorHasEntry, OneActor
<1>2. HostsInv => RoutesToOwner
  BY DEF HostsInv, StableInv, Settling, RoutesToOwner
<1>3. QED
  BY <1>1, <1>2 DEF HostsInv

-----------------------------------------------------------------------------
(* What the hosts rely on, and why it is so. *)

INSTANCE FiniteSetTheorems

\* One notion of cardinality, under the names of the modules that use it.
LEMMA SameCardinality == \A S : Coordinator!Cardinality(S) = Cardinality(S)
BY DEF Coordinator!Cardinality, Cardinality

\* A coordinator that runs has a host to choose: its own node is ready.
LEMMA SomeHostIsReady ==
    ASSUME Coordinator!TypeOK, Coordinator!Running, Coordinator!is_ready(self_node_id)
    PROVE  Coordinator!LeastLoaded # {}
<1> DEFINE Ready == {n \in Nodes : Coordinator!is_ready(n)}
           Loads == {Coordinator!Load(n) : n \in Ready}
           R == {p \in Nat \X Nat : p[1] < p[2]}
<1>1. /\ host_shards \in [Nodes -> SUBSET Shards] /\ self_node_id \in Nodes
      /\ Coordinator!is_ready(self_node_id)
  BY DEF Coordinator!TypeOK, Coordinator!Running
<1>2. ASSUME NEW n \in Nodes
      PROVE  Coordinator!Load(n) \in Nat
  <2>1. IsFiniteSet(host_shards[n])
    BY <1>1, ShardingAssumption, FS_Subset
  <2>2. QED
    BY <2>1, SameCardinality, FS_CardinalityType DEF Coordinator!Load
<1>3. Loads \in SUBSET Nat /\ Loads # {}
  BY <1>1, <1>2
<1>4. IsWellFoundedOn(R, Nat)
  BY NatLessThanWellFounded DEF OpToRel
<1>5. PICK x \in Loads : \A y \in Loads : <<y, x>> \notin R
  BY <1>3, <1>4, WFMin
<1>6. ASSUME NEW y \in Loads
      PROVE  x <= y
  <2>1. ~(y < x) /\ x \in Nat /\ y \in Nat
    BY <1>3, <1>5
  <2>2. QED
    BY SMT, <2>1
<1>7. PICK n \in Ready : x = Coordinator!Load(n)
  BY <1>5
<1>8. \A m \in Nodes : Coordinator!is_ready(m) => Coordinator!Load(n) <= Coordinator!Load(m)
  BY <1>6, <1>7
<1>9. QED
  BY <1>7, <1>8 DEF Coordinator!LeastLoaded

\* Different shards of a rebalance get different numbers.
LEMMA NumberingType ==
    Numbered
<1> SUFFICES ASSUME NEW R \in SUBSET Shards
             PROVE  Cardinality(R) \in Nat /\ Numbering(R) \in [R -> 1 .. Cardinality(R)]
  BY DEF Numbered
<1>1. IsFiniteSet(R)
  BY ShardingAssumption, FS_Subset
<1>2. Cardinality(R) \in Nat
  BY <1>1, FS_CardinalityType
<1>3. PICK g : g \in Bijection(1 .. Cardinality(R), R)
  BY <1>1, FS_CardinalityType DEF ExistsBijection
<1>4. /\ g \in [1 .. Cardinality(R) -> R]
      /\ \A x \in R : \E i \in 1 .. Cardinality(R) : g[i] = x
  BY <1>3 DEF Bijection, Surjection, Injection
<1>5. PICK f : f = [x \in R |-> CHOOSE i \in 1 .. Cardinality(R) : g[i] = x]
  OBVIOUS
<1>6. \A x \in R : f[x] \in 1 .. Cardinality(R) /\ g[f[x]] = x
  BY <1>4, <1>5
<1>7. f \in [R -> 1 .. Cardinality(R)] /\ \A x, y \in R : x # y => f[x] # f[y]
  BY <1>5, <1>6
<1>8. QED
  BY <1>2, <1>7 DEF Numbering

-----------------------------------------------------------------------------
(* The coordinator does its part: its steps are those that                 *)
(* ShardCoordinatorProofs is about.                                        *)

CP == INSTANCE ShardCoordinatorProofs

IInv == HostsInv /\ CP!IInv

\* One notion of cardinality there too.
LEMMA SameCardinalities == \A S : CP!Cardinality(S) = Coordinator!Cardinality(S)
BY DEF CP!Cardinality, Coordinator!Cardinality

\* An action of the coordinator is one of ShardCoordinatorProofs.
LEMMA SameAction == CoordinatorAction => CP!Next
<1> USE DEF Coordinator!Idle, CP!Idle, Coordinator!Running, CP!Running, Coordinator!is_ready,
            CP!is_ready, Coordinator!Spend, CP!Spend, Coordinator!Known, CP!Known
<1>1. Coordinator!Start => CP!Start
  BY DEF Coordinator!Start, CP!Start, Coordinator!pre_recovery, CP!pre_recovery,
         Coordinator!Statuses, CP!Statuses
<1>2. Coordinator!allocate_shard => CP!allocate_shard
  BY SameCardinalities
     DEF Coordinator!allocate_shard, CP!allocate_shard, Coordinator!allocate, CP!allocate,
         Coordinator!LeastLoaded, CP!LeastLoaded, Coordinator!Load, CP!Load
<1>3. \A s : Coordinator!AllocateShard(s) => CP!AllocateShard(s)
  BY DEF Coordinator!AllocateShard, CP!AllocateShard
<1>4. \A s, n : Coordinator!AllocateRebalanced(s, n) => CP!AllocateRebalanced(s, n)
  BY DEF Coordinator!AllocateRebalanced, CP!AllocateRebalanced
<1>5. Coordinator!RebalanceAll => CP!RebalanceAll
  BY SameCardinalities
     DEF Coordinator!RebalanceAll, CP!RebalanceAll, Coordinator!Allocated, CP!Allocated,
         Coordinator!Surplus, CP!Surplus, Coordinator!Load, CP!Load, Coordinator!FairShardCount,
         CP!FairShardCount, Coordinator!rebalance_shards, CP!rebalance_shards
<1>6. \A R : Coordinator!RebalanceShards(R) => CP!RebalanceShards(R)
  BY DEF Coordinator!RebalanceShards, CP!RebalanceShards, Coordinator!rebalance_shards,
         CP!rebalance_shards
<1>7. Coordinator!RebalanceTimer => CP!RebalanceTimer
  BY DEF Coordinator!RebalanceTimer, CP!RebalanceTimer
<1>8. \A n : Coordinator!on_node_discovered(n) => CP!on_node_discovered(n)
  BY DEF Coordinator!on_node_discovered, CP!on_node_discovered
<1>9. \A n : Coordinator!on_node_removed(n) => CP!on_node_removed(n)
  BY SameCardinalities
     DEF Coordinator!on_node_removed, CP!on_node_removed, Coordinator!Orderings, CP!Orderings
<1>10. QED
  BY SMT, <1>1, <1>2, <1>3, <1>4, <1>5, <1>6, <1>7, <1>8, <1>9 DEF CoordinatorAction, CP!Next

\* So the invariant proved there holds here.
LEMMA CoordinatorInv ==
    ASSUME CP!IInv, CoordinatorAction \/ UNCHANGED coord
    PROVE  CP!IInv'
<1>1. CP!IsFiniteSet(Shards)
  BY ShardingAssumption DEF CP!IsFiniteSet, IsFiniteSet
<1>2. UNCHANGED coord => UNCHANGED CP!vars
  BY DEF coord, CP!vars, CP!coordinator
<1>3. [CP!Next]_CP!vars
  BY <1>2, SameAction
<1>4. QED
  BY <1>1, <1>3, ShardingAssumption, CP!NextIInv

\* What the hosts rely on.
LEMMA CoordinatorIsOk ==
    ASSUME CP!IInv
    PROVE  CoordinatorOk
<1>1. Coordinator!TypeOK
  BY DEF CP!IInv, CP!TypeOK, CP!Statuses, Coordinator!TypeOK, Coordinator!Statuses
<1>2. Coordinator!Running => Coordinator!is_ready(self_node_id)
  BY DEF CP!IInv, CP!AssignedToReady, CP!Running, CP!is_ready, Coordinator!Running, Coordinator!is_ready
<1>3. QED
  BY <1>1, <1>2, SomeHostIsReady DEF CoordinatorOk

-----------------------------------------------------------------------------
(* The invariant *)

\* It holds in the initial states, ...
LEMMA InitIInv == Init => IInv
<1> SUFFICES ASSUME Init PROVE CP!IInv
  BY InitHosts DEF IInv
<1>1. CP!IsFiniteSet(Shards)
  BY ShardingAssumption DEF CP!IsFiniteSet, IsFiniteSet
<1>2. CP!Init
  BY DEF Init, Coordinator!Init, CP!Init
<1>3. QED
  BY <1>1, <1>2, ShardingAssumption, CP!InitIInv

\* ... and every step preserves it.
LEMMA NextIInv == IInv /\ [Next]_vars => IInv'
<1> SUFFICES ASSUME HostsInv, CP!IInv, [Next]_vars PROVE HostsInv' /\ CP!IInv'
  BY DEF IInv
<1>1. HostsInv'
  BY CoordinatorIsOk, NumberingType, HostsKept
<1>2. CoordinatorAction \/ UNCHANGED coord
  BY CoordinatorSteps DEF HostsInv, vars
<1>3. QED
  BY <1>1, <1>2, CoordinatorInv

-----------------------------------------------------------------------------
(* Theorems *)

\* The invariant holds in every state of every behaviour.
THEOREM ShardingInvariance == Spec => []IInv
<1>1. Init => IInv
  BY InitIInv
<1>2. IInv /\ [Next]_vars => IInv'
  BY NextIInv
<1>3. QED
  BY <1>1, <1>2, PTL DEF Spec

\* With one coordinator and members that do not change (handle_request and
\* ShardAllocated of the hosts, AllocateShard of the coordinator), a shard never
\* has two actors, and its actor is on the node that the coordinator chose.
THEOREM OneActorPerShard == Spec => []OneActor
<1>1. IInv => OneActor
  BY SMT, HostsInvSays DEF IInv
<1>2. QED
  BY <1>1, ShardingInvariance, PTL

\* There, whatever a host knows of where a shard is, is so.
THEOREM HostsRouteToTheOwner == Spec => []RoutesToOwner
<1>1. IInv => RoutesToOwner
  BY SMT, HostsInvSays DEF IInv
<1>2. QED
  BY <1>1, ShardingInvariance, PTL

\* In any cluster, a request that waits for an allocation is not forgotten: its
\* host's question, or an allocation of its shard to that host, is under way.
THEOREM PendingRequestsAreWoken == Spec => []PendingHasWakeup
<1>1. IInv => PendingHasWakeup
  BY SMT, HostsInvSays DEF IInv
<1>2. QED
  BY <1>1, ShardingInvariance, PTL

\* The coordinator among its hosts is the coordinator of ShardCoordinator: what
\* is proved of that one holds of this one.
THEOREM CoordinatorIsImplemented == Spec => Coordinator!Spec
<1>1. Init => Coordinator!Init
  BY DEF Init
<1>2. IInv /\ [Next]_vars => [Coordinator!Next]_Coordinator!vars
  BY CoordinatorRefined DEF IInv, HostsInv
<1>3. QED
  BY <1>1, <1>2, ShardingInvariance, PTL DEF Spec, Coordinator!Spec
=============================================================================
