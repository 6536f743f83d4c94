--------------------------- MODULE ShardHostProofs --------------------------
(***************************************************************************)
(* Proofs about the shard hosts in the environment of MCShardHost, for     *)
(* every set of nodes, shards and requests and any number of arrivals: the *)
(* most that delay and reordering can do to them.                          *)
(***************************************************************************)
EXTENDS MCShardHost, TLAPS

\* Few steps need arithmetic or sequences; those name the SMT solver.
USE Zenon

Message ==
    [type : {"EntityRequest"}, shard : Shards, request : Requests]
    \cup [type : {"ShardAllocated"}, shard : Shards, node : Nodes]
    \cup [type : {"ShardReallocating", "ShardStopped"}, shard : Shards]
    \cup [type : {"ShardReady"}, shard : Shards, actor : Nat]
    \cup [type : {"StopShard"}, shard : Shards, req : Stops]

Entry == [state : {"none", "Starting", "Ready", "Stopping"}, actor : Nat, buffer : SUBSET Requests]
Actor == [node : Nodes, shard : Shards, id : Nat, phase : {"starting", "running"}, stop : BOOLEAN]
Task == [node : Nodes, shard : Shards, actor : Nat, req : Stops, sent : BOOLEAN]
Delivery == [request : Requests, node : Nodes, shard : Shards, actor : Nat]

\* The types of what the hosts keep and of what is on its way to them.
Types ==
    /\ mailbox \in [Nodes -> Seq(Message)]
    /\ hosted_shards \in [Nodes -> [Shards -> Entry]]
    /\ remote_shards \in [Nodes -> [Shards -> Nodes \cup {NoNode}]]
    /\ requests_pending_shard_allocation \in [Nodes -> [Shards -> SUBSET Requests]]
    /\ actors \subseteq Actor
    /\ last_id \in [Nodes -> Nat]
    /\ stopping \subseteq Task /\ answers \subseteq Task
    /\ sending \subseteq Delivery

\* No id is known before the actor it names was started: not to the entry of the
\* host, nor to a task that stops it, nor to the answer that it is gone.
KnownIds ==
    /\ \A a \in actors : a.id <= last_id[a.node]
    /\ \A h \in Nodes, s \in Shards : hosted_shards[h][s].actor <= last_id[h]
    /\ \A h \in Nodes : \A i \in DOMAIN mailbox[h] :
          mailbox[h][i].type = "ShardReady" => mailbox[h][i].actor <= last_id[h]
    /\ \A t \in stopping \cup answers : t.actor <= last_id[t.node]

\* Where a request can be: six sets, ...
IsRequest(m, r) == m.type = "EntityRequest" /\ m.request = r
Mailed == {r \in Requests : \E n \in Nodes : \E i \in DOMAIN mailbox[n] : IsRequest(mailbox[n][i], r)}
Pended == {r \in Requests : \E n \in Nodes, s \in Shards : r \in pending[n][s]}
Buffered == {r \in Requests : \E n \in Nodes, s \in Shards : r \in hosted_shards[n][s].buffer}
Sent == {r \in Requests : \E d \in sending : d.request = r}

\* ... in each of which it is once.
MailedOnce ==
    \A r \in Requests, n, m \in Nodes : \A i \in DOMAIN mailbox[n], j \in DOMAIN mailbox[m] :
        IsRequest(mailbox[n][i], r) /\ IsRequest(mailbox[m][j], r) => n = m /\ i = j
PendedOnce ==
    \A r \in Requests, n, m \in Nodes, s, t \in Shards :
        r \in pending[n][s] /\ r \in pending[m][t] => n = m /\ s = t
BufferedOnce ==
    \A r \in Requests, n, m \in Nodes, s, t \in Shards :
        r \in hosted_shards[n][s].buffer /\ r \in hosted_shards[m][t].buffer => n = m /\ s = t
SentOnce == \A d, e \in sending : d.request = e.request => d = e

Once == MailedOnce /\ PendedOnce /\ BufferedOnce /\ SentOnce

\* A used request is in one of the sets, and in one only; the others are in none.
Partition ==
    \A r \in Requests :
        /\ r \in used <=> r \in Mailed \cup Pended \cup Buffered \cup Sent \cup served \cup dropped
        /\ r \in Mailed => r \notin Pended \cup Buffered \cup Sent \cup served \cup dropped
        /\ r \in Pended => r \notin Buffered \cup Sent \cup served \cup dropped
        /\ r \in Buffered => r \notin Sent \cup served \cup dropped
        /\ r \in Sent => r \notin served \cup dropped
        /\ r \in served => r \notin dropped

IInv == Types /\ KnownIds /\ AnsweredIsGone /\ BufferHasWakeup /\ Once /\ Partition

-----------------------------------------------------------------------------
(* Messages and mailboxes. *)

\* The fields a handler reads.
LEMMA MessageFields ==
    ASSUME NEW m \in Message
    PROVE  /\ m.shard \in Shards
           /\ m.type = "EntityRequest" => m.request \in Requests
           /\ m.type = "ShardAllocated" => m.node \in Nodes
           /\ m.type = "ShardReady" => m.actor \in Nat
           /\ m.type = "StopShard" => m.req \in Stops
BY DEF Message

\* A host takes the first message; the others move up.
LEMMA ReceiveMail ==
    ASSUME Types, NEW h \in Nodes, NEW type, Receive(h, type)
    PROVE  /\ Head(mailbox[h]) \in Message /\ Head(mailbox[h]).type = type
           /\ 1 \in DOMAIN mailbox[h] /\ Head(mailbox[h]) = mailbox[h][1]
           /\ mailbox' \in [Nodes -> Seq(Message)]
           /\ \A n \in Nodes : n # h => mailbox'[n] = mailbox[n]
           /\ \A i \in DOMAIN mailbox'[h] :
                i \in Nat /\ i + 1 \in DOMAIN mailbox[h] /\ i + 1 # 1
                /\ mailbox'[h][i] = mailbox[h][i + 1]
           /\ \A i \in DOMAIN mailbox[h] :
                i # 1 => /\ i \in Nat /\ i - 1 \in DOMAIN mailbox'[h]
                         /\ mailbox'[h][i - 1] = mailbox[h][i]
<1>1. PICK q \in Seq(Message) : q = mailbox[h]
  BY DEF Types
<1>2. q # <<>> /\ Head(q).type = type /\ mailbox' = [mailbox EXCEPT ![h] = Tail(q)]
  BY <1>1 DEF Receive
<1>3. /\ Len(q) \in Nat /\ Len(q) >= 1 /\ Head(q) = q[1] /\ q[1] \in Message
      /\ DOMAIN q = 1 .. Len(q)
  BY SMT, <1>2
<1>4. PICK t : t = Tail(q)
  BY Zenon
<1>5. /\ t \in Seq(Message) /\ DOMAIN t = 1 .. Len(q) - 1
      /\ \A i \in 1 .. Len(q) - 1 : t[i] = q[i + 1]
  BY SMT, <1>2, <1>4
<1>6. /\ mailbox' \in [Nodes -> Seq(Message)] /\ mailbox'[h] = t
      /\ \A n \in Nodes : n # h => mailbox'[n] = mailbox[n]
  BY <1>2, <1>4, <1>5 DEF Types
<1>7. ASSUME NEW i \in DOMAIN t
      PROVE  i \in Nat /\ i + 1 \in DOMAIN q /\ i + 1 # 1 /\ t[i] = q[i + 1]
  BY SMT, <1>3, <1>5
<1>8. ASSUME NEW i \in DOMAIN q, i # 1
      PROVE  i \in Nat /\ i - 1 \in DOMAIN t /\ t[i - 1] = q[i]
  BY SMT, <1>3, <1>5, <1>8
<1>9. QED
  BY SMT, <1>1, <1>2, <1>3, <1>6, <1>7, <1>8

\* So every message left was in the same mailbox before.
LEMMA MovedUp ==
    ASSUME Types, NEW h \in Nodes, NEW type, Receive(h, type),
           NEW n \in Nodes, NEW i \in DOMAIN mailbox'[n]
    PROVE  \E x \in DOMAIN mailbox[n] :
               /\ mailbox[n][x] = mailbox'[n][i]
               /\ IF n = h THEN i \in Nat /\ x = i + 1 ELSE x = i
<1>1. CASE n = h
  <2>1. i \in Nat /\ i + 1 \in DOMAIN mailbox[h] /\ mailbox'[h][i] = mailbox[h][i + 1]
    BY <1>1, ReceiveMail
  <2>2. QED
    BY <1>1, <2>1
<1>2. CASE n # h
  <2>1. mailbox'[n] = mailbox[n]
    BY <1>2, ReceiveMail
  <2>2. QED
    BY <1>2, <2>1
<1>3. QED
  BY <1>1, <1>2

\* A message is put at the end of a mailbox.
LEMMA AppendMail ==
    ASSUME Types, NEW h \in Nodes, NEW m \in Message,
           mailbox' = [mailbox EXCEPT ![h] = Append(@, m)]
    PROVE  /\ mailbox' \in [Nodes -> Seq(Message)]
           /\ \A n \in Nodes : n # h => mailbox'[n] = mailbox[n]
           /\ \A i \in DOMAIN mailbox[h] : i \in DOMAIN mailbox'[h] /\ mailbox'[h][i] = mailbox[h][i]
           /\ \E k \in DOMAIN mailbox'[h] :
                /\ mailbox'[h][k] = m /\ k \notin DOMAIN mailbox[h]
                /\ \A i \in DOMAIN mailbox'[h] : i # k => i \in DOMAIN mailbox[h]
<1>1. PICK q \in Seq(Message) : q = mailbox[h]
  BY DEF Types
<1>2. PICK t : t = Append(q, m)
  BY Zenon
<1>3. /\ t \in Seq(Message) /\ Len(q) \in Nat /\ DOMAIN q = 1 .. Len(q)
      /\ DOMAIN t = 1 .. Len(q) + 1 /\ t[Len(q) + 1] = m
      /\ \A i \in 1 .. Len(q) : t[i] = q[i]
  BY SMT, <1>2
<1>4. /\ mailbox' \in [Nodes -> Seq(Message)] /\ mailbox'[h] = t
      /\ \A n \in Nodes : n # h => mailbox'[n] = mailbox[n]
  BY <1>1, <1>2, <1>3 DEF Types
<1>5. /\ \A i \in DOMAIN q : i \in DOMAIN t /\ t[i] = q[i]
      /\ Len(q) + 1 \in DOMAIN t /\ Len(q) + 1 \notin DOMAIN q
      /\ \A i \in DOMAIN t : i # Len(q) + 1 => i \in DOMAIN q
  BY SMT, <1>3
<1>6. QED
  BY <1>1, <1>3, <1>4, <1>5

-----------------------------------------------------------------------------
(* Types *)

\* The outcomes of handle_request are entries and deliveries.
LEMMA HandleRequestTypes ==
    ASSUME Types, NEW h \in Nodes, NEW s \in Shards, NEW e \in Entry, NEW R \in SUBSET Requests,
           handle_request(h, s, e, R)
    PROVE  hosted_shards' \in [Nodes -> [Shards -> Entry]] /\ sending' \subseteq Delivery
<1>1. CASE e.state = "Starting"
  <2>1. [e EXCEPT !.buffer = @ \cup R] \in Entry
    BY DEF Entry
  <2>2. /\ hosted_shards' = [hosted_shards EXCEPT ![h][s] = [e EXCEPT !.buffer = @ \cup R]]
        /\ UNCHANGED sending
    BY <1>1 DEF handle_request
  <2>3. QED
    BY <2>1, <2>2 DEF Types
<1>2. CASE e.state = "Ready"
  <2>1. {[request |-> r, node |-> h, shard |-> s, actor |-> e.actor] : r \in R} \subseteq Delivery
    BY SMT DEF Entry, Delivery
  <2>2. /\ hosted_shards' = [hosted_shards EXCEPT ![h][s] = e]
        /\ sending' = sending \cup {[request |-> r, node |-> h, shard |-> s,
                                     actor |-> e.actor] : r \in R}
    BY <1>2 DEF handle_request
  <2>3. QED
    BY <2>1, <2>2 DEF Types
<1>3. CASE e.state = "Stopping"
  <2>1. hosted_shards' = [hosted_shards EXCEPT ![h][s] = e] /\ UNCHANGED sending
    BY <1>3 DEF handle_request
  <2>2. QED
    BY <2>1 DEF Types
<1>4. QED
  BY <1>1, <1>2, <1>3 DEF handle_request

\* A request sent to another node is a delivery.
LEMMA RemoteRequestTypes ==
    ASSUME Types, NEW n \in Nodes, NEW s \in Shards, NEW R \in SUBSET Requests,
           remote_entity_request(n, s, R)
    PROVE  sending' \subseteq Delivery
<1>1. {[request |-> r, node |-> n, shard |-> s, actor |-> 0] : r \in R} \subseteq Delivery
  BY SMT DEF Delivery
<1>2. QED
  BY <1>1 DEF remote_entity_request, Types

\* A Stop in the mailbox of an actor changes nothing else of it.
LEMMA SendStopTypes ==
    ASSUME Types, NEW n, NEW s, NEW id, SendStop(n, s, id)
    PROVE  /\ actors' \subseteq Actor
           /\ \A b \in actors' : \E a \in actors : /\ b.node = a.node /\ b.shard = a.shard
                                                   /\ b.id = a.id /\ b.phase = a.phase
           /\ \A a \in actors : \E b \in actors' : /\ b.node = a.node /\ b.shard = a.shard
                                                   /\ b.id = a.id /\ b.phase = a.phase
<1>1. ASSUME NEW a \in actors
      PROVE  /\ a \in Actor /\ [a EXCEPT !.stop = TRUE] \in Actor
             /\ [a EXCEPT !.stop = TRUE].node = a.node /\ [a EXCEPT !.stop = TRUE].shard = a.shard
             /\ [a EXCEPT !.stop = TRUE].id = a.id /\ [a EXCEPT !.stop = TRUE].phase = a.phase
  <2>1. a \in Actor
    BY DEF Types
  <2>2. QED
    BY <2>1 DEF Actor
<1>2. QED
  BY ZenonT(30), <1>1 DEF SendStop

\* NotHosted is what the map answers where it has no entry.
LEMMA EntryTypes ==
    /\ NotHosted \in Entry /\ NotHosted.buffer = {} /\ NotHosted.actor = 0
    /\ NotHosted.state = "none"
    /\ [NotHosted EXCEPT !.state = "Stopping"] \in Entry
    /\ [NotHosted EXCEPT !.state = "Stopping"].buffer = {}
    /\ [NotHosted EXCEPT !.state = "Stopping"].actor = 0
    /\ [NotHosted EXCEPT !.state = "Stopping"].state = "Stopping"
    /\ \A id \in Nat : /\ [state |-> "Starting", actor |-> id, buffer |-> {}] \in Entry
                       /\ [state |-> "Ready", actor |-> id, buffer |-> {}] \in Entry
BY DEF NotHosted, Entry

\* The handlers of a host.
LEMMA HandleTypes ==
    ASSUME Types, NEW h \in Nodes, Handle(h)
    PROVE  Types'
<1>1. CASE EntityRequest(h)
  <2> DEFINE m == Head(mailbox[h])
             e == hosted_shards[h][m.shard]
  <2>1. /\ m.shard \in Shards /\ m.request \in Requests /\ {m.request} \in SUBSET Requests
        /\ mailbox' \in [Nodes -> Seq(Message)]
    <3>1. Receive(h, "EntityRequest")
      BY <1>1 DEF EntityRequest
    <3>2. m \in Message /\ m.type = "EntityRequest" /\ mailbox' \in [Nodes -> Seq(Message)]
      BY <3>1, ReceiveMail
    <3> HIDE DEF m
    <3>3. QED
      BY <3>2, MessageFields
  <2>2. UNCHANGED <<remote_shards, actors, last_id, stopping, answers>>
    BY <1>1 DEF EntityRequest
  <2>3. e \in Entry
    BY <2>1 DEF Types
  <2> HIDE DEF m, e
  <2>4. CASE /\ handle_request(h, m.shard, e, {m.request})
             /\ UNCHANGED requests_pending_shard_allocation
    BY <2>1, <2>2, <2>3, <2>4, HandleRequestTypes DEF Types
  <2>5. CASE /\ remote_shards[h][m.shard] # NoNode
             /\ remote_entity_request(remote_shards[h][m.shard], m.shard, {m.request})
             /\ UNCHANGED <<hosted_shards, requests_pending_shard_allocation>>
    <3>1. remote_shards[h][m.shard] \in Nodes
      BY SMT, <2>1, <2>5 DEF Types
    <3>2. QED
      BY <2>1, <2>2, <2>5, <3>1, RemoteRequestTypes DEF Types
  <2>6. CASE /\ requests_pending_shard_allocation' = [pending EXCEPT ![h][m.shard] = @ \cup {m.request}]
             /\ UNCHANGED <<hosted_shards, sending>>
    BY <2>1, <2>2, <2>6 DEF Types, pending
  <2>7. QED
    BY <1>1, <2>4, <2>5, <2>6 DEF EntityRequest, m, e
<1>2. CASE ShardAllocated(h)
  <2> DEFINE m == Head(mailbox[h])
             s == m.shard
             e == hosted_shards[h][s]
  <2>1. s \in Shards /\ m.node \in Nodes /\ mailbox' \in [Nodes -> Seq(Message)]
    BY <1>2, ReceiveMail, MessageFields DEF ShardAllocated
  <2>2. UNCHANGED <<stopping, answers>>
    BY <1>2 DEF ShardAllocated
  <2>3. e \in Entry /\ pending[h][s] \in SUBSET Requests /\ last_id[h] + 1 \in Nat
    BY SMT, <2>1 DEF Types, pending
  <2>4. CASE m.node = h
    <3>1. AllocatedHere(h, s)
      BY <1>2, <2>4 DEF ShardAllocated
    <3> HIDE DEF s, m
    <3>2. hosted_shards' \in [Nodes -> [Shards -> Entry]] /\ sending' \subseteq Delivery
      BY <2>1, <2>3, <3>1, EntryTypes, HandleRequestTypes DEF AllocatedHere
    <3>3. actors' \subseteq Actor /\ last_id' \in [Nodes -> Nat]
      <4>1. CASE new_shard(h, s)
        <5>1. [node |-> h, shard |-> s, id |-> last_id[h] + 1, phase |-> "starting", stop |-> FALSE]
                \in Actor
          BY <2>1, <2>3 DEF Actor
        <5>2. QED
          BY <2>3, <4>1, <5>1 DEF new_shard, Types
      <4>2. CASE UNCHANGED <<actors, last_id>>
        BY <4>2 DEF Types
      <4>3. QED
        BY <3>1, <4>1, <4>2 DEF AllocatedHere
    <3>4. /\ remote_shards' \in [Nodes -> [Shards -> Nodes \cup {NoNode}]]
          /\ requests_pending_shard_allocation' \in [Nodes -> [Shards -> SUBSET Requests]]
      BY <2>1, <3>1 DEF AllocatedHere, Types, pending
    <3>5. QED
      BY <2>1, <2>2, <3>2, <3>3, <3>4 DEF Types
  <2>5. CASE m.node # h
    <3>1. AllocatedThere(h, s, m.node)
      BY <1>2, <2>5 DEF ShardAllocated
    <3> HIDE DEF s, m
    <3>2. sending' \subseteq Delivery
      BY <2>1, <2>3, <3>1, RemoteRequestTypes DEF AllocatedThere
    <3>3. actors' \subseteq Actor
      BY <3>1, SendStopTypes DEF AllocatedThere, Types
    <3>4. hosted_shards' \in [Nodes -> [Shards -> Entry]]
      BY <2>1, <3>1, EntryTypes DEF AllocatedThere, Types
    <3>5. /\ remote_shards' \in [Nodes -> [Shards -> Nodes \cup {NoNode}]]
          /\ requests_pending_shard_allocation' \in [Nodes -> [Shards -> SUBSET Requests]]
          /\ UNCHANGED last_id
      BY <2>1, <3>1 DEF AllocatedThere, Types, pending
    <3>6. QED
      BY <2>1, <2>2, <3>2, <3>3, <3>4, <3>5 DEF Types
  <2>6. QED
    BY <2>4, <2>5
<1>3. CASE ShardReallocating(h)
  <2>1. mailbox' \in [Nodes -> Seq(Message)] /\ Head(mailbox[h]).shard \in Shards
    BY <1>3, ReceiveMail, MessageFields DEF ShardReallocating
  <2>2. QED
    BY <1>3, <2>1 DEF ShardReallocating, Types
<1>4. CASE ShardReady(h)
  <2> DEFINE m == Head(mailbox[h])
             ready == [state |-> "Ready", actor |-> m.actor, buffer |-> {}]
  <2>1. mailbox' \in [Nodes -> Seq(Message)] /\ m.shard \in Shards /\ m.actor \in Nat
    BY SMT, <1>4, ReceiveMail, MessageFields DEF ShardReady
  <2>2. ready \in Entry
    BY <2>1, EntryTypes
  <2>3. {[request |-> r, node |-> h, shard |-> m.shard, actor |-> m.actor] :
            r \in hosted_shards[h][m.shard].buffer} \subseteq Delivery
    BY SMT, <2>1 DEF Types, Entry, Delivery
  <2> HIDE DEF m
  <2>4. /\ hosted_shards' = [hosted_shards EXCEPT ![h][m.shard] = ready]
        /\ sending' = sending \cup {[request |-> r, node |-> h, shard |-> m.shard, actor |-> m.actor] :
                                      r \in hosted_shards[h][m.shard].buffer}
        /\ UNCHANGED <<remote_shards, requests_pending_shard_allocation, actors, last_id, stopping,
                       answers>>
    BY <1>4 DEF ShardReady, m
  <2> HIDE DEF ready
  <2>5. QED
    BY <2>1, <2>2, <2>3, <2>4 DEF Types
<1>5. CASE StopShard(h)
  <2> DEFINE m == Head(mailbox[h])
             e == hosted_shards[h][m.shard]
             task == [node |-> h, shard |-> m.shard, actor |-> e.actor, req |-> m.req, sent |-> FALSE]
  <2>1. mailbox' \in [Nodes -> Seq(Message)] /\ m.shard \in Shards /\ m.req \in Stops
    BY SMT, <1>5, ReceiveMail, MessageFields DEF StopShard
  <2>2. task \in Task
    BY SMT, <2>1 DEF Types, Entry, Task
  <2> HIDE DEF m
  <2>3. hosted_shards' \in [Nodes -> [Shards -> Entry]]
    BY <1>5, <2>1, EntryTypes DEF StopShard, Types, m
  <2>4. stopping' \in {stopping, stopping \cup {task}}
    BY <1>5 DEF StopShard, m
  <2>5. UNCHANGED <<remote_shards, requests_pending_shard_allocation, actors, last_id, sending, answers>>
    BY <1>5 DEF StopShard
  <2> HIDE DEF task
  <2>6. QED
    BY <2>1, <2>2, <2>3, <2>4, <2>5 DEF Types
<1>6. CASE ShardStopped(h)
  <2>1. mailbox' \in [Nodes -> Seq(Message)] /\ Head(mailbox[h]).shard \in Shards
    BY <1>6, ReceiveMail, MessageFields DEF ShardStopped
  <2>2. QED
    BY <1>6, <2>1, EntryTypes DEF ShardStopped, Types
<1>7. QED
  BY <1>1, <1>2, <1>3, <1>4, <1>5, <1>6 DEF Handle

\* What the environment sends is a message of the protocol.
LEMMA EnvironmentArrives ==
    ASSUME Environment
    PROVE  \E h \in Nodes : \E m \in Message :
              /\ Arrive(h, m) /\ m.type \notin {"ShardReady", "ShardStopped"}
              /\ \/ m.type # "EntityRequest" /\ \A r \in Requests : r \in used' <=> r \in used
                 \/ /\ m.type = "EntityRequest" /\ m.request \notin used
                    /\ \A r \in Requests : r \in used' <=> r \in used \/ r = m.request
<1> USE HostsAssumption
<1>1. PICK h \in Hosts, s \in Shards :
        \/ \E r \in Requests : ArriveRequest(h, s, r)
        \/ \E i \in Stops : ArriveStop(h, s, i)
        \/ \E n \in Nodes :
               \/ ArriveBroadcast(h, [type |-> "ShardAllocated", shard |-> s, node |-> n])
               \/ ArriveAnswer(h, s, n)
        \/ ArriveBroadcast(h, [type |-> "ShardReallocating", shard |-> s])
  BY DEF Environment
<1>2. h \in Nodes
  OBVIOUS
<1>3. ASSUME NEW r \in Requests, ArriveRequest(h, s, r)
      PROVE  LET m == [type |-> "EntityRequest", shard |-> s, request |-> r]
             IN  /\ m \in Message /\ Arrive(h, m) /\ m.type = "EntityRequest" /\ m.request \notin used
                 /\ \A x \in Requests : x \in used' <=> x \in used \/ x = m.request
  BY <1>3 DEF ArriveRequest, Message
<1>4. ASSUME NEW i \in Stops, ArriveStop(h, s, i)
      PROVE  LET m == [type |-> "StopShard", shard |-> s, req |-> i]
             IN  /\ m \in Message /\ Arrive(h, m) /\ m.type = "StopShard"
                 /\ \A x \in Requests : x \in used' <=> x \in used
  BY <1>4 DEF ArriveStop, Message
<1>5. ASSUME NEW n \in Nodes,
             \/ ArriveBroadcast(h, [type |-> "ShardAllocated", shard |-> s, node |-> n])
             \/ ArriveAnswer(h, s, n)
      PROVE  LET m == [type |-> "ShardAllocated", shard |-> s, node |-> n]
             IN  m \in Message /\ Arrive(h, m) /\ m.type = "ShardAllocated" /\ UNCHANGED used
  BY <1>5 DEF ArriveBroadcast, ArriveAnswer, Message
<1>6. ASSUME ArriveBroadcast(h, [type |-> "ShardReallocating", shard |-> s])
      PROVE  LET m == [type |-> "ShardReallocating", shard |-> s]
             IN  m \in Message /\ Arrive(h, m) /\ m.type = "ShardReallocating" /\ UNCHANGED used
  BY <1>6 DEF ArriveBroadcast, Message
<1>7. QED
  BY <1>1, <1>2, <1>3, <1>4, <1>5, <1>6

\* The steps of the shard actors and of the tasks.
LEMMA TaskTypes ==
    ASSUME Types,
           \/ \E d \in sending : DeliverLocal(d) \/ DeliverRemote(d) \/ NotFound(d)
           \/ \E a \in actors : ActorStarted(a) \/ ActorStopped(a)
           \/ \E t \in stopping : StopSent(t) \/ StopCompleted(t)
    PROVE  Types'
<1>1. ASSUME NEW d \in sending, DeliverLocal(d) \/ DeliverRemote(d) \/ NotFound(d)
      PROVE  Types'
  BY <1>1 DEF DeliverLocal, DeliverRemote, NotFound, Enqueue, Types, routing
<1>2. ASSUME NEW a \in actors, ActorStarted(a)
      PROVE  Types'
  <2>1. a \in Actor
    BY DEF Types
  <2>2. [a EXCEPT !.phase = "running"] \in Actor /\ a.node \in Nodes
    BY <2>1 DEF Actor
  <2>3. [type |-> "ShardReady", shard |-> a.shard, actor |-> a.id] \in Message
    BY <2>1 DEF Actor, Message
  <2>4. mailbox' \in [Nodes -> Seq(Message)]
    BY <1>2, <2>2, <2>3, AppendMail DEF ActorStarted
  <2>5. QED
    BY <1>2, <2>2, <2>4 DEF ActorStarted, Types, routing
<1>3. ASSUME NEW a \in actors, ActorStopped(a)
      PROVE  Types'
  BY <1>3 DEF ActorStopped, Types, routing
<1>4. ASSUME NEW t \in stopping, StopSent(t)
      PROVE  Types'
  <2>1. [t EXCEPT !.sent = TRUE] \in Task
    BY DEF Types, Task
  <2>2. actors' \subseteq Actor
    BY <1>4, SendStopTypes DEF StopSent
  <2>3. QED
    BY <1>4, <2>1, <2>2 DEF StopSent, Types, routing
<1>5. ASSUME NEW t \in stopping, StopCompleted(t)
      PROVE  Types'
  <2>1. t.node \in Nodes /\ [type |-> "ShardStopped", shard |-> t.shard] \in Message
    BY DEF Types, Task, Message
  <2>2. mailbox' \in [Nodes -> Seq(Message)]
    BY <1>5, <2>1, AppendMail DEF StopCompleted
  <2>3. QED
    BY SMT, <1>5, <2>2 DEF StopCompleted, Types, routing
<1>6. QED
  BY <1>1, <1>2, <1>3, <1>4, <1>5

-----------------------------------------------------------------------------
(* Ids: an actor that is gone does not come back under its old id. *)

Ids == KnownIds /\ AnsweredIsGone

\* Steps that start no actor and add no id that was not known.
LEMMA IdsKept ==
    ASSUME Types, Ids, UNCHANGED last_id,
           \A b \in actors' : \E a \in actors : b.node = a.node /\ b.shard = a.shard /\ b.id = a.id,
           \A h \in Nodes, s \in Shards : hosted_shards'[h][s].actor <= last_id[h],
           \A h \in Nodes : \A i \in DOMAIN mailbox'[h] :
               mailbox'[h][i].type = "ShardReady" => mailbox'[h][i].actor <= last_id[h],
           \A t \in stopping' \cup answers' : t.actor <= last_id[t.node],
           \A t \in answers' : t \in answers \/ ~Alive(t.node, t.shard, t.actor)
    PROVE  Ids'
BY DEF Ids, KnownIds, AnsweredIsGone, Alive

\* A handled message was in the mailbox before: the ids in it are known.
LEMMA ReceivedIds ==
    ASSUME Types, KnownIds, NEW h \in Nodes, NEW type, Receive(h, type)
    PROVE  \A n \in Nodes : \A i \in DOMAIN mailbox'[n] :
               mailbox'[n][i].type = "ShardReady" => mailbox'[n][i].actor <= last_id[n]
<1>1. SUFFICES ASSUME NEW n \in Nodes, NEW i \in DOMAIN mailbox'[n]
               PROVE  mailbox'[n][i].type = "ShardReady" => mailbox'[n][i].actor <= last_id[n]
  OBVIOUS
<1>2. PICK x \in DOMAIN mailbox[n] : mailbox[n][x] = mailbox'[n][i]
  BY SMT, MovedUp
<1>3. mailbox[n][x].type = "ShardReady" => mailbox[n][x].actor <= last_id[n]
  BY DEF KnownIds
<1>4. QED
  BY <1>2, <1>3

\* So are those in it after a message other than ShardReady was put there.
LEMMA AppendedIds ==
    ASSUME Types, KnownIds, NEW h \in Nodes, NEW m \in Message,
           mailbox' = [mailbox EXCEPT ![h] = Append(@, m)],
           m.type = "ShardReady" => m.actor <= last_id[h]
    PROVE  \A n \in Nodes : \A i \in DOMAIN mailbox'[n] :
               mailbox'[n][i].type = "ShardReady" => mailbox'[n][i].actor <= last_id[n]
<1>1. SUFFICES ASSUME NEW n \in Nodes, NEW i \in DOMAIN mailbox'[n]
               PROVE  mailbox'[n][i].type = "ShardReady" => mailbox'[n][i].actor <= last_id[n]
  OBVIOUS
<1>2. CASE n = h
  BY SMT, <1>2, AppendMail DEF KnownIds
<1>3. CASE n # h
  BY <1>3, AppendMail DEF KnownIds
<1>4. QED
  BY <1>2, <1>3

\* An entry replaced by one whose actor is known.
LEMMA EntryIds ==
    ASSUME Types, KnownIds, NEW h \in Nodes, NEW s \in Shards, NEW e \in Entry,
           e.actor <= last_id[h], hosted_shards' = [hosted_shards EXCEPT ![h][s] = e]
    PROVE  \A n \in Nodes, t \in Shards : hosted_shards'[n][t].actor <= last_id[n]
BY DEF Types, KnownIds

\* handle_request leaves the entry's actor alone.
LEMMA HandleRequestEntry ==
    ASSUME Types, NEW h \in Nodes, NEW s \in Shards, NEW e \in Entry, NEW R \in SUBSET Requests,
           handle_request(h, s, e, R)
    PROVE  \E f \in Entry :
              /\ f.actor = e.actor /\ f.state = e.state
              /\ hosted_shards' = [hosted_shards EXCEPT ![h][s] = f]
<1>1. CASE e.state = "Starting"
  <2>1. /\ [e EXCEPT !.buffer = @ \cup R] \in Entry
        /\ [e EXCEPT !.buffer = @ \cup R].actor = e.actor
        /\ [e EXCEPT !.buffer = @ \cup R].state = e.state
    BY DEF Entry
  <2>2. hosted_shards' = [hosted_shards EXCEPT ![h][s] = [e EXCEPT !.buffer = @ \cup R]]
    BY <1>1 DEF handle_request
  <2>3. QED
    BY <2>1, <2>2
<1>2. CASE e.state # "Starting"
  BY <1>2 DEF handle_request
<1>3. QED
  BY <1>1, <1>2

\* The handlers of a host.
LEMMA HandleIds ==
    ASSUME Types, Ids, NEW h \in Nodes, Handle(h)
    PROVE  Ids'
<1> DEFINE m == Head(mailbox[h])
           s == m.shard
           e == hosted_shards[h][s]
<1>1. /\ \A n \in Nodes : \A i \in DOMAIN mailbox'[n] :
            mailbox'[n][i].type = "ShardReady" => mailbox'[n][i].actor <= last_id[n]
      /\ m \in Message /\ m = mailbox[h][1] /\ 1 \in DOMAIN mailbox[h]
  BY ReceivedIds, ReceiveMail DEF Ids, Handle, EntityRequest, ShardAllocated, ShardReallocating,
                                 ShardReady, StopShard, ShardStopped
<1>2. s \in Shards
  BY <1>1, MessageFields
<1>3. e \in Entry /\ e.actor \in Nat /\ e.actor <= last_id[h] /\ last_id[h] \in Nat
  BY SMT, <1>2 DEF Types, Entry, Ids, KnownIds
<1> HIDE DEF m
<1>4. \A a \in actors : \E b \in actors : b.node = a.node /\ b.shard = a.shard /\ b.id = a.id
  OBVIOUS
<1>5. /\ \A t \in stopping \cup answers : t.actor <= last_id[t.node]
      /\ \A n \in Nodes, t \in Shards : hosted_shards[n][t].actor <= last_id[n]
  BY DEF Ids, KnownIds
<1>0. /\ NotHosted \in Entry /\ NotHosted.actor <= last_id[h]
      /\ [NotHosted EXCEPT !.state = "Stopping"] \in Entry
      /\ [NotHosted EXCEPT !.state = "Stopping"].actor <= last_id[h]
  BY SMT, <1>3, EntryTypes
<1>6. CASE EntityRequest(h)
  <2>1. UNCHANGED <<last_id, actors, stopping, answers>>
    BY <1>6 DEF EntityRequest
  <2>2. CASE handle_request(h, s, e, {m.request})
    <3>1. {m.request} \in SUBSET Requests
      BY <1>1, <1>6, MessageFields DEF EntityRequest, Receive, m
    <3>2. \A n \in Nodes, t \in Shards : hosted_shards'[n][t].actor <= last_id[n]
      BY SMT, <1>2, <1>3, <2>2, <3>1, HandleRequestEntry, EntryIds DEF Ids
    <3>3. QED
      BY <1>1, <1>4, <1>5, <2>1, <3>2, IdsKept
  <2>3. CASE UNCHANGED hosted_shards
    BY <1>1, <1>4, <1>5, <2>1, <2>3, IdsKept
  <2>4. QED
    BY <1>6, <2>2, <2>3 DEF EntityRequest, m
<1>7. CASE ShardAllocated(h) /\ m.node = h
  <2>1. AllocatedHere(h, s) /\ UNCHANGED <<stopping, answers>>
    BY <1>7 DEF ShardAllocated, m
  <2>2. pending[h][s] \in SUBSET Requests
    BY <1>2 DEF Types, pending
  <2>3. CASE e # NotHosted
    <3>1. \A n \in Nodes, t \in Shards : hosted_shards'[n][t].actor <= last_id[n]
      BY SMT, <1>2, <1>3, <2>1, <2>2, <2>3, HandleRequestEntry, EntryIds DEF Ids, AllocatedHere
    <3>2. UNCHANGED <<actors, last_id>>
      BY <2>1, <2>3 DEF AllocatedHere
    <3>3. QED
      BY <1>1, <1>4, <1>5, <2>1, <3>1, <3>2, IdsKept
  <2>4. CASE e = NotHosted
    <3> DEFINE id == last_id[h] + 1
    <3>1. new_shard(h, s) /\ id \in Nat
      BY SMT, <1>3, <2>1, <2>4 DEF AllocatedHere
    <3>2. PICK f \in Entry : f.actor = id /\ hosted_shards' = [hosted_shards EXCEPT ![h][s] = f]
      <4>1. PICK new \in Entry : new = [state |-> "Starting", actor |-> id, buffer |-> {}]
        BY <3>1, EntryTypes
      <4>2. handle_request(h, s, new, pending[h][s])
        BY <2>1, <2>4, <4>1 DEF AllocatedHere
      <4>3. QED
        BY SMT, <1>2, <2>2, <4>1, <4>2, HandleRequestEntry
    <3>3. /\ last_id' = [last_id EXCEPT ![h] = id]
          /\ actors' = actors \cup {[node |-> h, shard |-> s, id |-> id, phase |-> "starting",
                                     stop |-> FALSE]}
      BY <3>1 DEF new_shard
    <3>4. \A n \in Nodes : last_id[n] \in Nat /\ last_id'[n] \in Nat /\ last_id[n] <= last_id'[n]
      BY SMT, <1>3, <3>3 DEF Types
    <3>5. last_id'[h] = id
      BY <3>3 DEF Types
    <3>6. \A a \in actors' : a.id <= last_id'[a.node]
      <4>1. \A a \in actors : a.id \in Nat /\ a.node \in Nodes /\ a.id <= last_id[a.node]
        BY DEF Types, Actor, Ids, KnownIds
      <4>2. QED
        BY SMT, <3>1, <3>3, <3>4, <3>5, <4>1
    <3>7. \A n \in Nodes, t \in Shards : hosted_shards'[n][t].actor <= last_id'[n]
      <4>1. \A n \in Nodes, t \in Shards : hosted_shards[n][t].actor \in Nat
        BY SMT DEF Types, Entry
      <4>2. \A n \in Nodes, t \in Shards :
               \/ hosted_shards'[n][t] = hosted_shards[n][t]
               \/ n = h /\ hosted_shards'[n][t] = f
        BY <1>2, <3>2 DEF Types
      <4>3. QED
        BY SMT, <1>5, <3>2, <3>4, <3>5, <4>1, <4>2
    <3>8. \A n \in Nodes : \A i \in DOMAIN mailbox'[n] :
            mailbox'[n][i].type = "ShardReady" => mailbox'[n][i].actor <= last_id'[n]
      <4>1. ASSUME NEW n \in Nodes, NEW i \in DOMAIN mailbox'[n], mailbox'[n][i].type = "ShardReady"
            PROVE  mailbox'[n][i].actor <= last_id'[n]
        <5>1. mailbox' \in [Nodes -> Seq(Message)]
          BY <1>7, ReceiveMail DEF ShardAllocated
        <5>2. mailbox'[n][i] \in Message
          BY SMT, <5>1
        <5>3. mailbox'[n][i].actor \in Nat /\ mailbox'[n][i].actor <= last_id[n]
          BY <1>1, <4>1, <5>2, MessageFields
        <5>4. QED
          BY SMT, <3>4, <5>3
      <4>2. QED
        BY <4>1
    <3>9. \A t \in stopping' \cup answers' : t.actor <= last_id'[t.node]
      <4>1. \A t \in stopping \cup answers : t.actor \in Nat /\ t.node \in Nodes
        BY DEF Types, Task
      <4>2. QED
        BY SMT, <1>5, <2>1, <3>4, <4>1
    <3>10. AnsweredIsGone'
      <4>1. ASSUME NEW t \in answers, NEW a \in actors', a.node = t.node, a.shard = t.shard, a.id = t.actor
            PROVE  FALSE
        <5>1. a \notin actors
          BY <4>1 DEF Ids, AnsweredIsGone, Alive
        <5>2. a.id = last_id[h] + 1 /\ a.node = h
          BY SMT, <3>3, <5>1
        <5>3. t.actor \in Nat /\ t.actor <= last_id[h]
          BY <1>5, <4>1, <5>2 DEF Types, Task
        <5>4. QED
          BY SMT, <1>3, <4>1, <5>2, <5>3
      <4>2. QED
        BY <2>1, <4>1 DEF AnsweredIsGone, Alive
    <3>11. QED
      BY <3>6, <3>7, <3>8, <3>9, <3>10 DEF Ids, KnownIds
  <2>5. QED
    BY <2>3, <2>4
<1>8. CASE ShardAllocated(h) /\ m.node # h
  <2>1. AllocatedThere(h, s, m.node) /\ UNCHANGED <<stopping, answers, last_id>>
    BY <1>8 DEF ShardAllocated, AllocatedThere, m
  <2>2. \A n \in Nodes, t \in Shards : hosted_shards'[n][t].actor <= last_id[n]
    <3>1. hosted_shards' = [hosted_shards EXCEPT ![h][s] = NotHosted]
      BY <2>1 DEF AllocatedThere
    <3>2. QED
      BY <1>0, <1>2, <3>1, EntryIds DEF Ids
  <2>3. \A b \in actors' : \E a \in actors : b.node = a.node /\ b.shard = a.shard /\ b.id = a.id
    BY <2>1, SendStopTypes DEF AllocatedThere
  <2>4. QED
    BY <1>1, <1>5, <2>1, <2>2, <2>3, IdsKept
<1>9. CASE ShardReallocating(h)
  BY <1>1, <1>4, <1>5, <1>9, IdsKept DEF ShardReallocating
<1>10. CASE ShardReady(h)
  <2>1. m.actor \in Nat /\ m.actor <= last_id[h]
    BY <1>1, <1>10, MessageFields DEF ShardReady, Receive, Ids, KnownIds, m
  <2>2. PICK f \in Entry : f.actor = m.actor /\ hosted_shards' = [hosted_shards EXCEPT ![h][s] = f]
    BY <1>10, <2>1, EntryTypes DEF ShardReady, m
  <2>3. \A n \in Nodes, t \in Shards : hosted_shards'[n][t].actor <= last_id[n]
    BY <1>2, <2>1, <2>2, EntryIds DEF Ids
  <2>4. QED
    BY <1>1, <1>4, <1>5, <1>10, <2>3, IdsKept DEF ShardReady
<1>11. CASE StopShard(h)
  <2> DEFINE task == [node |-> h, shard |-> s, actor |-> e.actor, req |-> m.req, sent |-> FALSE]
  <2>1. \A n \in Nodes, t \in Shards : hosted_shards'[n][t].actor <= last_id[n]
    <3>1. \/ UNCHANGED hosted_shards
          \/ hosted_shards' = [hosted_shards EXCEPT ![h][s] = [NotHosted EXCEPT !.state = "Stopping"]]
      BY <1>11 DEF StopShard, m
    <3>2. QED
      BY <1>0, <1>2, <1>5, <3>1, EntryIds DEF Ids
  <2>2. stopping' \in {stopping, stopping \cup {task}}
    BY <1>11 DEF StopShard, m
  <2>3. task.node = h /\ task.actor <= last_id[h]
    BY <1>3
  <2> HIDE DEF task
  <2>4. UNCHANGED <<actors, last_id, answers>>
    BY <1>11 DEF StopShard
  <2>5. \A t \in stopping' \cup answers' : t.actor <= last_id[t.node]
    BY <1>5, <2>2, <2>3, <2>4
  <2>6. QED
    BY <1>1, <1>4, <2>1, <2>4, <2>5, IdsKept
<1>12. CASE ShardStopped(h)
  <2>1. \A n \in Nodes, t \in Shards : hosted_shards'[n][t].actor <= last_id[n]
    <3>1. hosted_shards' = [hosted_shards EXCEPT ![h][s] = NotHosted]
      BY <1>12 DEF ShardStopped, m
    <3>2. QED
      BY <1>0, <1>2, <3>1, EntryIds DEF Ids
  <2>2. QED
    BY <1>1, <1>4, <1>5, <1>12, <2>1, IdsKept DEF ShardStopped
<1>13. QED
  BY <1>6, <1>7, <1>8, <1>9, <1>10, <1>11, <1>12 DEF Handle

\* The steps of the shard actors and of the tasks, and the arrival of a message.
LEMMA TaskIds ==
    ASSUME Types, Ids,
           \/ \E d \in sending : DeliverLocal(d) \/ DeliverRemote(d) \/ NotFound(d)
           \/ \E a \in actors : ActorStarted(a) \/ ActorStopped(a)
           \/ \E t \in stopping : StopSent(t) \/ StopCompleted(t)
           \/ \E h \in Nodes : \E m \in Message : Arrive(h, m) /\ m.type # "ShardReady"
    PROVE  Ids'
<1>1. /\ \A t \in stopping \cup answers : t.actor <= last_id[t.node]
      /\ \A n \in Nodes, t \in Shards : hosted_shards[n][t].actor <= last_id[n]
      /\ \A h \in Nodes : \A i \in DOMAIN mailbox[h] :
            mailbox[h][i].type = "ShardReady" => mailbox[h][i].actor <= last_id[h]
      /\ \A a \in actors : \E b \in actors : b.node = a.node /\ b.shard = a.shard /\ b.id = a.id
  BY DEF Ids, KnownIds
<1>2. ASSUME NEW d \in sending, DeliverLocal(d) \/ DeliverRemote(d) \/ NotFound(d)
      PROVE  Ids'
  <2>1. UNCHANGED <<mailbox, hosted_shards, actors, last_id, stopping, answers>>
    BY <1>2 DEF DeliverLocal, DeliverRemote, NotFound, routing
  <2>2. QED
    BY <1>1, <2>1, IdsKept
<1>3. ASSUME NEW a \in actors, ActorStarted(a)
      PROVE  Ids'
  <2> DEFINE m == [type |-> "ShardReady", shard |-> a.shard, actor |-> a.id]
  <2>1. a \in Actor /\ a.id <= last_id[a.node]
    BY DEF Types, Ids, KnownIds
  <2>2. m \in Message /\ a.node \in Nodes
    BY <2>1 DEF Actor, Message
  <2>3. \A n \in Nodes : \A i \in DOMAIN mailbox'[n] :
          mailbox'[n][i].type = "ShardReady" => mailbox'[n][i].actor <= last_id[n]
    <3>1. mailbox' = [mailbox EXCEPT ![a.node] = Append(@, m)]
      BY <1>3 DEF ActorStarted
    <3>2. m.actor <= last_id[a.node]
      BY <2>1
    <3> HIDE DEF m
    <3>3. QED
      BY <2>2, <3>1, <3>2, AppendedIds DEF Ids
  <2>4. /\ [a EXCEPT !.phase = "running"].node = a.node /\ [a EXCEPT !.phase = "running"].shard = a.shard
        /\ [a EXCEPT !.phase = "running"].id = a.id
    BY <2>1 DEF Actor
  <2>5. \A b \in actors' : \E c \in actors : b.node = c.node /\ b.shard = c.shard /\ b.id = c.id
    BY <1>3, <2>4 DEF ActorStarted
  <2>6. QED
    BY <1>1, <1>3, <2>3, <2>5, IdsKept DEF ActorStarted, routing
<1>4. ASSUME NEW a \in actors, ActorStopped(a)
      PROVE  Ids'
  <2>1. actors' \subseteq actors /\ UNCHANGED <<mailbox, hosted_shards, last_id, stopping, answers>>
    BY <1>4 DEF ActorStopped, routing
  <2>2. QED
    BY <1>1, <2>1, IdsKept
<1>5. ASSUME NEW t \in stopping, StopSent(t)
      PROVE  Ids'
  <2>1. [t EXCEPT !.sent = TRUE].actor = t.actor /\ [t EXCEPT !.sent = TRUE].node = t.node
    BY DEF Types, Task
  <2>2. \A b \in actors' : \E a \in actors : b.node = a.node /\ b.shard = a.shard /\ b.id = a.id
    BY <1>5, SendStopTypes DEF StopSent
  <2>3. \A u \in stopping' \cup answers' : u.actor <= last_id[u.node]
    BY ZenonT(30), <1>1, <1>5, <2>1 DEF StopSent
  <2>4. QED
    BY <1>1, <1>5, <2>2, <2>3, IdsKept DEF StopSent, routing
<1>6. ASSUME NEW t \in stopping, StopCompleted(t)
      PROVE  Ids'
  <2> DEFINE m == [type |-> "ShardStopped", shard |-> t.shard]
  <2>1. m \in Message /\ t.node \in Nodes /\ m.type = "ShardStopped"
    BY DEF Types, Task, Message
  <2>2. \A n \in Nodes : \A i \in DOMAIN mailbox'[n] :
          mailbox'[n][i].type = "ShardReady" => mailbox'[n][i].actor <= last_id[n]
    <3>1. mailbox' = [mailbox EXCEPT ![t.node] = Append(@, m)]
      BY <1>6 DEF StopCompleted
    <3> HIDE DEF m
    <3>2. QED
      BY <2>1, <3>1, AppendedIds DEF Ids
  <2>3. \A u \in stopping' \cup answers' : u.actor <= last_id[u.node]
    BY <1>1, <1>6 DEF StopCompleted
  <2>4. \A u \in answers' : u \in answers \/ ~Alive(u.node, u.shard, u.actor)
    BY <1>6 DEF StopCompleted
  <2>5. QED
    BY <1>1, <1>6, <2>2, <2>3, <2>4, IdsKept DEF StopCompleted, routing
<1>7. ASSUME NEW h \in Nodes, NEW m \in Message, Arrive(h, m), m.type # "ShardReady"
      PROVE  Ids'
  <2>1. \A n \in Nodes : \A i \in DOMAIN mailbox'[n] :
          mailbox'[n][i].type = "ShardReady" => mailbox'[n][i].actor <= last_id[n]
    BY <1>7, AppendedIds DEF Ids, Arrive
  <2>2. QED
    BY <1>1, <1>7, <2>1, IdsKept DEF Arrive, routing
<1>8. QED
  BY <1>2, <1>3, <1>4, <1>5, <1>6, <1>7

-----------------------------------------------------------------------------
(* Wake-ups: what a Starting entry waits for is still to come. *)

IsReadyFor(m, s) == m.type = "ShardReady" /\ m.shard = s
ReadyComing(h, s) == \E i \in DOMAIN mailbox[h] : IsReadyFor(mailbox[h][i], s)
StillStarting(h, s, id) ==
    \E a \in actors : a.node = h /\ a.shard = s /\ a.id = id /\ a.phase = "starting"

\* BufferHasWakeup in these terms.
LEMMA WakeupByParts ==
    BufferHasWakeup <=>
        \A h \in Nodes, s \in Shards :
            hosted_shards[h][s].state = "Starting" =>
                StillStarting(h, s, hosted_shards[h][s].actor) \/ ReadyComing(h, s)
BY DEF BufferHasWakeup, StillStarting, ReadyComing, IsReadyFor

\* A ShardReady stays in its mailbox until it is handled.
LEMMA ReadyKept ==
    ASSUME Types, NEW h \in Nodes, NEW s \in Shards, ReadyComing(h, s),
           \/ UNCHANGED mailbox
           \/ \E n \in Nodes, m \in Message : mailbox' = [mailbox EXCEPT ![n] = Append(@, m)]
           \/ \E n \in Nodes : \E type : /\ Receive(n, type)
                                         /\ n = h => ~IsReadyFor(Head(mailbox[n]), s)
    PROVE  ReadyComing(h, s)'
<1>1. PICK i \in DOMAIN mailbox[h] : IsReadyFor(mailbox[h][i], s)
  BY DEF ReadyComing
<1>2. CASE UNCHANGED mailbox
  BY <1>2 DEF ReadyComing
<1>3. ASSUME NEW n \in Nodes, NEW m \in Message, mailbox' = [mailbox EXCEPT ![n] = Append(@, m)]
      PROVE  ReadyComing(h, s)'
  <2>1. i \in DOMAIN mailbox'[h] /\ mailbox'[h][i] = mailbox[h][i]
    BY <1>3, AppendMail
  <2>2. QED
    BY <1>1, <2>1 DEF ReadyComing
<1>4. ASSUME NEW n \in Nodes, NEW type, Receive(n, type), n = h => ~IsReadyFor(Head(mailbox[n]), s)
      PROVE  ReadyComing(h, s)'
  <2>1. CASE n # h
    BY SMT, <1>1, <1>4, <2>1, ReceiveMail DEF ReadyComing
  <2>2. CASE n = h
    <3>1. i # 1
      BY SMT, <1>1, <1>4, <2>2, ReceiveMail
    <3>2. i - 1 \in DOMAIN mailbox'[h] /\ mailbox'[h][i - 1] = mailbox[h][i]
      BY <1>4, <2>2, <3>1, ReceiveMail
    <3>3. QED
      BY <1>1, <3>2 DEF ReadyComing
  <2>3. QED
    BY <2>1, <2>2
<1>5. QED
  BY <1>2, <1>3, <1>4

\* A ShardReady is put in a mailbox.
LEMMA AppendedReady ==
    ASSUME Types, NEW h \in Nodes, NEW s, NEW m \in Message, IsReadyFor(m, s),
           mailbox' = [mailbox EXCEPT ![h] = Append(@, m)]
    PROVE  ReadyComing(h, s)'
<1>1. PICK k \in DOMAIN mailbox'[h] : mailbox'[h][k] = m
  BY AppendMail
<1>2. QED
  BY <1>1 DEF ReadyComing, IsReadyFor

\* A step that lets a waiting entry be, its actor start and its ShardReady come.
LEMMA WakeupKept ==
    ASSUME BufferHasWakeup, NEW h \in Nodes, NEW s \in Shards,
           hosted_shards'[h][s].state = hosted_shards[h][s].state,
           hosted_shards'[h][s].actor = hosted_shards[h][s].actor,
           \A id : StillStarting(h, s, id) => StillStarting(h, s, id)' \/ ReadyComing(h, s)',
           ReadyComing(h, s) => ReadyComing(h, s)',
           hosted_shards'[h][s].state = "Starting"
    PROVE  StillStarting(h, s, hosted_shards[h][s].actor)' \/ ReadyComing(h, s)'
<1>1. StillStarting(h, s, hosted_shards[h][s].actor) \/ ReadyComing(h, s)
  BY WakeupByParts
<1>2. QED
  BY <1>1

\* The handlers of a host.
LEMMA HandleWakeup ==
    ASSUME Types, BufferHasWakeup, NEW h \in Nodes, Handle(h)
    PROVE  BufferHasWakeup'
<1> DEFINE m == Head(mailbox[h])
           e == hosted_shards[h][m.shard]
<1>1. m \in Message
  BY ReceiveMail DEF Handle, EntityRequest, ShardAllocated, ShardReallocating, ShardReady, StopShard,
                     ShardStopped
<1>2. m.shard \in Shards
  BY <1>1, MessageFields
<1>3. e \in Entry /\ pending[h][m.shard] \in SUBSET Requests
  BY <1>2 DEF Types, pending
<1> SUFFICES ASSUME NEW n \in Nodes, NEW s \in Shards, hosted_shards'[n][s].state = "Starting"
             PROVE  StillStarting(n, s, hosted_shards[n][s].actor)' \/ ReadyComing(n, s)'
  BY SMT DEF BufferHasWakeup, StillStarting, ReadyComing, IsReadyFor
<1> HIDE DEF m
<1>4. CASE ShardReady(h)
  <2>1. /\ hosted_shards' = [hosted_shards EXCEPT ![h][m.shard] =
                               [state |-> "Ready", actor |-> m.actor, buffer |-> {}]]
        /\ UNCHANGED actors /\ Receive(h, "ShardReady")
    BY <1>4 DEF ShardReady, m
  <2>2. ~(n = h /\ s = m.shard) /\ hosted_shards'[n][s] = hosted_shards[n][s]
    BY <1>2, <2>1 DEF Types
  <2>3. ReadyComing(n, s) => ReadyComing(n, s)'
    BY <2>1, <2>2, ReadyKept DEF IsReadyFor, m
  <2>4. QED
    BY <2>1, <2>2, <2>3, WakeupKept DEF StillStarting
<1>5. CASE ~ShardReady(h)
  <2>1. PICK type : Receive(h, type) /\ type # "ShardReady"
    <3>1. \/ Receive(h, "EntityRequest") \/ Receive(h, "ShardAllocated")
          \/ Receive(h, "ShardReallocating") \/ Receive(h, "StopShard") \/ Receive(h, "ShardStopped")
      BY <1>5 DEF Handle, EntityRequest, ShardAllocated, ShardReallocating, StopShard, ShardStopped
    <3>2. QED
      BY SMT, <3>1
  <2>2. ReadyComing(n, s) => ReadyComing(n, s)'
    BY SMT, <2>1, ReceiveMail, ReadyKept DEF IsReadyFor
  <2>3. \/ UNCHANGED actors
        \/ ShardAllocated(h) /\ m.node = h /\ e = NotHosted /\ new_shard(h, m.shard)
        \/ \E x, y, z : SendStop(x, y, z)
    BY <1>5 DEF Handle, EntityRequest, ShardAllocated, ShardReallocating, StopShard, ShardStopped,
                AllocatedHere, AllocatedThere, m
  <2>4. \A id : StillStarting(n, s, id) => StillStarting(n, s, id)'
    <3>1. \A a \in actors : \E b \in actors' : /\ b.node = a.node /\ b.shard = a.shard
                                               /\ b.id = a.id /\ b.phase = a.phase
      BY <2>3, SendStopTypes DEF new_shard
    <3>2. QED
      BY ZenonT(30), <3>1 DEF StillStarting
  <2>5. CASE /\ hosted_shards'[n][s].state = hosted_shards[n][s].state
             /\ hosted_shards'[n][s].actor = hosted_shards[n][s].actor
    BY <2>2, <2>4, <2>5, WakeupKept
  <2>6. ASSUME NEW f \in Entry, hosted_shards' = [hosted_shards EXCEPT ![h][m.shard] = f],
               f.state = "Starting" => f.state = e.state /\ f.actor = e.actor
        PROVE  /\ hosted_shards'[n][s].state = hosted_shards[n][s].state
               /\ hosted_shards'[n][s].actor = hosted_shards[n][s].actor
    BY <1>2, <2>6 DEF Types
  <2>7. CASE ShardAllocated(h) /\ m.node = h /\ e = NotHosted
    <3> DEFINE id == last_id[h] + 1
    <3>1. new_shard(h, m.shard) /\ id \in Nat /\ AllocatedHere(h, m.shard)
      BY SMT, <2>7 DEF ShardAllocated, AllocatedHere, m, Types
    <3>2. PICK new \in Entry : new = [state |-> "Starting", actor |-> id, buffer |-> {}]
      BY <3>1, EntryTypes
    <3>3. handle_request(h, m.shard, new, pending[h][m.shard])
      BY <2>7, <3>1, <3>2 DEF AllocatedHere
    <3>4. PICK f \in Entry :
            f.actor = id /\ hosted_shards' = [hosted_shards EXCEPT ![h][m.shard] = f]
      BY SMT, <1>2, <1>3, <3>2, <3>3, HandleRequestEntry
    <3>5. CASE n = h /\ s = m.shard
      <4>1. hosted_shards'[n][s].actor = id
        BY <3>4, <3>5 DEF Types
      <4>2. [node |-> h, shard |-> s, id |-> id, phase |-> "starting", stop |-> FALSE] \in actors'
        BY <3>1, <3>5 DEF new_shard
      <4>3. QED
        BY <3>5, <4>1, <4>2 DEF StillStarting
    <3>6. CASE ~(n = h /\ s = m.shard)
      <4>1. hosted_shards'[n][s] = hosted_shards[n][s]
        BY <1>2, <3>4, <3>6 DEF Types
      <4>2. QED
        BY <2>5, <4>1
    <3>7. QED
      BY <3>5, <3>6
  <2>8. CASE ~(ShardAllocated(h) /\ m.node = h /\ e = NotHosted)
    <3>1. CASE UNCHANGED hosted_shards
      BY <2>5, <3>1
    <3>2. CASE \E R \in SUBSET Requests : handle_request(h, m.shard, e, R)
      BY SMT, <1>2, <1>3, <2>5, <2>6, <3>2, HandleRequestEntry
    <3>3. CASE \/ hosted_shards' = [hosted_shards EXCEPT ![h][m.shard] = NotHosted]
               \/ hosted_shards' = [hosted_shards EXCEPT ![h][m.shard] =
                                      [NotHosted EXCEPT !.state = "Stopping"]]
      BY <2>5, <2>6, <3>3, EntryTypes
    <3>4. CASE EntityRequest(h)
      <4>1. {m.request} \in SUBSET Requests
        BY <1>1, <3>4, MessageFields DEF EntityRequest, Receive, m
      <4>2. handle_request(h, m.shard, e, {m.request}) \/ UNCHANGED hosted_shards
        BY <3>4 DEF EntityRequest, m
      <4>3. QED
        BY <3>1, <3>2, <4>1, <4>2
    <3>5. CASE ShardAllocated(h) /\ m.node = h
      <4>1. handle_request(h, m.shard, e, pending[h][m.shard])
        BY <2>8, <3>5 DEF ShardAllocated, AllocatedHere, m
      <4>2. QED
        BY <1>3, <3>2, <4>1
    <3>6. CASE ShardAllocated(h) /\ m.node # h
      BY <3>3, <3>6 DEF ShardAllocated, AllocatedThere, m
    <3>7. CASE ShardReallocating(h)
      BY <3>1, <3>7 DEF ShardReallocating
    <3>8. CASE StopShard(h) \/ ShardStopped(h)
      BY <3>1, <3>3, <3>8 DEF StopShard, ShardStopped, m
    <3>9. QED
      BY <1>5, <3>4, <3>5, <3>6, <3>7, <3>8 DEF Handle
  <2>9. QED
    BY <2>7, <2>8
<1>6. QED
  BY <1>4, <1>5

\* The steps of the shard actors and of the tasks, and the arrival of a message.
LEMMA TaskWakeup ==
    ASSUME Types, BufferHasWakeup,
           \/ \E d \in sending : DeliverLocal(d) \/ DeliverRemote(d) \/ NotFound(d)
           \/ \E a \in actors : ActorStarted(a) \/ ActorStopped(a)
           \/ \E t \in stopping : StopSent(t) \/ StopCompleted(t)
           \/ \E h \in Nodes : \E m \in Message : Arrive(h, m)
    PROVE  BufferHasWakeup'
<1>1. UNCHANGED hosted_shards
  BY DEF DeliverLocal, DeliverRemote, NotFound, ActorStarted, ActorStopped, StopSent, StopCompleted,
         Arrive, routing
<1> SUFFICES ASSUME NEW n \in Nodes, NEW s \in Shards, hosted_shards'[n][s].state = "Starting"
             PROVE  StillStarting(n, s, hosted_shards[n][s].actor)' \/ ReadyComing(n, s)'
  BY SMT DEF BufferHasWakeup, StillStarting, ReadyComing, IsReadyFor
<1>2. SUFFICES /\ \A id : StillStarting(n, s, id) => StillStarting(n, s, id)' \/ ReadyComing(n, s)'
               /\ ReadyComing(n, s) => ReadyComing(n, s)'
  BY <1>1, WakeupKept
<1>3. ASSUME NEW d \in sending, DeliverLocal(d) \/ DeliverRemote(d) \/ NotFound(d)
      PROVE  /\ \A id : StillStarting(n, s, id) => StillStarting(n, s, id)'
             /\ ReadyComing(n, s) => ReadyComing(n, s)'
  BY <1>3 DEF DeliverLocal, DeliverRemote, NotFound, StillStarting, ReadyComing
<1>4. ASSUME NEW a \in actors, ActorStarted(a)
      PROVE  /\ \A id : StillStarting(n, s, id) => StillStarting(n, s, id)' \/ ReadyComing(n, s)'
             /\ ReadyComing(n, s) => ReadyComing(n, s)'
  <2> DEFINE m == [type |-> "ShardReady", shard |-> a.shard, actor |-> a.id]
  <2>1. m \in Message /\ a.node \in Nodes /\ IsReadyFor(m, a.shard)
    BY DEF Types, Actor, Message, IsReadyFor
  <2>2. mailbox' = [mailbox EXCEPT ![a.node] = Append(@, m)]
    BY <1>4 DEF ActorStarted
  <2> HIDE DEF m
  <2>3. ReadyComing(n, s) => ReadyComing(n, s)'
    BY <2>1, <2>2, ReadyKept
  <2>4. ReadyComing(a.node, a.shard)'
    BY <2>1, <2>2, AppendedReady
  <2>5. ASSUME NEW id, StillStarting(n, s, id)
        PROVE  StillStarting(n, s, id)' \/ ReadyComing(n, s)'
    <3>1. PICK b \in actors : b.node = n /\ b.shard = s /\ b.id = id /\ b.phase = "starting"
      BY <2>5 DEF StillStarting
    <3>2. CASE b = a
      BY <2>4, <3>1, <3>2
    <3>3. CASE b # a
      BY <1>4, <3>1, <3>3 DEF ActorStarted, StillStarting
    <3>4. QED
      BY <3>2, <3>3
  <2>6. QED
    BY <2>3, <2>5
<1>5. ASSUME NEW a \in actors, ActorStopped(a)
      PROVE  /\ \A id : StillStarting(n, s, id) => StillStarting(n, s, id)'
             /\ ReadyComing(n, s) => ReadyComing(n, s)'
  BY <1>5 DEF ActorStopped, StillStarting, ReadyComing
<1>6. ASSUME NEW t \in stopping, StopSent(t)
      PROVE  /\ \A id : StillStarting(n, s, id) => StillStarting(n, s, id)'
             /\ ReadyComing(n, s) => ReadyComing(n, s)'
  BY SMT, <1>6, SendStopTypes DEF StopSent, StillStarting, ReadyComing
<1>7. ASSUME NEW t \in stopping, StopCompleted(t)
      PROVE  /\ \A id : StillStarting(n, s, id) => StillStarting(n, s, id)'
             /\ ReadyComing(n, s) => ReadyComing(n, s)'
  <2> DEFINE m == [type |-> "ShardStopped", shard |-> t.shard]
  <2>1. m \in Message /\ t.node \in Nodes
    BY DEF Types, Task, Message
  <2>2. mailbox' = [mailbox EXCEPT ![t.node] = Append(@, m)] /\ UNCHANGED actors
    BY <1>7 DEF StopCompleted
  <2> HIDE DEF m
  <2>3. QED
    BY <2>1, <2>2, ReadyKept DEF StillStarting
<1>8. ASSUME NEW h \in Nodes, NEW m \in Message, Arrive(h, m)
      PROVE  /\ \A id : StillStarting(n, s, id) => StillStarting(n, s, id)'
             /\ ReadyComing(n, s) => ReadyComing(n, s)'
  BY <1>8, ReadyKept DEF Arrive, StillStarting
<1>9. QED
  BY <1>3, <1>4, <1>5, <1>6, <1>7, <1>8

-----------------------------------------------------------------------------
(* Places: what each kind of step does to the sets. *)

\* A handled request leaves the mailbox; other messages take none with them.
LEMMA ReceivedRequest ==
    ASSUME Types, MailedOnce, NEW h \in Nodes, NEW type, Receive(h, type)
    PROVE  /\ MailedOnce'
           /\ type # "EntityRequest" => Mailed' = Mailed
           /\ type = "EntityRequest" => /\ Mailed' = Mailed \ {Head(mailbox[h]).request}
                                        /\ Head(mailbox[h]).request \in Mailed
<1>1. MailedOnce'
  <2>1. SUFFICES ASSUME NEW r \in Requests, NEW n \in Nodes, NEW k \in Nodes,
                        NEW i \in DOMAIN mailbox'[n], NEW j \in DOMAIN mailbox'[k],
                        IsRequest(mailbox'[n][i], r), IsRequest(mailbox'[k][j], r)
                 PROVE  n = k /\ i = j
    BY SMT DEF MailedOnce, IsRequest
  <2>2. PICK x \in DOMAIN mailbox[n] :
          mailbox[n][x] = mailbox'[n][i] /\ (IF n = h THEN i \in Nat /\ x = i + 1 ELSE x = i)
    BY SMT, MovedUp
  <2>3. PICK y \in DOMAIN mailbox[k] :
          mailbox[k][y] = mailbox'[k][j] /\ (IF k = h THEN j \in Nat /\ y = j + 1 ELSE y = j)
    BY SMT, MovedUp
  <2>4. n = k /\ x = y
    <3>1. IsRequest(mailbox[n][x], r) /\ IsRequest(mailbox[k][y], r)
      BY <2>1, <2>2, <2>3 DEF IsRequest
    <3>2. QED
      BY <3>1 DEF MailedOnce
  <2>5. QED
    BY SMT, <2>2, <2>3, <2>4
<1>2. ASSUME NEW r \in Requests, r \in Mailed'
      PROVE  r \in Mailed /\ (type = "EntityRequest" => r # Head(mailbox[h]).request)
  <2>0. PICK n \in Nodes : \E j \in DOMAIN mailbox'[n] : IsRequest(mailbox'[n][j], r)
    BY <1>2 DEF Mailed, IsRequest
  <2>1. PICK i \in DOMAIN mailbox'[n] : IsRequest(mailbox'[n][i], r)
    BY <2>0
  <2>2. PICK x \in DOMAIN mailbox[n] :
          mailbox[n][x] = mailbox'[n][i] /\ (n = h => x # 1)
    BY SMT, ReceiveMail
  <2>3. r \in Mailed
    BY <2>1, <2>2 DEF Mailed
  <2>4. ASSUME type = "EntityRequest", r = Head(mailbox[h]).request
        PROVE  FALSE
    <3>1. 1 \in DOMAIN mailbox[h] /\ IsRequest(mailbox[h][1], r)
      BY SMT, <2>4, ReceiveMail DEF IsRequest
    <3>2. QED
      BY <2>1, <2>2, <3>1 DEF MailedOnce
  <2>5. QED
    BY <2>3, <2>4
<1>3. ASSUME NEW r \in Mailed, ~(type = "EntityRequest" /\ r = Head(mailbox[h]).request)
      PROVE  r \in Mailed'
  <2>0. PICK n \in Nodes : \E j \in DOMAIN mailbox[n] : IsRequest(mailbox[n][j], r)
    BY DEF Mailed
  <2>1. PICK i \in DOMAIN mailbox[n] : IsRequest(mailbox[n][i], r)
    BY <2>0
  <2>2. n = h => i # 1
    BY SMT, <1>3, <2>1, ReceiveMail DEF IsRequest
  <2>3. PICK x \in DOMAIN mailbox'[n] : mailbox'[n][x] = mailbox[n][i]
    BY SMT, <2>2, ReceiveMail
  <2>4. QED
    BY <2>1, <2>3 DEF Mailed, IsRequest
<1>4. type = "EntityRequest" => Head(mailbox[h]).request \in Mailed
  <2>1. SUFFICES ASSUME type = "EntityRequest"
                 PROVE  Head(mailbox[h]).request \in Mailed
    OBVIOUS
  <2>2. /\ Head(mailbox[h]).request \in Requests
        /\ 1 \in DOMAIN mailbox[h] /\ IsRequest(mailbox[h][1], Head(mailbox[h]).request)
    BY SMT, <2>1, ReceiveMail, MessageFields DEF IsRequest
  <2>3. QED
    BY <2>2 DEF Mailed
<1>5. Mailed \subseteq Requests /\ Mailed' \subseteq Requests
  BY DEF Mailed
<1>6. QED
  BY <1>1, <1>2, <1>3, <1>4, <1>5

\* A message is put in a mailbox: a request that is in none, or another message.
LEMMA AppendedRequest ==
    ASSUME Types, MailedOnce, NEW h \in Nodes, NEW m \in Message,
           mailbox' = [mailbox EXCEPT ![h] = Append(@, m)],
           m.type = "EntityRequest" => m.request \notin Mailed
    PROVE  /\ MailedOnce'
           /\ Mailed' = IF m.type = "EntityRequest" THEN Mailed \cup {m.request} ELSE Mailed
<1>1. PICK k \in DOMAIN mailbox'[h] :
        /\ mailbox'[h][k] = m /\ k \notin DOMAIN mailbox[h]
        /\ \A i \in DOMAIN mailbox'[h] : i # k => i \in DOMAIN mailbox[h]
  BY ZenonT(30), AppendMail
<1>2. /\ \A i \in DOMAIN mailbox[h] : i \in DOMAIN mailbox'[h] /\ mailbox'[h][i] = mailbox[h][i]
      /\ \A n \in Nodes : n # h => mailbox'[n] = mailbox[n]
  BY AppendMail
<1>3. ASSUME NEW r \in Requests, NEW n \in Nodes, NEW i \in DOMAIN mailbox'[n],
             IsRequest(mailbox'[n][i], r)
      PROVE  \/ n = h /\ i = k /\ m.type = "EntityRequest" /\ r = m.request
             \/ i \in DOMAIN mailbox[n] /\ IsRequest(mailbox[n][i], r) /\ r \in Mailed
  <2>1. CASE n = h /\ i = k
    BY <1>1, <1>3, <2>1 DEF IsRequest
  <2>2. CASE ~(n = h /\ i = k)
    <3>1. i \in DOMAIN mailbox[n] /\ mailbox'[n][i] = mailbox[n][i]
      BY <1>1, <1>2, <2>2
    <3>2. QED
      BY <1>3, <3>1 DEF IsRequest, Mailed
  <2>3. QED
    BY <2>1, <2>2
<1>4. MailedOnce'
  <2>1. SUFFICES ASSUME NEW r \in Requests, NEW n \in Nodes, NEW p \in Nodes,
                        NEW i \in DOMAIN mailbox'[n], NEW j \in DOMAIN mailbox'[p],
                        IsRequest(mailbox'[n][i], r), IsRequest(mailbox'[p][j], r)
                 PROVE  n = p /\ i = j
    BY SMT DEF MailedOnce, IsRequest
  <2>2. \/ n = h /\ i = k /\ m.type = "EntityRequest" /\ r = m.request
        \/ i \in DOMAIN mailbox[n] /\ IsRequest(mailbox[n][i], r) /\ r \in Mailed
    BY <1>3, <2>1
  <2>3. \/ p = h /\ j = k /\ m.type = "EntityRequest" /\ r = m.request
        \/ j \in DOMAIN mailbox[p] /\ IsRequest(mailbox[p][j], r) /\ r \in Mailed
    BY <1>3, <2>1
  <2>4. QED
    BY <2>2, <2>3 DEF MailedOnce
<1>5. ASSUME NEW r \in Requests, r \in Mailed'
      PROVE  r \in Mailed \/ (m.type = "EntityRequest" /\ r = m.request)
  <2>0. PICK n \in Nodes : \E j \in DOMAIN mailbox'[n] : IsRequest(mailbox'[n][j], r)
    BY <1>5 DEF Mailed, IsRequest
  <2>1. PICK i \in DOMAIN mailbox'[n] : IsRequest(mailbox'[n][i], r)
    BY <2>0
  <2>2. QED
    BY <1>3, <2>1
<1>6. ASSUME NEW r \in Mailed
      PROVE  r \in Mailed'
  <2>0. PICK n \in Nodes : \E j \in DOMAIN mailbox[n] : IsRequest(mailbox[n][j], r)
    BY DEF Mailed
  <2>1. PICK i \in DOMAIN mailbox[n] : IsRequest(mailbox[n][i], r)
    BY <2>0
  <2>2. i \in DOMAIN mailbox'[n] /\ mailbox'[n][i] = mailbox[n][i]
    BY <1>2
  <2>3. QED
    BY <2>1, <2>2 DEF Mailed, IsRequest
<1>7. m.type = "EntityRequest" => m.request \in Mailed'
  <2>1. ASSUME m.type = "EntityRequest"
        PROVE  m.request \in Mailed'
    <3>1. m.request \in Requests /\ IsRequest(mailbox'[h][k], m.request)
      BY <1>1, <2>1, MessageFields DEF IsRequest
    <3>2. QED
      BY <3>1 DEF Mailed, IsRequest
  <2>2. QED
    BY <2>1
<1>8. Mailed \subseteq Requests /\ Mailed' \subseteq Requests
  BY DEF Mailed
<1>9. QED
  BY <1>4, <1>5, <1>6, <1>7, <1>8

\* The buffer for a shard without allocation is replaced.
LEMMA PendedChanges ==
    ASSUME Types, PendedOnce, NEW h \in Nodes, NEW s \in Shards, NEW R \in SUBSET Requests,
           requests_pending_shard_allocation' = [pending EXCEPT ![h][s] = R],
           \A r \in R : r \in pending[h][s] \/ r \notin Pended
    PROVE  PendedOnce' /\ Pended' = (Pended \ pending[h][s]) \cup R
<1>1. \A n \in Nodes, t \in Shards :
        pending'[n][t] = IF n = h /\ t = s THEN R ELSE pending[n][t]
  BY DEF Types, pending
<1>2. \A n \in Nodes, t \in Shards : pending[n][t] \subseteq Requests
  BY DEF Types, pending
<1>3. \A r \in Requests, n \in Nodes, t \in Shards : r \in pending[n][t] => r \in Pended
  BY DEF Pended
<1>4. PendedOnce'
  <2>1. SUFFICES ASSUME NEW r \in Requests, NEW n \in Nodes, NEW m \in Nodes,
                        NEW x \in Shards, NEW y \in Shards,
                        r \in pending'[n][x], r \in pending'[m][y]
                 PROVE  n = m /\ x = y
    BY DEF PendedOnce
  <2>2. QED
    BY SMT, <1>1, <1>3, <2>1 DEF PendedOnce
<1>5. ASSUME NEW r \in Requests
      PROVE  r \in Pended' <=> (r \in Pended /\ r \notin pending[h][s]) \/ r \in R
  BY SMT, <1>1 DEF Pended, PendedOnce
<1>6. Pended \subseteq Requests /\ Pended' \subseteq Requests
  BY DEF Pended
<1>7. QED
  BY <1>4, <1>5, <1>6

\* The entry of a shard, and what it buffers, is replaced.
LEMMA BufferedChanges ==
    ASSUME Types, BufferedOnce, NEW h \in Nodes, NEW s \in Shards, NEW f \in Entry,
           hosted_shards' = [hosted_shards EXCEPT ![h][s] = f],
           \A r \in f.buffer : r \in hosted_shards[h][s].buffer \/ r \notin Buffered
    PROVE  /\ BufferedOnce'
           /\ Buffered' = (Buffered \ hosted_shards[h][s].buffer) \cup f.buffer
           /\ hosted_shards[h][s].buffer \subseteq Buffered
<1>1. \A n \in Nodes, t \in Shards :
        hosted_shards'[n][t] = IF n = h /\ t = s THEN f ELSE hosted_shards[n][t]
  BY DEF Types
<1>2. /\ \A n \in Nodes, t \in Shards : hosted_shards[n][t].buffer \subseteq Requests
      /\ f.buffer \subseteq Requests
  BY SMT DEF Types, Entry
<1>3. \A r \in Requests, n \in Nodes, t \in Shards : r \in hosted_shards[n][t].buffer => r \in Buffered
  BY DEF Buffered
<1>4. BufferedOnce'
  <2>1. SUFFICES ASSUME NEW r \in Requests, NEW n \in Nodes, NEW m \in Nodes,
                        NEW x \in Shards, NEW y \in Shards,
                        r \in hosted_shards'[n][x].buffer, r \in hosted_shards'[m][y].buffer
                 PROVE  n = m /\ x = y
    BY SMT DEF BufferedOnce
  <2>2. QED
    BY SMT, <1>1, <1>3, <2>1 DEF BufferedOnce
<1>5. ASSUME NEW r \in Requests
      PROVE  r \in Buffered' <=> (r \in Buffered /\ r \notin hosted_shards[h][s].buffer) \/ r \in f.buffer
  BY SMT, <1>1 DEF Buffered, BufferedOnce
<1>6. Buffered \subseteq Requests /\ Buffered' \subseteq Requests
  BY DEF Buffered
<1>7. QED
  BY <1>2, <1>3, <1>4, <1>5, <1>6

Deliveries(n, s, id, R) == {[request |-> r, node |-> n, shard |-> s, actor |-> id] : r \in R}

\* Requests that are not on their way are sent.
LEMMA SentMore ==
    ASSUME SentOnce, NEW R \in SUBSET Requests, NEW n, NEW s, NEW id, R \cap Sent = {},
           sending' = sending \cup Deliveries(n, s, id, R)
    PROVE  SentOnce' /\ Sent' = Sent \cup R
<1>1. \A d \in sending' : d \in sending \/ \E r \in R :
        d = [request |-> r, node |-> n, shard |-> s, actor |-> id]
  BY DEF Deliveries
<1>2. \A r \in R : /\ [request |-> r, node |-> n, shard |-> s, actor |-> id] \in sending'
                   /\ [request |-> r, node |-> n, shard |-> s, actor |-> id].request = r
  BY DEF Deliveries
<1>3. SentOnce'
  BY SMT, <1>1 DEF SentOnce, Sent
<1>4. \A r \in Requests : r \in Sent' <=> r \in Sent \/ r \in R
  <2>1. ASSUME NEW r \in Requests, r \in Sent'
        PROVE  r \in Sent \/ r \in R
    BY SMT, <1>1, <2>1 DEF Sent
  <2>2. ASSUME NEW r \in Requests, r \in Sent \/ r \in R
        PROVE  r \in Sent'
    BY <1>2, <2>2 DEF Sent
  <2>3. QED
    BY <2>1, <2>2
<1>5. Sent \subseteq Requests /\ Sent' \subseteq Requests
  BY DEF Sent
<1>6. QED
  BY <1>3, <1>4, <1>5

\* A request arrives.
LEMMA SentLess ==
    ASSUME Types, SentOnce, NEW d \in sending, sending' = sending \ {d}
    PROVE  SentOnce' /\ Sent' = Sent \ {d.request} /\ d.request \in Sent
<1>1. d.request \in Requests
  BY DEF Types, Delivery
<1>2. SentOnce'
  BY DEF SentOnce
<1>3. \A r \in Requests : r \in Sent' <=> r \in Sent /\ r # d.request
  BY DEF Sent, SentOnce
<1>4. Sent \subseteq Requests /\ Sent' \subseteq Requests /\ d.request \in Sent
  BY <1>1 DEF Sent
<1>5. QED
  BY <1>2, <1>3, <1>4

\* handle_request puts the requests in one place: the entry's buffer, on their
\* way, or with those that are dropped.
LEMMA HandleRequestPlaces ==
    ASSUME Types, BufferedOnce, SentOnce, NEW h \in Nodes, NEW s \in Shards, NEW e \in Entry,
           NEW R \in SUBSET Requests, R \cap Buffered = {}, R \cap Sent = {},
           e.buffer = hosted_shards[h][s].buffer,
           handle_request(h, s, e, R)
    PROVE  /\ BufferedOnce' /\ SentOnce'
           /\ \/ Buffered' = Buffered \cup R /\ Sent' = Sent /\ dropped' = dropped
              \/ Buffered' = Buffered /\ Sent' = Sent \cup R /\ dropped' = dropped
              \/ Buffered' = Buffered /\ Sent' = Sent /\ dropped' = dropped \cup R
<1>1. hosted_shards[h][s].buffer \subseteq Buffered
  BY DEF Buffered, Types, Entry
<1>2. UNCHANGED sending => SentOnce' /\ Sent' = Sent
  BY DEF SentOnce, Sent
<1>3. CASE e.state = "Starting"
  <2>1. PICK f \in Entry : f = [e EXCEPT !.buffer = @ \cup R] /\ f.buffer = e.buffer \cup R
    <3>1. /\ [e EXCEPT !.buffer = @ \cup R] \in Entry
          /\ [e EXCEPT !.buffer = @ \cup R].buffer = e.buffer \cup R
      BY DEF Entry
    <3>2. QED
      BY <3>1
  <2>2. /\ hosted_shards' = [hosted_shards EXCEPT ![h][s] = f]
        /\ UNCHANGED <<sending, dropped>>
    BY <1>3, <2>1 DEF handle_request
  <2>3. BufferedOnce' /\ Buffered' = (Buffered \ hosted_shards[h][s].buffer) \cup f.buffer
    <3>1. \A r \in f.buffer : r \in hosted_shards[h][s].buffer \/ r \notin Buffered
      BY <2>1
    <3>2. QED
      BY <2>1, <2>2, <3>1, BufferedChanges
  <2>4. Buffered' = Buffered \cup R
    BY <1>1, <2>1, <2>3
  <2>5. QED
    BY <1>2, <2>2, <2>3, <2>4
<1>4. CASE e.state # "Starting"
  <2>1. hosted_shards' = [hosted_shards EXCEPT ![h][s] = e]
    BY <1>4 DEF handle_request
  <2>2. BufferedOnce' /\ Buffered' = (Buffered \ hosted_shards[h][s].buffer) \cup e.buffer
    BY <2>1, BufferedChanges
  <2>3. Buffered' = Buffered
    BY <1>1, <2>2
  <2>4. CASE e.state = "Ready"
    <3>1. sending' = sending \cup Deliveries(h, s, e.actor, R) /\ UNCHANGED dropped
      BY <2>4 DEF handle_request, Deliveries
    <3>2. SentOnce' /\ Sent' = Sent \cup R
      BY <3>1, SentMore
    <3>3. QED
      BY <2>2, <2>3, <3>1, <3>2
  <2>5. CASE e.state = "Stopping"
    <3>1. dropped' = dropped \cup R /\ UNCHANGED sending
      BY <2>5 DEF handle_request
    <3>2. QED
      BY <1>2, <2>2, <2>3, <3>1
  <2>6. QED
    BY <1>4, <2>4, <2>5 DEF handle_request
<1>5. QED
  BY <1>3, <1>4

\* The sets that a step leaves alone.
LEMMA PlacesUnchanged ==
    /\ UNCHANGED mailbox /\ MailedOnce => MailedOnce' /\ Mailed' = Mailed
    /\ UNCHANGED requests_pending_shard_allocation /\ PendedOnce => PendedOnce' /\ Pended' = Pended
    /\ UNCHANGED hosted_shards /\ BufferedOnce => BufferedOnce' /\ Buffered' = Buffered
    /\ UNCHANGED sending /\ SentOnce => SentOnce' /\ Sent' = Sent
<1>1. UNCHANGED mailbox /\ MailedOnce => MailedOnce' /\ Mailed' = Mailed
  BY DEF MailedOnce, Mailed
<1>2. UNCHANGED requests_pending_shard_allocation /\ PendedOnce => PendedOnce' /\ Pended' = Pended
  BY DEF PendedOnce, Pended, pending
<1>3. UNCHANGED hosted_shards /\ BufferedOnce => BufferedOnce' /\ Buffered' = Buffered
  BY SMT DEF BufferedOnce, Buffered
<1>4. UNCHANGED sending /\ SentOnce => SentOnce' /\ Sent' = Sent
  BY DEF SentOnce, Sent
<1>5. QED
  BY <1>1, <1>2, <1>3, <1>4

\* Every request that was sent is in one place.
InOnePlace == Once /\ Partition

\* EntityRequest: from the mailbox to the entry, the other node or the buffer.
LEMMA EntityRequestPlaces ==
    ASSUME Types, InOnePlace, NEW h \in Nodes, EntityRequest(h), UNCHANGED used
    PROVE  InOnePlace'
<1> DEFINE m == Head(mailbox[h])
           s == m.shard
           e == hosted_shards[h][s]
           R == {m.request}
<1> USE DEF InOnePlace
<1>1. Receive(h, "EntityRequest") /\ UNCHANGED served
  BY DEF EntityRequest
<1>2. m \in Message /\ m.type = "EntityRequest"
  BY <1>1, ReceiveMail
<1>3. MailedOnce' /\ Mailed' = Mailed \ R /\ m.request \in Mailed
  BY <1>1, ReceivedRequest DEF Once
<1> HIDE DEF m
<1>4. s \in Shards /\ R \in SUBSET Requests /\ m.request \in Requests
  BY <1>2, MessageFields
<1>5. e \in Entry
  BY <1>4 DEF Types
<1>6. R \cap Pended = {} /\ R \cap Buffered = {} /\ R \cap Sent = {}
  BY <1>3, <1>4 DEF Partition
<1>7. CASE handle_request(h, s, e, R) /\ UNCHANGED requests_pending_shard_allocation
  <2>1. /\ BufferedOnce' /\ SentOnce'
        /\ \/ Buffered' = Buffered \cup R /\ Sent' = Sent /\ dropped' = dropped
           \/ Buffered' = Buffered /\ Sent' = Sent \cup R /\ dropped' = dropped
           \/ Buffered' = Buffered /\ Sent' = Sent /\ dropped' = dropped \cup R
    BY <1>4, <1>5, <1>6, <1>7, HandleRequestPlaces DEF Once
  <2>2. PendedOnce' /\ Pended' = Pended
    BY <1>7, PlacesUnchanged DEF Once
  <2>3. QED
    BY <1>1, <1>3, <1>4, <2>1, <2>2 DEF Once, Partition
<1>8. CASE /\ remote_entity_request(remote_shards[h][s], s, R)
           /\ UNCHANGED <<hosted_shards, requests_pending_shard_allocation, dropped>>
  <2>0. sending' = sending \cup Deliveries(remote_shards[h][s], s, 0, R)
    BY <1>8 DEF remote_entity_request, Deliveries
  <2>1. SentOnce' /\ Sent' = Sent \cup R
    BY <1>4, <1>6, <2>0, SentMore DEF Once
  <2>2. PendedOnce' /\ Pended' = Pended /\ BufferedOnce' /\ Buffered' = Buffered
    BY <1>8, PlacesUnchanged DEF Once
  <2>3. QED
    BY <1>1, <1>3, <1>4, <1>8, <2>1, <2>2 DEF Once, Partition
<1>9. CASE /\ requests_pending_shard_allocation' = [pending EXCEPT ![h][s] = @ \cup R]
           /\ UNCHANGED <<hosted_shards, sending, dropped>>
  <2>1. PICK Q \in SUBSET Requests : Q = pending[h][s] \cup R
    BY <1>4 DEF Types, pending
  <2>2. requests_pending_shard_allocation' = [pending EXCEPT ![h][s] = Q]
    BY <1>9, <2>1
  <2>3. PendedOnce' /\ Pended' = (Pended \ pending[h][s]) \cup Q
    <3>1. \A r \in Q : r \in pending[h][s] \/ r \notin Pended
      BY <1>6, <2>1
    <3>2. QED
      BY <1>4, <2>2, <3>1, PendedChanges DEF Once
  <2>4. pending[h][s] \subseteq Pended
    BY <1>4 DEF Pended, Types, pending
  <2>5. Pended' = Pended \cup R
    BY <2>1, <2>3, <2>4
  <2>6. SentOnce' /\ Sent' = Sent /\ BufferedOnce' /\ Buffered' = Buffered
    BY <1>9, PlacesUnchanged DEF Once
  <2>7. QED
    BY <1>1, <1>3, <1>4, <1>9, <2>3, <2>5, <2>6 DEF Once, Partition
<1>10. QED
  BY <1>7, <1>8, <1>9 DEF EntityRequest, m

\* ShardAllocated: the requests that waited for it go on, and so do they all.
LEMMA ShardAllocatedPlaces ==
    ASSUME Types, InOnePlace, NEW h \in Nodes, ShardAllocated(h), UNCHANGED used
    PROVE  InOnePlace'
<1> DEFINE m == Head(mailbox[h])
           s == m.shard
           e == hosted_shards[h][s]
           R == pending[h][s]
<1> USE DEF InOnePlace
<1>1. Receive(h, "ShardAllocated") /\ UNCHANGED served
  BY DEF ShardAllocated
<1>2. m \in Message /\ m.type = "ShardAllocated"
  BY <1>1, ReceiveMail
<1>3. MailedOnce' /\ Mailed' = Mailed
  BY SMT, <1>1, ReceivedRequest DEF Once
<1>4. IF m.node = h THEN AllocatedHere(h, s) ELSE AllocatedThere(h, s, m.node)
  BY DEF ShardAllocated
<1> HIDE DEF m
<1>5. s \in Shards /\ m.node \in Nodes
  BY <1>2, MessageFields
<1>6. e \in Entry /\ R \in SUBSET Requests /\ R \subseteq Pended
  BY <1>5 DEF Types, pending, Pended
<1>7. R \cap Buffered = {} /\ R \cap Sent = {}
  BY <1>6 DEF Partition
<1>8. PendedOnce' /\ Pended' = Pended \ R
  <2>1. requests_pending_shard_allocation' = [pending EXCEPT ![h][s] = {}]
    BY <1>4 DEF AllocatedHere, AllocatedThere
  <2>2. {} \in SUBSET Requests /\ \A r \in {} : r \in pending[h][s] \/ r \notin Pended
    OBVIOUS
  <2>3. PendedOnce' /\ Pended' = (Pended \ pending[h][s]) \cup {}
    BY <1>5, <2>1, <2>2, PendedChanges DEF Once
  <2>4. QED
    BY <2>3
<1>9. CASE m.node = h
  <2>1. PICK f \in Entry : f.buffer = e.buffer /\ handle_request(h, s, f, R)
    <3>1. CASE e = NotHosted
      <4>1. last_id[h] + 1 \in Nat
        BY SMT DEF Types
      <4>2. PICK f \in Entry : f = [state |-> "Starting", actor |-> last_id[h] + 1, buffer |-> {}]
        BY <4>1, EntryTypes
      <4>3. handle_request(h, s, f, R)
        BY <1>4, <1>9, <3>1, <4>2 DEF AllocatedHere
      <4>4. f.buffer = e.buffer
        BY <3>1, <4>2, EntryTypes
      <4>5. QED
        BY <4>3, <4>4
    <3>2. CASE e # NotHosted
      BY <1>4, <1>6, <1>9, <3>2 DEF AllocatedHere
    <3>3. QED
      BY <3>1, <3>2
  <2>2. /\ BufferedOnce' /\ SentOnce'
        /\ \/ Buffered' = Buffered \cup R /\ Sent' = Sent /\ dropped' = dropped
           \/ Buffered' = Buffered /\ Sent' = Sent \cup R /\ dropped' = dropped
           \/ Buffered' = Buffered /\ Sent' = Sent /\ dropped' = dropped \cup R
    BY <1>5, <1>6, <1>7, <2>1, HandleRequestPlaces DEF Once
  <2> HIDE DEF R
  <2>3. QED
    BY <1>1, <1>3, <1>6, <1>8, <2>2 DEF Once, Partition
<1>10. CASE m.node # h
  <2>1. /\ hosted_shards' = [hosted_shards EXCEPT ![h][s] = NotHosted]
        /\ dropped' = dropped \cup e.buffer
        /\ remote_entity_request(m.node, s, R)
    BY <1>4, <1>10 DEF AllocatedThere
  <2>0. sending' = sending \cup Deliveries(m.node, s, 0, R)
    BY <2>1 DEF remote_entity_request, Deliveries
  <2>2. SentOnce' /\ Sent' = Sent \cup R
    BY <1>6, <1>7, <2>0, SentMore DEF Once
  <2>3. BufferedOnce' /\ Buffered' = Buffered \ e.buffer /\ e.buffer \subseteq Buffered
    <3>1. \A r \in NotHosted.buffer : r \in e.buffer \/ r \notin Buffered
      BY EntryTypes
    <3>2. /\ BufferedOnce' /\ e.buffer \subseteq Buffered
          /\ Buffered' = (Buffered \ e.buffer) \cup NotHosted.buffer
      BY ZenonT(30), <1>5, <2>1, <3>1, EntryTypes, BufferedChanges DEF Once
    <3>3. QED
      BY <3>2, EntryTypes
  <2>4. QED
    <3> HIDE DEF R, e
    <3>1. QED
      BY <1>1, <1>3, <1>6, <1>8, <2>1, <2>2, <2>3 DEF Once, Partition
<1>11. QED
  BY <1>9, <1>10

\* The other handlers: what an entry buffers is sent on or dropped with it.
LEMMA HandlePlaces ==
    ASSUME Types, InOnePlace, NEW h \in Nodes, Handle(h), UNCHANGED used
    PROVE  InOnePlace'
<1> DEFINE m == Head(mailbox[h])
           s == m.shard
           e == hosted_shards[h][s]
<1> USE DEF InOnePlace
<1>1. CASE EntityRequest(h) \/ ShardAllocated(h)
  BY <1>1, EntityRequestPlaces, ShardAllocatedPlaces
<1>2. CASE ~(EntityRequest(h) \/ ShardAllocated(h))
  <2>1. PICK type : Receive(h, type) /\ type # "EntityRequest"
    <3>1. \/ Receive(h, "ShardReady") \/ Receive(h, "ShardReallocating")
          \/ Receive(h, "StopShard") \/ Receive(h, "ShardStopped")
      BY <1>2 DEF Handle, ShardReallocating, ShardReady, StopShard, ShardStopped
    <3>2. QED
      BY SMT, <3>1
  <2>2. m \in Message /\ m.type = type
    BY <2>1, ReceiveMail
  <2>3. MailedOnce' /\ Mailed' = Mailed
    BY SMT, <2>1, ReceivedRequest DEF Once
  <2>4. UNCHANGED <<requests_pending_shard_allocation, served>>
    BY <1>2 DEF Handle, ShardReallocating, ShardReady, StopShard, ShardStopped
  <2>5. PendedOnce' /\ Pended' = Pended
    BY <2>4, PlacesUnchanged DEF Once
  <2>6. \/ ShardReallocating(h) /\ UNCHANGED <<hosted_shards, sending, dropped>>
        \/ /\ ShardReady(h) /\ UNCHANGED dropped
           /\ hosted_shards' = [hosted_shards EXCEPT ![h][s] =
                                  [state |-> "Ready", actor |-> m.actor, buffer |-> {}]]
           /\ sending' = sending \cup Deliveries(h, s, m.actor, e.buffer)
        \/ /\ StopShard(h) /\ UNCHANGED sending
           /\ hosted_shards' = IF e = NotHosted THEN hosted_shards
                               ELSE [hosted_shards EXCEPT ![h][s] = [NotHosted EXCEPT !.state = "Stopping"]]
           /\ dropped' = dropped \cup e.buffer
        \/ /\ ShardStopped(h) /\ UNCHANGED sending
           /\ hosted_shards' = [hosted_shards EXCEPT ![h][s] = NotHosted]
           /\ dropped' = dropped \cup e.buffer
    BY <1>2 DEF Handle, ShardReallocating, ShardReady, StopShard, ShardStopped, Deliveries
  <2> HIDE DEF m
  <2>7. s \in Shards
    BY <2>2, MessageFields
  <2>8. e \in Entry /\ e.buffer \in SUBSET Requests /\ e.buffer \subseteq Buffered
    BY SMT, <2>7 DEF Types, Entry, Buffered
  <2>9. e.buffer \cap Sent = {}
    BY <2>8 DEF Partition
  <2>10. ASSUME NEW f \in Entry, f.buffer = {}, hosted_shards' = [hosted_shards EXCEPT ![h][s] = f]
         PROVE  BufferedOnce' /\ Buffered' = Buffered \ e.buffer
    <3>1. \A r \in f.buffer : r \in e.buffer \/ r \notin Buffered
      BY <2>10
    <3>2. BufferedOnce' /\ Buffered' = (Buffered \ e.buffer) \cup f.buffer
      BY <2>7, <2>10, <3>1, BufferedChanges DEF Once
    <3>3. QED
      BY <2>10, <3>2
  <2>11. CASE ShardReallocating(h) /\ UNCHANGED <<hosted_shards, sending, dropped>>
    <3>1. BufferedOnce' /\ Buffered' = Buffered /\ SentOnce' /\ Sent' = Sent
      BY <2>11, PlacesUnchanged DEF Once
    <3>2. QED
      BY <2>3, <2>4, <2>5, <2>11, <3>1 DEF Once, Partition
  <2>12. CASE /\ ShardReady(h) /\ UNCHANGED dropped
              /\ hosted_shards' = [hosted_shards EXCEPT ![h][s] =
                                     [state |-> "Ready", actor |-> m.actor, buffer |-> {}]]
              /\ sending' = sending \cup Deliveries(h, s, m.actor, e.buffer)
    <3>1. m.actor \in Nat
      <4>1. m.type = "ShardReady"
        BY <2>12 DEF ShardReady, Receive, m
      <4>2. QED
        BY <2>2, <4>1, MessageFields
    <3>2. PICK f \in Entry : f = [state |-> "Ready", actor |-> m.actor, buffer |-> {}]
      BY <3>1, EntryTypes
    <3>3. BufferedOnce' /\ Buffered' = Buffered \ e.buffer
      BY <2>10, <2>12, <3>2
    <3>4. SentOnce' /\ Sent' = Sent \cup e.buffer
      BY <2>8, <2>9, <2>12, SentMore DEF Once
    <3> HIDE DEF e
    <3>5. QED
      BY <2>3, <2>4, <2>5, <2>8, <2>12, <3>3, <3>4 DEF Once, Partition
  <2>13. CASE /\ UNCHANGED sending
              /\ \/ e = NotHosted /\ UNCHANGED hosted_shards
                 \/ hosted_shards' = [hosted_shards EXCEPT ![h][s] = [NotHosted EXCEPT !.state = "Stopping"]]
                 \/ hosted_shards' = [hosted_shards EXCEPT ![h][s] = NotHosted]
              /\ dropped' = dropped \cup e.buffer
    <3>1. SentOnce' /\ Sent' = Sent
      BY <2>13, PlacesUnchanged DEF Once
    <3>2. BufferedOnce' /\ Buffered' = Buffered \ e.buffer
      <4>1. CASE e = NotHosted /\ UNCHANGED hosted_shards
        BY <4>1, EntryTypes, PlacesUnchanged DEF Once
      <4>2. CASE hosted_shards' = [hosted_shards EXCEPT ![h][s] = [NotHosted EXCEPT !.state = "Stopping"]]
        BY <2>10, <4>2, EntryTypes
      <4>3. CASE hosted_shards' = [hosted_shards EXCEPT ![h][s] = NotHosted]
        BY <2>10, <4>3, EntryTypes
      <4>4. QED
        BY <2>13, <4>1, <4>2, <4>3
    <3> HIDE DEF e
    <3>3. QED
      BY <2>3, <2>4, <2>5, <2>8, <2>13, <3>1, <3>2 DEF Once, Partition
  <2>14. QED
    BY <2>6, <2>11, <2>12, <2>13
<1>3. QED
  BY <1>1, <1>2

\* The steps of the shard actors and of the tasks.
LEMMA TaskPlaces ==
    ASSUME Types, InOnePlace, UNCHANGED used,
           \/ \E d \in sending : DeliverLocal(d) \/ DeliverRemote(d) \/ NotFound(d)
           \/ \E a \in actors : ActorStarted(a) \/ ActorStopped(a)
           \/ \E t \in stopping : StopSent(t) \/ StopCompleted(t)
    PROVE  InOnePlace'
<1> USE DEF InOnePlace
<1>1. UNCHANGED <<hosted_shards, requests_pending_shard_allocation>>
  BY DEF DeliverLocal, DeliverRemote, NotFound, ActorStarted, ActorStopped, StopSent, StopCompleted,
         routing
<1>2. PendedOnce' /\ Pended' = Pended /\ BufferedOnce' /\ Buffered' = Buffered
  BY <1>1, PlacesUnchanged DEF Once
<1>3. ASSUME NEW d \in sending, DeliverLocal(d) \/ DeliverRemote(d) \/ NotFound(d)
      PROVE  InOnePlace'
  <2>1. /\ UNCHANGED mailbox /\ sending' = sending \ {d}
        /\ \/ served' = served \cup {d.request} /\ dropped' = dropped
           \/ served' = served /\ dropped' = dropped \cup {d.request}
    BY <1>3 DEF DeliverLocal, DeliverRemote, NotFound, Enqueue
  <2>2. MailedOnce' /\ Mailed' = Mailed
    BY <2>1, PlacesUnchanged DEF Once
  <2>3. SentOnce' /\ Sent' = Sent \ {d.request} /\ d.request \in Sent
    BY <2>1, SentLess DEF Once
  <2>4. QED
    BY <1>2, <2>1, <2>2, <2>3 DEF Once, Partition
<1>4. ASSUME UNCHANGED <<sending, served, dropped>>, MailedOnce', Mailed' = Mailed
      PROVE  InOnePlace'
  <2>1. SentOnce' /\ Sent' = Sent
    BY <1>4, PlacesUnchanged DEF Once
  <2>2. QED
    BY <1>2, <1>4, <2>1 DEF Once, Partition
<1>5. ASSUME NEW a \in actors, ActorStarted(a)
      PROVE  InOnePlace'
  <2>1. PICK m : m = [type |-> "ShardReady", shard |-> a.shard, actor |-> a.id]
    BY Zenon
  <2>2. m \in Message /\ m.type = "ShardReady" /\ a.node \in Nodes
    BY <2>1 DEF Types, Actor, Message
  <2>3. mailbox' = [mailbox EXCEPT ![a.node] = Append(@, m)] /\ UNCHANGED <<sending, served, dropped>>
    BY <1>5, <2>1 DEF ActorStarted
  <2>4. MailedOnce' /\ Mailed' = Mailed
    BY <2>2, <2>3, AppendedRequest DEF Once
  <2>5. QED
    BY <1>4, <2>3, <2>4
<1>6. ASSUME NEW t \in stopping, StopCompleted(t)
      PROVE  InOnePlace'
  <2>1. PICK m : m = [type |-> "ShardStopped", shard |-> t.shard]
    BY Zenon
  <2>2. m \in Message /\ m.type = "ShardStopped" /\ t.node \in Nodes
    BY <2>1 DEF Types, Task, Message
  <2>3. mailbox' = [mailbox EXCEPT ![t.node] = Append(@, m)] /\ UNCHANGED <<sending, served, dropped>>
    BY <1>6, <2>1 DEF StopCompleted
  <2>4. MailedOnce' /\ Mailed' = Mailed
    BY <2>2, <2>3, AppendedRequest DEF Once
  <2>5. QED
    BY <1>4, <2>3, <2>4
<1>7. ASSUME UNCHANGED <<mailbox, sending, served, dropped>>
      PROVE  InOnePlace'
  BY <1>4, <1>7, PlacesUnchanged DEF Once
<1>8. QED
  BY <1>3, <1>5, <1>6, <1>7 DEF ActorStopped, StopSent

\* A message arrives; a request is one that was not sent before.
LEMMA ArrivePlaces ==
    ASSUME Types, InOnePlace, NEW h \in Nodes, NEW m \in Message, Arrive(h, m),
           \/ m.type # "EntityRequest" /\ \A r \in Requests : r \in used' <=> r \in used
           \/ /\ m.type = "EntityRequest" /\ m.request \notin used
              /\ \A r \in Requests : r \in used' <=> r \in used \/ r = m.request
    PROVE  InOnePlace'
<1> USE DEF InOnePlace
<1>1. /\ PendedOnce' /\ Pended' = Pended /\ BufferedOnce' /\ Buffered' = Buffered
      /\ SentOnce' /\ Sent' = Sent /\ UNCHANGED <<served, dropped>>
  BY PlacesUnchanged DEF Arrive, routing, Once
<1>2. m.type = "EntityRequest" => m.request \in Requests
  BY MessageFields
<1>3. m.type = "EntityRequest" => m.request \notin Mailed
  BY <1>2 DEF Partition
<1>4. /\ MailedOnce'
      /\ Mailed' = IF m.type = "EntityRequest" THEN Mailed \cup {m.request} ELSE Mailed
  BY <1>3, AppendedRequest DEF Once, Arrive
<1>5. QED
  BY <1>1, <1>2, <1>4 DEF Once, Partition

-----------------------------------------------------------------------------
(* The invariant and the theorems. *)

\* A cluster without shards satisfies IInv.
LEMMA InitIInv == Init => IInv
<1> SUFFICES ASSUME Init PROVE IInv
  OBVIOUS
<1> USE DEF Init, HostInit
<1>1. Types
  BY SMT, EntryTypes DEF Types
<1>2. KnownIds /\ AnsweredIsGone
  BY SMT, EntryTypes DEF KnownIds, AnsweredIsGone
<1>3. BufferHasWakeup
  BY EntryTypes DEF BufferHasWakeup
<1>4. Mailed = {} /\ Pended = {} /\ Buffered = {} /\ Sent = {}
  BY SMT, EntryTypes DEF Mailed, Pended, Buffered, Sent, pending
<1>5. Once
  BY SMT, EntryTypes DEF Once, MailedOnce, PendedOnce, BufferedOnce, SentOnce, pending
<1>6. Partition
  BY <1>4 DEF Partition
<1>7. QED
  BY <1>1, <1>2, <1>3, <1>5, <1>6 DEF IInv

\* Every step keeps IInv.
LEMMA NextIInv == IInv /\ [Next]_vars => IInv'
<1> SUFFICES ASSUME IInv, [Next]_vars PROVE IInv'
  OBVIOUS
<1>1. Types /\ Ids /\ BufferHasWakeup /\ InOnePlace
  BY DEF IInv, Ids, InOnePlace
<1>2. SUFFICES Types' /\ Ids' /\ BufferHasWakeup' /\ InOnePlace'
  BY DEF IInv, Ids, InOnePlace
<1>3. CASE Environment
  <2>1. PICK h \in Nodes : \E m \in Message :
          /\ Arrive(h, m) /\ m.type \notin {"ShardReady", "ShardStopped"}
          /\ \/ m.type # "EntityRequest" /\ \A r \in Requests : r \in used' <=> r \in used
             \/ /\ m.type = "EntityRequest" /\ m.request \notin used
                /\ \A r \in Requests : r \in used' <=> r \in used \/ r = m.request
    BY <1>3, EnvironmentArrives
  <2>2. PICK m \in Message :
          /\ Arrive(h, m) /\ m.type \notin {"ShardReady", "ShardStopped"}
          /\ \/ m.type # "EntityRequest" /\ \A r \in Requests : r \in used' <=> r \in used
             \/ /\ m.type = "EntityRequest" /\ m.request \notin used
                /\ \A r \in Requests : r \in used' <=> r \in used \/ r = m.request
    BY <2>1
  <2>3. Types'
    <3>1. mailbox' \in [Nodes -> Seq(Message)]
      BY <1>1, <2>2, AppendMail DEF Arrive
    <3>2. QED
      BY <1>1, <2>2, <3>1 DEF Arrive, Types, routing
  <2>4. Ids'
    BY <1>1, <2>2, TaskIds
  <2>5. BufferHasWakeup'
    BY <1>1, <2>2, TaskWakeup
  <2>6. InOnePlace'
    BY <1>1, <2>2, ArrivePlaces
  <2>7. QED
    BY <2>3, <2>4, <2>5, <2>6
<1>4. ASSUME NEW h \in Nodes, Handle(h), UNCHANGED used
      PROVE  Types' /\ Ids' /\ BufferHasWakeup' /\ InOnePlace'
  BY <1>1, <1>4, HandleTypes, HandleIds, HandleWakeup, HandlePlaces
<1>5. ASSUME UNCHANGED used,
             \/ \E d \in sending : DeliverLocal(d) \/ DeliverRemote(d) \/ NotFound(d)
             \/ \E a \in actors : ActorStarted(a) \/ ActorStopped(a)
             \/ \E t \in stopping : StopSent(t) \/ StopCompleted(t)
      PROVE  Types' /\ Ids' /\ BufferHasWakeup' /\ InOnePlace'
  BY <1>1, <1>5, TaskTypes, TaskIds, TaskWakeup, TaskPlaces
<1>6. CASE UNCHANGED vars
  <2>1. Types' /\ BufferHasWakeup'
    BY <1>1, <1>6 DEF vars, host_vars, routing, Types, BufferHasWakeup
  <2>2. Ids'
    BY <1>1, <1>6 DEF vars, host_vars, routing, Ids, KnownIds, AnsweredIsGone, Alive
  <2>3. InOnePlace'
    <3>1. UNCHANGED <<used, served, dropped, mailbox, sending, hosted_shards,
                      requests_pending_shard_allocation>>
      BY <1>6 DEF vars, host_vars, routing
    <3>2. Once' /\ Mailed' = Mailed /\ Pended' = Pended /\ Buffered' = Buffered /\ Sent' = Sent
      BY <1>1, <3>1, PlacesUnchanged DEF InOnePlace, Once
    <3>3. QED
      BY <1>1, <3>1, <3>2 DEF InOnePlace, Partition
  <2>4. QED
    BY <2>1, <2>2, <2>3
<1>7. QED
  BY <1>3, <1>4, <1>5, <1>6 DEF Next, HostStep, HostNext

INSTANCE FiniteSetTheorems

\* In a state of IInv a request that was sent has one element in Places.
LEMMA OnePlaceFollows == IInv => OnePlace
<1> SUFFICES ASSUME IInv, NEW r \in Requests \cap used
             PROVE  Cardinality(Places(r)) = 1
  BY DEF OnePlace
<1> DEFINE Mail == {n \in Nodes : \E i \in DOMAIN mailbox[n] :
                       mailbox[n][i].type = "EntityRequest" /\ mailbox[n][i].request = r}
           Waits == {p \in {"pending", "buffered"} \X Nodes \X Shards :
                       r \in IF p[1] = "pending" THEN pending[p[2]][p[3]]
                                                 ELSE hosted_shards[p[2]][p[3]].buffer}
           Way == {x \in sending : x.request = r}
           Done == {y \in {"served", "dropped"} : r \in IF y = "served" THEN served ELSE dropped}
<1>1. Places(r) = {<<"mailbox", n>> : n \in Mail} \cup Waits \cup {<<"sending", d>> : d \in Way}
                  \cup {<<"done", x>> : x \in Done}
  BY DEF Places
<1>2. /\ r \in Mailed \cup Pended \cup Buffered \cup Sent \cup served \cup dropped
      /\ r \in Mailed => r \notin Pended \cup Buffered \cup Sent \cup served \cup dropped
      /\ r \in Pended => r \notin Buffered \cup Sent \cup served \cup dropped
      /\ r \in Buffered => r \notin Sent \cup served \cup dropped
      /\ r \in Sent => r \notin served \cup dropped
      /\ r \in served => r \notin dropped
  BY DEF IInv, Partition
<1>3. /\ r \notin Mailed => Mail = {}
      /\ r \in Mailed => \E n : Mail = {n}
  <2>1. r \notin Mailed => Mail = {}
    BY DEF Mailed, IsRequest
  <2>2. ASSUME r \in Mailed PROVE \E n : Mail = {n}
    <3>1. PICK n \in Nodes : \E i \in DOMAIN mailbox[n] : IsRequest(mailbox[n][i], r)
      BY <2>2 DEF Mailed
    <3>2. \A k \in Nodes : (\E i \in DOMAIN mailbox[k] : IsRequest(mailbox[k][i], r)) => k = n
      BY <3>1 DEF IInv, Once, MailedOnce
    <3>3. Mail = {n}
      BY <3>1, <3>2 DEF IsRequest
    <3>4. QED
      BY <3>3
  <2>3. QED
    BY <2>1, <2>2
<1>4. /\ r \notin Pended \cup Buffered => Waits = {}
      /\ r \in Pended \/ r \in Buffered => \E p : Waits = {p}
  <2>1. ASSUME r \notin Pended \cup Buffered
        PROVE  Waits = {}
    BY <2>1 DEF Pended, Buffered
  <2>2. ASSUME r \in Pended
        PROVE  \E p : Waits = {p}
    <3>1. PICK n \in Nodes, s \in Shards : r \in pending[n][s]
      BY <2>2 DEF Pended
    <3>2. \A m \in Nodes, t \in Shards : r \in pending[m][t] => m = n /\ t = s
      BY <3>1 DEF IInv, Once, PendedOnce
    <3>3. \A m \in Nodes, t \in Shards : r \notin hosted_shards[m][t].buffer
      BY <1>2, <2>2 DEF Buffered
    <3>4. Waits = {<<"pending", n, s>>}
      BY SMT, <3>1, <3>2, <3>3
    <3>5. QED
      BY <3>4
  <2>3. ASSUME r \in Buffered
        PROVE  \E p : Waits = {p}
    <3>1. PICK n \in Nodes, s \in Shards : r \in hosted_shards[n][s].buffer
      BY <2>3 DEF Buffered
    <3>2. \A m \in Nodes, t \in Shards : r \in hosted_shards[m][t].buffer => m = n /\ t = s
      BY <3>1 DEF IInv, Once, BufferedOnce
    <3>3. \A m \in Nodes, t \in Shards : r \notin pending[m][t]
      BY <1>2, <2>3 DEF Pended
    <3>4. Waits = {<<"buffered", n, s>>}
      BY SMT, <3>1, <3>2, <3>3
    <3>5. QED
      BY <3>4
  <2>4. QED
    BY <2>1, <2>2, <2>3
<1>5. /\ r \notin Sent => Way = {}
      /\ r \in Sent => \E d : Way = {d}
  BY DEF Sent, IInv, Once, SentOnce
<1>6. /\ r \notin served \cup dropped => Done = {}
      /\ r \in served => Done = {"served"}
      /\ r \in dropped => Done = {"dropped"}
  BY <1>2
<1> HIDE DEF Mail, Waits, Way, Done
<1>7. \E p : Places(r) = {p}
  <2>1. CASE r \in Mailed
    <3>1. PICK n : Mail = {n}
      BY <1>3, <2>1
    <3>2. Waits = {} /\ Way = {} /\ Done = {}
      BY <1>2, <1>4, <1>5, <1>6, <2>1
    <3>3. Places(r) = {<<"mailbox", n>>}
      BY <1>1, <3>1, <3>2
    <3>4. QED
      BY <3>3
  <2>2. CASE r \in Pended \cup Buffered
    <3>1. PICK p : Waits = {p}
      BY <1>4, <2>2
    <3>2. Mail = {} /\ Way = {} /\ Done = {}
      BY <1>2, <1>3, <1>5, <1>6, <2>2
    <3>3. Places(r) = {p}
      BY <1>1, <3>1, <3>2
    <3>4. QED
      BY <3>3
  <2>3. CASE r \in Sent
    <3>1. PICK d : Way = {d}
      BY <1>5, <2>3
    <3>2. Mail = {} /\ Waits = {} /\ Done = {}
      BY <1>2, <1>3, <1>4, <1>6, <2>3
    <3>3. Places(r) = {<<"sending", d>>}
      BY <1>1, <3>1, <3>2
    <3>4. QED
      BY <3>3
  <2>4. CASE r \in served \cup dropped
    <3>1. PICK x : Done = {x}
      BY <1>6, <2>4
    <3>2. Mail = {} /\ Waits = {} /\ Way = {}
      BY <1>2, <1>3, <1>4, <1>5, <2>4
    <3>3. Places(r) = {<<"done", x>>}
      BY <1>1, <3>1, <3>2
    <3>4. QED
      BY <3>3
  <2>5. QED
    BY <1>2, <2>1, <2>2, <2>3, <2>4
<1>8. QED
  BY <1>7, FS_Singleton

\* IInv is an invariant of the hosts, whatever arrives.
THEOREM HostInvariance == Spec => []IInv
BY InitIInv, NextIInv, PTL DEF Spec

\* Whatever the order of allocations, stops and restarts, a request is in one
\* place: no host keeps a copy of a request it has passed on, and none is lost
\* without being counted.
THEOREM RequestsAreInOnePlace == Spec => []OnePlace
BY OnePlaceFollows, HostInvariance, PTL

\* No Starting entry, and so no request buffered in one, is left without the
\* ShardReady that will send its requests on.
THEOREM BuffersAreWoken == Spec => []BufferHasWakeup
<1>1. IInv => BufferHasWakeup
  BY DEF IInv
<1>2. QED
  BY <1>1, HostInvariance, PTL

\* ShardStopped is answered only for an actor that is gone and stays gone: no
\* later actor has its id.
THEOREM StoppedShardsAreGone == Spec => []AnsweredIsGone
<1>1. IInv => AnsweredIsGone
  BY DEF IInv
<1>2. QED
  BY <1>1, HostInvariance, PTL
=============================================================================
