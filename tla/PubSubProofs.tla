---------------------------- MODULE PubSubProofs ----------------------------
(***************************************************************************)
(* Proofs about PubSub: what a subscriber is sent, and how often a         *)
(* publication is broadcast on a node, for every cluster, any number of    *)
(* subscribers and publications and any capacity of the channels.          *)
(***************************************************************************)
EXTENDS PubSub, TLAPS

\* Few steps need arithmetic or sequences; those name the SMT solver.
USE Zenon

Event == {"NodeAdded", "NodeRemoved"} \X Nodes
OtherNodes(m) == Nodes \ {Origin[m]}

Types ==
    /\ topic \in [Nodes -> BOOLEAN]
    /\ log \in [Nodes -> Seq(Messages)]
    /\ state \in [Subscribers -> {"none", "active", "ended"}]
    /\ start \in [Subscribers -> Nat]
    /\ received \in [Subscribers -> Seq(Messages)]
    /\ published \subseteq Messages
    /\ tasks \subseteq Messages \X SUBSET Nodes
    /\ arrived \subseteq Messages \X Nodes
    /\ nodes \in [Nodes -> SUBSET Nodes]
    /\ system \in [Nodes -> Seq(Event)]

\* What the actor of s was sent is what the log has from its subscription on.
Reads(s) ==
    LET l == log[Home[s]]
    IN  /\ start[s] + Len(received[s]) <= Len(l)
        /\ \A i \in 1 .. Len(received[s]) : received[s][i] = l[start[s] + i]
        /\ state[s] = "none" => received[s] = <<>>

\* A mediator does not send to its own node.
OthersKnown == \A n \in Nodes : n \notin nodes[n]

InLog(m, n) == \E i \in DOMAIN log[n] : log[n][i] = m

\* m is on its way to other nodes only, one way at a time, and only if it was
\* published for the cluster.
Travels(m) == m \in published /\ Reach[m] = "Cluster"

InTransit ==
    /\ \A t \in tasks : Travels(t[1]) /\ t[2] \subseteq OtherNodes(t[1])
    /\ \A t, u \in tasks : t[1] = u[1] => t = u
    /\ \A t \in tasks : \A n \in t[2] : <<t[1], n>> \notin arrived /\ ~InLog(t[1], n)
    /\ \A m \in Messages, n \in Nodes : <<m, n>> \in arrived =>
          Travels(m) /\ n # Origin[m] /\ ~InLog(m, n)
    /\ \A m \in Messages, n \in Nodes : InLog(m, n) =>
          m \in published /\ (Reach[m] = "Local" => n = Origin[m])

IInv == Types /\ (\A s \in Subscribers : Reads(s)) /\ OthersKnown /\ InTransit /\ BroadcastOnce

-----------------------------------------------------------------------------
(* A broadcast *)

\* A broadcast adds the message at the end of its node's log, or nothing where
\* nobody has subscribed.
LEMMA BroadcastGrows ==
    ASSUME Types, NEW n \in Nodes, NEW m \in Messages, Broadcast(n, m)
    PROVE  /\ log' \in [Nodes -> Seq(Messages)]
           /\ \A x \in Nodes : Len(log[x]) <= Len(log'[x])
           /\ \A x \in Nodes : \A i \in DOMAIN log[x] : i \in DOMAIN log'[x] /\ log'[x][i] = log[x][i]
           /\ \A x \in Nodes : \A i \in DOMAIN log'[x] :
                 \/ i \in DOMAIN log[x]
                 \/ x = n /\ i = Len(log[x]) + 1 /\ log'[x][i] = m
<1>1. CASE ~topic[n]
  BY SMT, <1>1 DEF Broadcast, Types
<1>2. CASE topic[n]
  <2>1. PICK q \in Seq(Messages) : q = log[n]
    BY DEF Types
  <2>2. PICK p : p = Append(q, m)
    OBVIOUS
  <2>3. /\ p \in Seq(Messages) /\ Len(p) = Len(q) + 1 /\ Len(q) \in Nat
        /\ DOMAIN q = 1 .. Len(q) /\ DOMAIN p = 1 .. Len(q) + 1
        /\ p[Len(q) + 1] = m /\ \A i \in 1 .. Len(q) : p[i] = q[i]
    BY SMT, <2>2
  <2>4. log' = [log EXCEPT ![n] = p]
    BY <1>2, <2>1, <2>2 DEF Broadcast
  <2>5. /\ log' \in [Nodes -> Seq(Messages)] /\ log'[n] = p
        /\ \A x \in Nodes : x # n => log'[x] = log[x]
    BY <2>3, <2>4 DEF Types
  <2>6. /\ Len(q) <= Len(p)
        /\ \A i \in DOMAIN q : i \in DOMAIN p /\ p[i] = q[i]
        /\ \A i \in DOMAIN p : i \in DOMAIN q \/ (i = Len(q) + 1 /\ p[i] = m)
    BY SMT, <2>3
  <2>7. \A x \in Nodes : log[x] \in Seq(Messages) /\ Len(log[x]) <= Len(log[x])
    BY SMT DEF Types
  <2>8. QED
    BY <2>1, <2>5, <2>6, <2>7
<1>3. QED
  BY <1>1, <1>2

\* What is in the logs afterwards.
LEMMA BroadcastLogs ==
    ASSUME Types, NEW n \in Nodes, NEW m \in Messages, Broadcast(n, m)
    PROVE  \A p \in Messages, x \in Nodes :
              /\ InLog(p, x) => InLog(p, x)'
              /\ InLog(p, x)' => InLog(p, x) \/ (p = m /\ x = n)
BY SMT, BroadcastGrows DEF InLog

\* A message that was not in the log is once in it.
LEMMA BroadcastIsNew ==
    ASSUME Types, BroadcastOnce, NEW n \in Nodes, NEW m \in Messages, Broadcast(n, m),
           ~InLog(m, n), Reach[m] = "Local" => Origin[m] = n
    PROVE  BroadcastOnce'
<1> SUFFICES ASSUME NEW x \in Nodes, NEW i \in DOMAIN log'[x], NEW j \in DOMAIN log'[x]
             PROVE  /\ log'[x][i] = log'[x][j] => i = j
                    /\ Reach[log'[x][i]] = "Local" => Origin[log'[x][i]] = x
  BY DEF BroadcastOnce
<1>1. /\ i \in DOMAIN log[x] => log'[x][i] = log[x][i]
      /\ j \in DOMAIN log[x] => log'[x][j] = log[x][j]
      /\ i \in DOMAIN log[x] \/ (x = n /\ i = Len(log[x]) + 1 /\ log'[x][i] = m)
      /\ j \in DOMAIN log[x] \/ (x = n /\ j = Len(log[x]) + 1 /\ log'[x][j] = m)
  BY SMT, BroadcastGrows
<1>2. \A k \in DOMAIN log[n] : log[n][k] # m
  BY DEF InLog
<1>3. QED
  BY ZenonT(30), <1>1, <1>2 DEF BroadcastOnce

-----------------------------------------------------------------------------
(* What subscribers read *)

\* A subscriber that does nothing is not affected by what is broadcast.
LEMMA ReadsKept ==
    ASSUME Types, NEW s \in Subscribers, Reads(s),
           received'[s] = received[s], start'[s] = start[s],
           state'[s] = "none" => state[s] = "none",
           UNCHANGED log \/ \E n \in Nodes, m \in Messages : Broadcast(n, m)
    PROVE  Reads(s)'
<1>1. Home[s] \in Nodes /\ start[s] \in Nat /\ received[s] \in Seq(Messages) /\ log[Home[s]] \in Seq(Messages)
  BY PubSubAssumption DEF Types
<1>2. CASE UNCHANGED log
  BY <1>2 DEF Reads
<1>3. CASE \E n \in Nodes, m \in Messages : Broadcast(n, m)
  <2>1. /\ Len(log[Home[s]]) <= Len(log'[Home[s]]) /\ log'[Home[s]] \in Seq(Messages)
        /\ \A i \in DOMAIN log[Home[s]] : log'[Home[s]][i] = log[Home[s]][i]
    BY <1>1, <1>3, BroadcastGrows
  <2>2. PICK l \in Seq(Messages), k \in Seq(Messages) : l = log[Home[s]] /\ k = log'[Home[s]]
    BY <1>1, <2>1
  <2>3. /\ start[s] + Len(received[s]) <= Len(l)
        /\ \A i \in 1 .. Len(received[s]) : received[s][i] = l[start[s] + i]
        /\ state[s] = "none" => received[s] = <<>>
    BY <2>2 DEF Reads
  <2>4. Len(l) \in Nat /\ Len(k) \in Nat /\ Len(received[s]) \in Nat /\ DOMAIN l = 1 .. Len(l)
    BY SMT, <1>1, <2>2
  <2>5. start[s] + Len(received[s]) <= Len(k)
    BY SMTT(30), <1>1, <2>1, <2>2, <2>3, <2>4
  <2>6. ASSUME NEW i \in 1 .. Len(received[s])
        PROVE  received[s][i] = k[start[s] + i]
    <3>1. start[s] + i \in DOMAIN l
      BY SMT, <1>1, <2>3, <2>4
    <3>2. QED
      BY <2>1, <2>2, <2>3, <3>1
  <2>7. QED
    BY <2>2, <2>3, <2>5, <2>6 DEF Reads
<1>4. QED
  BY <1>2, <1>3

\* A subscription starts at the end of the log.
LEMMA SubscribeReads ==
    ASSUME Types, NEW s \in Subscribers, Subscribe(s), Reads(s)
    PROVE  Reads(s)'
<1>1. Home[s] \in Nodes /\ log[Home[s]] \in Seq(Messages) /\ Len(log[Home[s]]) \in Nat
  BY SMT, PubSubAssumption DEF Types
<1>2. received[s] = <<>> /\ UNCHANGED <<log, received>>
  BY DEF Subscribe, Reads
<1>3. start'[s] = Len(log[Home[s]])
  BY DEF Subscribe, Types
<1>4. received'[s] = <<>> /\ Len(<<>>) = 0 /\ log'[Home[s]] = log[Home[s]]
  BY <1>2
<1>5. start'[s] + 0 <= Len(log[Home[s]]) /\ 1 .. 0 = {}
  BY SMT, <1>1, <1>3
<1>6. QED
  BY <1>4, <1>5 DEF Reads

\* A subscription's task hands on the next message or ends.
LEMMA ReceiveReads ==
    ASSUME Types, NEW s \in Subscribers, Receive(s), Reads(s)
    PROVE  Reads(s)' /\ received' \in [Subscribers -> Seq(Messages)]
<1>1. Home[s] \in Nodes /\ log[Home[s]] \in Seq(Messages) /\ start[s] \in Nat /\ received[s] \in Seq(Messages)
  BY PubSubAssumption DEF Types
<1>2. UNCHANGED <<log, start>> /\ state[s] = "active" /\ Unread(s) > 0
  BY DEF Receive, channels
<1>3. CASE UNCHANGED received /\ state' = [state EXCEPT ![s] = "ended"]
  <2>1. state'[s] = "ended"
    BY <1>3 DEF Types
  <2>2. QED
    BY <1>2, <1>3, <2>1 DEF Reads, Types
<1>4. CASE /\ received' = [received EXCEPT ![s] = Append(@, log[Home[s]][start[s] + Len(@) + 1])]
           /\ UNCHANGED state
  <2>1. PICK l \in Seq(Messages), q \in Seq(Messages) : l = log[Home[s]] /\ q = received[s]
    BY <1>1
  <2>2. Len(l) \in Nat /\ Len(q) \in Nat /\ start[s] + Len(q) + 1 <= Len(l)
    BY SMT, <1>1, <1>2, <2>1 DEF Unread
  <2>3. PICK m : m = l[start[s] + Len(q) + 1]
    OBVIOUS
  <2>4. m \in Messages
    BY SMT, <1>1, <2>2, <2>3
  <2>5. PICK p : p = Append(q, m)
    OBVIOUS
  <2>6. /\ p \in Seq(Messages) /\ Len(p) = Len(q) + 1
        /\ p[Len(q) + 1] = m /\ \A i \in 1 .. Len(q) : p[i] = q[i]
    BY SMT, <2>2, <2>4, <2>5
  <2>7. received' = [received EXCEPT ![s] = p]
    BY <1>4, <2>1, <2>3, <2>5
  <2>8. received' \in [Subscribers -> Seq(Messages)] /\ received'[s] = p
    BY <2>6, <2>7 DEF Types
  <2>9. \A i \in 1 .. Len(q) : q[i] = l[start[s] + i]
    BY <2>1 DEF Reads
  <2>10. ASSUME NEW i \in 1 .. Len(p)
         PROVE  p[i] = l[start[s] + i]
    <3>1. CASE i = Len(q) + 1
      <4>1. start[s] + i = start[s] + Len(q) + 1
        BY SMT, <1>1, <2>2, <3>1
      <4>2. QED
        BY <2>3, <2>6, <3>1, <4>1
    <3>2. CASE i # Len(q) + 1
      BY SMTT(30), <2>2, <2>6, <2>9, <3>2
    <3>3. QED
      BY <3>1, <3>2
  <2>11. start[s] + Len(p) <= Len(l)
    BY SMT, <1>1, <2>2, <2>6
  <2>12. QED
    BY ZenonT(30), <1>2, <1>4, <2>1, <2>8, <2>10, <2>11 DEF Reads
<1>5. QED
  BY <1>3, <1>4 DEF Receive

-----------------------------------------------------------------------------
(* Publications on their way *)

\* Publish: a new message, to the nodes that the mediator knows.
LEMMA PublishTravels ==
    ASSUME IInv, NEW n \in Nodes, NEW m \in Messages, Publish(n, m)
    PROVE  InTransit' /\ BroadcastOnce' /\ tasks' \subseteq Messages \X SUBSET Nodes
<1>1. /\ n = Origin[m] /\ m \notin published /\ published' = published \cup {m} /\ Broadcast(n, m)
      /\ UNCHANGED arrived
  BY DEF Publish
<1>2. Types /\ InTransit /\ BroadcastOnce /\ OthersKnown
  BY DEF IInv
<1>3. /\ \A p \in Messages, x \in Nodes : InLog(p, x) => p \in published
      /\ \A t \in tasks : t[1] \in published /\ t[1] \in Messages /\ t[2] \in SUBSET Nodes
      /\ \A x \in Nodes : <<m, x>> \notin arrived
  BY <1>1, <1>2 DEF InTransit, Travels, Types
<1>4. BroadcastOnce'
  BY <1>1, <1>2, <1>3, BroadcastIsNew
<1>5. \A p \in Messages, x \in Nodes : InLog(p, x)' => InLog(p, x) \/ (p = m /\ x = n)
  BY <1>1, <1>2, BroadcastLogs
<1>6. ASSUME NEW t \in tasks'
      PROVE  \/ t \in tasks
             \/ Reach[m] = "Cluster" /\ t[1] = m /\ t[2] = nodes[n] /\ t = <<m, nodes[n]>>
  BY SMT DEF Publish
<1>7. nodes[n] \subseteq OtherNodes(m)
  BY <1>1, <1>2 DEF OthersKnown, OtherNodes, Types
<1>8. tasks' \subseteq Messages \X SUBSET Nodes
  <2>1. <<m, nodes[n]>> \in Messages \X SUBSET Nodes
    BY <1>2 DEF Types
  <2>2. QED
    BY <1>2, <1>6, <2>1 DEF Types
<1>9. \A t \in tasks' : Travels(t[1])' /\ t[2] \subseteq OtherNodes(t[1])
  BY <1>1, <1>2, <1>6, <1>7 DEF InTransit, Travels
<1>10. \A t, u \in tasks' : t[1] = u[1] => t = u
  BY SMTT(30), <1>1, <1>2, <1>3, <1>6 DEF InTransit
<1>11. ASSUME NEW t \in tasks', NEW x \in t[2]
       PROVE  <<t[1], x>> \notin arrived' /\ ~InLog(t[1], x)'
  <2>1. t[1] \in Messages /\ x \in Nodes
    BY <1>8
  <2>2. CASE t \in tasks
    <3>1. t[1] # m
      BY <1>1, <1>3, <2>2
    <3>2. QED
      BY ZenonT(30), <1>1, <1>2, <1>5, <2>1, <2>2, <3>1 DEF InTransit
  <2>3. CASE t[1] = m /\ t[2] = nodes[n]
    <3>1. x # n
      BY <1>2, <2>3 DEF OthersKnown
    <3>2. ~InLog(m, x)
      BY <1>1, <1>3, <2>1
    <3>3. QED
      BY ZenonT(30), <1>1, <1>3, <1>5, <2>1, <2>3, <3>1, <3>2
  <2>4. QED
    BY <1>6, <2>2, <2>3
<1>12. ASSUME NEW p \in Messages, NEW x \in Nodes, <<p, x>> \in arrived'
       PROVE  Travels(p)' /\ x # Origin[p] /\ ~InLog(p, x)'
  <2>1. p # m
    BY <1>1, <1>3, <1>12
  <2>2. QED
    BY <1>1, <1>2, <1>5, <1>12, <2>1 DEF InTransit, Travels
<1>13. \A p \in Messages, x \in Nodes :
         InLog(p, x)' => p \in published' /\ (Reach[p] = "Local" => x = Origin[p])
  BY <1>1, <1>2, <1>5 DEF InTransit
<1>14. InTransit'
  BY ZenonT(30), <1>9, <1>10, <1>11, <1>12, <1>13 DEF InTransit
<1>15. QED
  BY <1>4, <1>8, <1>14

\* notify_node: the message leaves the task for one node.
LEMMA NotifyTravels ==
    ASSUME IInv, NEW t \in tasks, NEW n \in Nodes, notify_node(t, n)
    PROVE  /\ InTransit' /\ tasks' \subseteq Messages \X SUBSET Nodes
           /\ arrived' \subseteq Messages \X Nodes
<1>1. Types /\ InTransit
  BY DEF IInv
<1>2. PICK m \in Messages, S \in SUBSET Nodes : t = <<m, S>>
  BY SMT, <1>1 DEF Types
<1>3. /\ n \in S /\ UNCHANGED <<log, published>>
      /\ tasks' = (tasks \ {t}) \cup (IF S = {n} THEN {} ELSE {<<m, S \ {n}>>})
      /\ arrived \subseteq arrived' /\ arrived' \subseteq arrived \cup {<<m, n>>}
  BY <1>2 DEF notify_node, channels
<1>4. \A p, x : InLog(p, x)' <=> InLog(p, x)
  BY <1>3 DEF InLog
<1>5. /\ Travels(m) /\ S \subseteq OtherNodes(m)
      /\ \A x \in S : <<m, x>> \notin arrived /\ ~InLog(m, x)
  <2>1. t[1] = m /\ t[2] = S
    BY <1>2
  <2>2. QED
    BY <1>1, <2>1 DEF InTransit
<1>6. ASSUME NEW u \in tasks'
      PROVE  \/ u \in tasks /\ u # t /\ u[1] # m
             \/ u = <<m, S \ {n}>> /\ u[1] = m /\ u[2] = S \ {n}
  <2>1. u \in tasks /\ u # t => u[1] # m
    BY <1>1, <1>2 DEF InTransit
  <2>2. QED
    BY SMT, <1>3, <2>1
<1>7. \A u \in tasks' : Travels(u[1])' /\ u[2] \subseteq OtherNodes(u[1])
  BY <1>1, <1>3, <1>5, <1>6 DEF InTransit, Travels
<1>8. \A u, v \in tasks' : u[1] = v[1] => u = v
  BY <1>1, <1>6 DEF InTransit
<1>9. ASSUME NEW u \in tasks', NEW x \in u[2]
      PROVE  <<u[1], x>> \notin arrived' /\ ~InLog(u[1], x)'
  <2>1. CASE u \in tasks /\ u[1] # m
    BY <1>1, <1>3, <1>4, <2>1 DEF InTransit
  <2>2. CASE u[1] = m /\ u[2] = S \ {n}
    BY <1>3, <1>4, <1>5, <2>2
  <2>3. QED
    BY <1>6, <2>1, <2>2
<1>10. ASSUME NEW p \in Messages, NEW x \in Nodes, <<p, x>> \in arrived'
       PROVE  Travels(p)' /\ x # Origin[p] /\ ~InLog(p, x)'
  <2>1. CASE <<p, x>> \in arrived
    BY <1>1, <1>3, <1>4, <2>1 DEF InTransit, Travels
  <2>2. CASE <<p, x>> = <<m, n>>
    BY <1>3, <1>4, <1>5, <2>2 DEF Travels, OtherNodes
  <2>3. QED
    BY <1>3, <1>10, <2>1, <2>2
<1>11. \A p \in Messages, x \in Nodes :
         InLog(p, x)' => p \in published' /\ (Reach[p] = "Local" => x = Origin[p])
  BY <1>1, <1>3, <1>4 DEF InTransit
<1>12. InTransit'
  BY ZenonT(30), <1>7, <1>8, <1>9, <1>10, <1>11 DEF InTransit
<1>13. tasks' \subseteq Messages \X SUBSET Nodes /\ arrived' \subseteq Messages \X Nodes
  BY SMT, <1>1, <1>3 DEF Types
<1>14. QED
  BY <1>12, <1>13

\* PublishRaw: it arrives on that node, and goes no further.
LEMMA PublishRawTravels ==
    ASSUME IInv, NEW n \in Nodes, NEW m \in Messages, PublishRaw(n, m)
    PROVE  InTransit' /\ BroadcastOnce'
<1>1. Types /\ InTransit /\ BroadcastOnce
  BY DEF IInv
<1>2. /\ <<m, n>> \in arrived /\ arrived' = arrived \ {<<m, n>>} /\ Broadcast(n, m)
      /\ UNCHANGED <<published, tasks>>
  BY DEF PublishRaw
<1>3. Travels(m) /\ n # Origin[m] /\ ~InLog(m, n)
  BY <1>1, <1>2 DEF InTransit
<1>4. BroadcastOnce'
  BY <1>1, <1>2, <1>3, BroadcastIsNew DEF Travels
<1>5. \A p \in Messages, x \in Nodes : InLog(p, x)' => InLog(p, x) \/ (p = m /\ x = n)
  BY <1>1, <1>2, BroadcastLogs
<1>6. \A t \in tasks' : Travels(t[1])' /\ t[2] \subseteq OtherNodes(t[1])
  BY <1>1, <1>2 DEF InTransit, Travels
<1>7. \A t, u \in tasks' : t[1] = u[1] => t = u
  BY <1>1, <1>2 DEF InTransit
<1>8. ASSUME NEW t \in tasks', NEW x \in t[2]
      PROVE  <<t[1], x>> \notin arrived' /\ ~InLog(t[1], x)'
  <2>1. t \in tasks /\ t[1] \in Messages /\ x \in Nodes
    BY <1>1, <1>2 DEF Types
  <2>2. <<t[1], x>> \notin arrived /\ ~InLog(t[1], x)
    BY <1>1, <2>1 DEF InTransit
  <2>3. ~(t[1] = m /\ x = n)
    BY <1>2, <2>2
  <2>4. QED
    BY ZenonT(30), <1>2, <1>5, <2>1, <2>2, <2>3
<1>9. ASSUME NEW p \in Messages, NEW x \in Nodes, <<p, x>> \in arrived'
      PROVE  Travels(p)' /\ x # Origin[p] /\ ~InLog(p, x)'
  <2>1. <<p, x>> \in arrived /\ ~(p = m /\ x = n)
    BY <1>2, <1>9
  <2>2. QED
    BY <1>1, <1>2, <1>5, <2>1 DEF InTransit, Travels
<1>10. \A p \in Messages, x \in Nodes :
         InLog(p, x)' => p \in published' /\ (Reach[p] = "Local" => x = Origin[p])
  BY ZenonT(30), <1>1, <1>2, <1>3, <1>5 DEF InTransit, Travels
<1>11. InTransit'
  BY <1>6, <1>7, <1>8, <1>9, <1>10 DEF InTransit
<1>12. QED
  BY <1>4, <1>11

-----------------------------------------------------------------------------
(* The invariant *)

\* A cluster without subscribers and publications.
LEMMA InitIInv == Init => IInv
<1> SUFFICES ASSUME Init PROVE IInv
  OBVIOUS
<1> USE DEF Init
<1>1. Types
  BY SMT DEF Types
<1>2. ASSUME NEW s \in Subscribers
      PROVE  Reads(s)
  <2>1. received[s] = <<>> /\ start[s] = 0 /\ log[Home[s]] = <<>> /\ Len(<<>>) = 0
    BY PubSubAssumption
  <2>2. QED
    BY SMT, <2>1 DEF Reads
<1>3. OthersKnown /\ InTransit /\ BroadcastOnce
  <2>1. \A n \in Nodes : DOMAIN log[n] = {}
    BY SMT
  <2>2. OthersKnown
    BY DEF OthersKnown
  <2>3. InTransit
    BY <2>1 DEF InTransit, InLog
  <2>4. BroadcastOnce
    BY <2>1 DEF BroadcastOnce
  <2>5. QED
    BY <2>2, <2>3, <2>4
<1>4. QED
  BY <1>1, <1>2, <1>3 DEF IInv

\* Steps that broadcast nothing and move no publication.
LEMMA QuietStep ==
    ASSUME IInv, UNCHANGED <<log, published, tasks, arrived>>
    PROVE  InTransit' /\ BroadcastOnce'
<1>1. \A p, x : InLog(p, x)' <=> InLog(p, x)
  BY DEF InLog
<1>2. InTransit'
  BY <1>1 DEF IInv, InTransit, Travels
<1>3. BroadcastOnce'
  BY SMT DEF IInv, BroadcastOnce
<1>4. QED
  BY <1>2, <1>3

\* The subscriptions' steps.
LEMMA SubscriptionSteps ==
    ASSUME IInv, NEW s \in Subscribers, Receive(s) \/ Subscribe(s) \/ Unsubscribe(s) \/ Stop(s)
    PROVE  IInv'
<1>1. UNCHANGED <<log, published, tasks, arrived, nodes, system>>
  BY DEF Receive, Subscribe, Unsubscribe, Stop, channels, publications, membership
<1>2. InTransit' /\ BroadcastOnce' /\ OthersKnown'
  BY <1>1, QuietStep DEF IInv, OthersKnown
<1>3. Types /\ Reads(s)
  BY DEF IInv
<1>4. Reads(s)' /\ received' \in [Subscribers -> Seq(Messages)]
  <2>1. CASE Receive(s)
    BY <1>3, <2>1, ReceiveReads
  <2>2. CASE Subscribe(s)
    BY <1>3, <2>2, SubscribeReads DEF Subscribe, Types
  <2>3. CASE Unsubscribe(s)
    <3>1. state'[s] = "ended" /\ UNCHANGED <<received, start>>
      BY <1>3, <2>3 DEF Unsubscribe, Types
    <3>2. QED
      BY <1>1, <1>3, <3>1, ReadsKept DEF Types
  <2>4. CASE Stop(s)
    BY <1>1, <1>3, <2>4, ReadsKept DEF Stop, Types
  <2>5. QED
    BY <2>1, <2>2, <2>3, <2>4
<1>5. ASSUME NEW x \in Subscribers, x # s
      PROVE  Reads(x)'
  <2>1. received'[x] = received[x] /\ start'[x] = start[x] /\ state'[x] = state[x]
    BY <1>3, <1>5 DEF Receive, Subscribe, Unsubscribe, Stop, Types
  <2>2. Reads(x)
    BY DEF IInv
  <2>3. QED
    BY ZenonT(30), <1>1, <1>3, <2>1, <2>2, ReadsKept
<1>6. topic' \in [Nodes -> BOOLEAN]
  BY <1>3, PubSubAssumption DEF Receive, Subscribe, Unsubscribe, Stop, Types, channels
<1>7. start' \in [Subscribers -> Nat]
  <2>1. Len(log[Home[s]]) \in Nat
    BY SMT, <1>3, PubSubAssumption DEF Types
  <2>2. QED
    BY <1>3, <2>1 DEF Receive, Subscribe, Unsubscribe, Stop, Types
<1>8. state' \in [Subscribers -> {"none", "active", "ended"}]
  BY <1>3 DEF Receive, Subscribe, Unsubscribe, Stop, Types
<1>9. Types'
  BY ZenonT(30), <1>1, <1>3, <1>4, <1>6, <1>7, <1>8 DEF Types
<1>10. QED
  BY <1>2, <1>4, <1>5, <1>9 DEF IInv

\* The steps of mediators and tasks with publications.
LEMMA PublicationSteps ==
    ASSUME IInv, UNCHANGED <<topic, subscriptions, membership>>,
           \/ \E n \in Nodes, m \in Messages : Publish(n, m) \/ PublishRaw(n, m)
           \/ \E t \in tasks : \E n \in Nodes : notify_node(t, n)
    PROVE  IInv'
<1>1. UNCHANGED <<topic, state, start, received, nodes, system>>
  BY DEF subscriptions, membership
<1>2. UNCHANGED log \/ \E n \in Nodes, m \in Messages : Broadcast(n, m)
  BY DEF Publish, PublishRaw, notify_node, channels
<1>3. Types
  BY DEF IInv
<1>4. \A s \in Subscribers : Reads(s)'
  BY <1>1, <1>2, <1>3, ReadsKept DEF IInv
<1>5. log' \in [Nodes -> Seq(Messages)]
  BY <1>2, <1>3, BroadcastGrows DEF Types
<1>6. OthersKnown'
  BY <1>1 DEF IInv, OthersKnown
<1> DEFINE Travelled ==
             /\ published' \subseteq Messages /\ tasks' \subseteq Messages \X SUBSET Nodes
             /\ arrived' \subseteq Messages \X Nodes /\ InTransit' /\ BroadcastOnce'
<1>7. Travelled
  <2>1. ASSUME NEW n \in Nodes, NEW m \in Messages, Publish(n, m)
        PROVE  Travelled
    BY <1>3, <2>1, PublishTravels DEF Publish, Types
  <2>2. ASSUME NEW n \in Nodes, NEW m \in Messages, PublishRaw(n, m)
        PROVE  Travelled
    BY <1>3, <2>2, PublishRawTravels DEF PublishRaw, Types
  <2>3. ASSUME NEW t \in tasks, NEW n \in Nodes, notify_node(t, n)
        PROVE  Travelled
    <3>1. UNCHANGED <<published, log>>
      BY <2>3 DEF notify_node, channels
    <3>2. BroadcastOnce'
      BY SMT, <3>1 DEF IInv, BroadcastOnce
    <3>3. QED
      BY <1>3, <2>3, <3>1, <3>2, NotifyTravels DEF Types
  <2>4. QED
    BY <2>1, <2>2, <2>3
<1>8. Types'
  BY <1>1, <1>3, <1>5, <1>7 DEF Types
<1>9. QED
  BY <1>4, <1>6, <1>7, <1>8 DEF IInv

\* Membership.
LEMMA MembershipSteps ==
    ASSUME IInv, UNCHANGED <<channels, subscriptions, publications>>,
           \/ \E n \in Nodes : ReceiveSystem(n)
           \/ \E l \in Links : NodeAdded(l[1], l[2]) \/ Forget(l[1], l[2]) \/ NodeRemoved(l[1], l[2])
    PROVE  IInv'
<1>1. UNCHANGED <<topic, log, state, start, received, published, tasks, arrived>>
  BY DEF channels, subscriptions, publications
<1>2. InTransit' /\ BroadcastOnce'
  BY <1>1, QuietStep
<1>3. Types
  BY DEF IInv
<1>4. \A s \in Subscribers : Reads(s)'
  BY <1>1, <1>3, ReadsKept DEF IInv
<1> DEFINE Known ==
             system' \in [Nodes -> Seq(Event)] /\ nodes' \in [Nodes -> SUBSET Nodes] /\ OthersKnown'
<1>5. Known
  <2>1. ASSUME NEW n \in Nodes, ReceiveSystem(n)
        PROVE  Known
    <3>1. PICK q \in Seq(Event) : q = system[n]
      BY <1>3 DEF Types
    <3>2. q # <<>>
      BY <2>1, <3>1 DEF ReceiveSystem
    <3>3. Head(q) \in Event /\ Tail(q) \in Seq(Event)
      BY SMT, <3>2
    <3>4. system' = [system EXCEPT ![n] = Tail(q)]
      BY <2>1, <3>1 DEF ReceiveSystem
    <3>5. system' \in [Nodes -> Seq(Event)]
      BY <1>3, <3>3, <3>4 DEF Types
    <3>6. PICK p \in Nodes : p = Head(q)[2]
      BY <3>3 DEF Event
    <3>7. PICK S \in SUBSET Nodes : n \notin S /\ nodes' = [nodes EXCEPT ![n] = S]
      <4>1. nodes[n] \in SUBSET Nodes /\ n \notin nodes[n]
        BY <1>3 DEF Types, IInv, OthersKnown
      <4>2. \/ nodes' = [nodes EXCEPT ![n] = nodes[n] \cup ({p} \ {n})]
            \/ nodes' = [nodes EXCEPT ![n] = nodes[n] \ {p}]
        BY <2>1, <3>1, <3>6 DEF ReceiveSystem
      <4>3. QED
        BY <4>1, <4>2
    <3>8. nodes' \in [Nodes -> SUBSET Nodes] /\ \A x \in Nodes : x \notin nodes'[x]
      BY <1>3, <3>7 DEF Types, IInv, OthersKnown
    <3>9. QED
      BY <3>5, <3>8 DEF OthersKnown
  <2>2. ASSUME NEW l \in Links, NodeAdded(l[1], l[2]) \/ Forget(l[1], l[2]) \/ NodeRemoved(l[1], l[2])
        PROVE  Known
    <3>1. l[1] \in Nodes /\ l[2] \in Nodes
      BY PubSubAssumption
    <3>2. UNCHANGED nodes
      BY <2>2 DEF NodeAdded, Forget, NodeRemoved
    <3>3. \/ UNCHANGED system
          \/ \E k \in {"NodeAdded", "NodeRemoved"} :
                system' = [system EXCEPT ![l[1]] = Append(@, <<k, l[2]>>)]
      BY <2>2 DEF NodeAdded, Forget, NodeRemoved
    <3>4. \A k \in {"NodeAdded", "NodeRemoved"} :
             <<k, l[2]>> \in Event /\ Append(system[l[1]], <<k, l[2]>>) \in Seq(Event)
      BY SMT, <1>3, <3>1 DEF Event, Types
    <3>5. system' \in [Nodes -> Seq(Event)]
      BY ZenonT(30), <1>3, <3>1, <3>3, <3>4 DEF Types
    <3>6. QED
      BY <1>3, <3>2, <3>5 DEF Types, IInv, OthersKnown
  <2>3. QED
    BY <2>1, <2>2
<1>6. Types'
  BY <1>1, <1>3, <1>5 DEF Types
<1>7. QED
  BY <1>2, <1>4, <1>5, <1>6 DEF IInv

\* Every step preserves the invariant.
LEMMA NextIInv == IInv /\ [Next]_vars => IInv'
<1>1. ASSUME IInv, Next
      PROVE  IInv'
  <2>1. CASE \E s \in Subscribers : Receive(s) \/ Subscribe(s) \/ Unsubscribe(s) \/ Stop(s)
    BY <1>1, <2>1, SubscriptionSteps
  <2>2. CASE \/ \E n \in Nodes, m \in Messages : Publish(n, m) \/ PublishRaw(n, m)
             \/ \E t \in tasks : \E n \in Nodes : notify_node(t, n)
    <3>1. UNCHANGED <<topic, subscriptions, membership>>
      BY <2>2 DEF Publish, PublishRaw, notify_node, channels
    <3>2. QED
      BY <1>1, <2>2, <3>1, PublicationSteps
  <2>3. CASE \/ \E n \in Nodes : ReceiveSystem(n)
             \/ \E l \in Links : NodeAdded(l[1], l[2]) \/ Forget(l[1], l[2]) \/ NodeRemoved(l[1], l[2])
    <3>1. UNCHANGED <<channels, subscriptions, publications>>
      BY <2>3 DEF ReceiveSystem, NodeAdded, Forget, NodeRemoved
    <3>2. QED
      BY <1>1, <2>3, <3>1, MembershipSteps
  <2>4. QED
    BY <1>1, <2>1, <2>2, <2>3 DEF Next, TaskStep
<1>2. ASSUME IInv, UNCHANGED vars
      PROVE  IInv'
  <2>1. UNCHANGED <<topic, log, state, start, received, published, tasks, arrived, nodes, system>>
    BY <1>2 DEF vars, channels, subscriptions, publications, membership
  <2>2. Types' /\ OthersKnown'
    BY <1>2, <2>1 DEF IInv, Types, OthersKnown
  <2>3. \A s \in Subscribers : Reads(s)'
    BY <1>2, <2>1, ReadsKept DEF IInv
  <2>4. QED
    BY ZenonT(30), <1>2, <2>1, <2>2, <2>3, QuietStep DEF IInv
<1>3. QED
  BY <1>1, <1>2

\* What the log has from the subscription on begins with what was sent.
LEMMA ReadsIsPrefix ==
    ASSUME Types, NEW s \in Subscribers, Reads(s)
    PROVE  IsPrefix(received[s], SubSeq(log[Home[s]], start[s] + 1, Len(log[Home[s]])))
<1>1. PICK l \in Seq(Messages) : l = log[Home[s]]
  BY PubSubAssumption DEF Types
<1>2. PICK q \in Seq(Messages) : q = received[s]
  BY DEF Types
<1>3. PICK k \in Nat : k = start[s]
  BY DEF Types
<1>4. k + Len(q) <= Len(l) /\ \A i \in 1 .. Len(q) : q[i] = l[k + i]
  BY <1>1, <1>2, <1>3 DEF Reads
<1>5. PICK t : t = SubSeq(l, k + 1, Len(l))
  OBVIOUS
<1>6. Len(l) \in Nat /\ Len(q) \in Nat
  BY SMT
<1>7. /\ t \in Seq(Messages) /\ Len(t) = Len(l) - k
      /\ \A i \in 1 .. Len(l) - k : t[i] = l[k + i]
  BY SMT, <1>4, <1>5, <1>6
<1>8. Len(q) <= Len(t)
  BY SMTT(30), <1>4, <1>6, <1>7
<1>9. SubSeq(q, 1, Len(q)) = SubSeq(t, 1, Len(q))
  <2>1. PICK u : u = SubSeq(q, 1, Len(q))
    OBVIOUS
  <2>2. PICK v : v = SubSeq(t, 1, Len(q))
    OBVIOUS
  <2>3. u \in Seq(Messages) /\ Len(u) = Len(q) /\ \A i \in 1 .. Len(q) : u[i] = q[i]
    BY SMTT(30), <1>6, <2>1
  <2>4. v \in Seq(Messages) /\ Len(v) = Len(q) /\ \A i \in 1 .. Len(q) : v[i] = t[i]
    BY SMTT(30), <1>6, <1>7, <1>8, <2>2
  <2>5. \A i \in 1 .. Len(q) : u[i] = v[i]
    BY SMTT(30), <1>4, <1>6, <1>7, <1>8, <2>3, <2>4
  <2>6. u = v
    BY SMT, <2>3, <2>4, <2>5
  <2>7. QED
    BY <2>1, <2>2, <2>6
<1>10. QED
  BY ZenonT(30), <1>1, <1>2, <1>3, <1>5, <1>8, <1>9 DEF IsPrefix

-----------------------------------------------------------------------------
(* Theorems *)

\* The invariant holds in every state of every behaviour.
THEOREM PubSubInvariance == Spec => []IInv
<1>1. Init => IInv
  BY InitIInv
<1>2. IInv /\ [Next]_vars => IInv'
  BY NextIInv
<1>3. QED
  BY <1>1, <1>2, PTL DEF Spec

\* A subscriber is sent a gapless run of its node's broadcasts, from its
\* subscription on, however far it falls behind (Subscription's receive loop:
\* a lagging receiver ends, it does not skip).
THEOREM SubscribersMissNothing == Spec => []NoGaps
<1>1. IInv => NoGaps
  BY ReadsIsPrefix DEF IInv, NoGaps
<1>2. QED
  BY <1>1, PubSubInvariance, PTL

\* A publication is broadcast at most once on a node, and one with
\* Reach::Local only on the node where it was made (Publish, notify_node and
\* PublishRaw of the mediator), however the nodes discover and forget each other.
THEOREM PublicationsAreBroadcastOnce == Spec => []BroadcastOnce
<1>1. IInv => BroadcastOnce
  BY DEF IInv
<1>2. QED
  BY <1>1, PubSubInvariance, PTL
=============================================================================
