----------------------- MODULE ShardCoordinatorProofs -----------------------
(***************************************************************************)
(* Proofs about ShardCoordinator, for every set of nodes, every finite set *)
(* of shards and every bound.                                              *)
(***************************************************************************)
EXTENDS ShardCoordinator, FiniteSetTheorems, TLAPS

Journalled(s) == \E i \in DOMAIN log : log[i] = s

\* A coordinator that is down has nothing: what the next one starts from.
DownIsEmpty ==
    ~Running => /\ host_shards = [n \in Nodes |-> {}]
                /\ shards = [s \in Shards |-> NoNode]
                /\ stops = [s \in Shards |-> [n \in Nodes |-> 0]]
                /\ work = <<>>

\* What a handler or a recovery has still to allocate is journalled already.
WorkIsJournalled == \A i \in DOMAIN work : Journalled(work[i])

IInv == /\ TypeOK
        /\ OneAssignment
        /\ AssignedToReady
        /\ AllocatedIsJournalled
        /\ DownIsEmpty
        /\ WorkIsJournalled

\* Any order in which a loop visits a set of shards is a sequence of them.
LEMMA OrderingsType ==
    ASSUME NEW S \in SUBSET Shards, NEW q \in Orderings(S)
    PROVE  q \in Seq(Shards) /\ \A i \in DOMAIN q : q[i] \in S
<1>1. IsFiniteSet(S)
  BY ShardsAssumption, FS_Subset
<1>2. Cardinality(S) \in Nat
  BY <1>1, FS_CardinalityType
<1>3. QED
  BY <1>2 DEF Orderings

\* Handlers and tasks that leave the assignment alone: they may add to the
\* journal, set the work of the loop, answer tasks or touch the timer.
LEMMA AssignmentUnchanged ==
    ASSUME IInv, UNCHANGED <<self_node_id, status, host_shards, shards>>
    PROVE  OneAssignment' /\ AssignedToReady'
BY DEF IInv, OneAssignment, AssignedToReady, Allocated, is_ready, Running

\* Appending to the journal forgets nothing.
LEMMA AppendKeeps ==
    ASSUME NEW s \in Shards, log \in Seq(Shards), log' = Append(log, s)
    PROVE  /\ log' \in Seq(Shards)
           /\ Journalled(s)'
           /\ \A x : Journalled(x) => Journalled(x)'
<1>1. log' \in Seq(Shards) /\ Len(log') = Len(log) + 1 /\ DOMAIN log' = 1..Len(log) + 1
  OBVIOUS
<1>2. log'[Len(log) + 1] = s /\ \A i \in DOMAIN log : i \in DOMAIN log' /\ log'[i] = log[i]
  OBVIOUS
<1>3. QED
  BY <1>1, <1>2 DEF Journalled

\* The invariant holds initially.
LEMMA InitIInv == Init => IInv
<1> SUFFICES ASSUME Init PROVE IInv
  OBVIOUS
<1>1. TypeOK
  <2>1. log \in Seq(Shards) /\ work \in Seq(Shards)
    BY DEF Init
  <2>2. stops \in [Shards -> [Nodes -> Nat]]
    BY DEF Init
  <2>3. scheduled \in BOOLEAN
    BY Zenon DEF Init
  <2>4. QED
    BY <2>1, <2>2, <2>3 DEF Init, TypeOK, Statuses
<1>2. OneAssignment /\ AssignedToReady
  BY NodesAssumption DEF Init, OneAssignment, AssignedToReady, Allocated, Running
<1>3. AllocatedIsJournalled
  BY DEF Init, AllocatedIsJournalled
<1>4. DownIsEmpty /\ WorkIsJournalled
  BY DEF Init, DownIsEmpty, WorkIsJournalled
<1>5. QED
  BY <1>1, <1>2, <1>3, <1>4 DEF IInv

-----------------------------------------------------------------------------
(* Each action preserves IInv. *)

\* Recovering the coordinator on a node keeps the invariant.
LEMMA StartStep ==
    ASSUME IInv, NEW n \in Nodes, NEW nodes \in [Nodes -> Statuses], pre_recovery(n, nodes)
    PROVE  IInv'
<1> USE DEF IInv, pre_recovery
<1>1. TypeOK'
  BY DEF TypeOK, Statuses
<1>2. OneAssignment' /\ AllocatedIsJournalled'
  BY DEF OneAssignment, AllocatedIsJournalled
<1>3. AssignedToReady'
  BY DEF TypeOK, AssignedToReady, DownIsEmpty, Allocated, is_ready, Running
<1>4. DownIsEmpty'
  BY NodesAssumption DEF DownIsEmpty, Running
<1>5. WorkIsJournalled'
  BY DEF WorkIsJournalled, Journalled
<1>6. QED
  BY <1>1, <1>2, <1>3, <1>4, <1>5

\* Stopping the coordinator keeps the invariant.
LEMMA StopStep ==
    ASSUME IInv, Stop
    PROVE  IInv'
<1> USE DEF IInv, Stop
<1>1. TypeOK'
  <2>1. work' \in Seq(Shards) /\ stops' \in [Shards -> [Nodes -> Nat]]
    OBVIOUS
  <2>2. scheduled' \in BOOLEAN
    BY Zenon
  <2>3. QED
    BY <2>1, <2>2 DEF TypeOK, Statuses, Spend
<1>2. OneAssignment' /\ AssignedToReady'
  BY NodesAssumption DEF OneAssignment, AssignedToReady, Allocated, Running
<1>3. AllocatedIsJournalled'
  BY DEF AllocatedIsJournalled
<1>4. DownIsEmpty' /\ WorkIsJournalled'
  BY DEF DownIsEmpty, WorkIsJournalled
<1>5. QED
  BY <1>1, <1>2, <1>3, <1>4

\* Allocating a shard keeps the invariant.
LEMMA AllocateShardStep ==
    ASSUME IInv, allocate_shard
    PROVE  IInv'
<1> DEFINE s == Head(work)
<1> USE DEF IInv
<1>1. /\ work # <<>>
      /\ work \in Seq(Shards)
      /\ work' = Tail(work)
      /\ UNCHANGED <<self_node_id, status, log, stops, scheduled, fired, events>>
  BY DEF allocate_shard, TypeOK
<1>2. /\ s \in Shards /\ Journalled(s)
      /\ work' \in Seq(Shards)
      /\ WorkIsJournalled'
  BY <1>1 DEF WorkIsJournalled, Journalled
<1>3. DownIsEmpty'
  BY <1>1 DEF DownIsEmpty, Running
<1>4. CASE UNCHANGED <<shards, host_shards>>
  <2>1. TypeOK'
    BY <1>1, <1>2, <1>4 DEF TypeOK
  <2>2. OneAssignment' /\ AssignedToReady'
    BY <1>1, <1>4, AssignmentUnchanged
  <2>3. AllocatedIsJournalled'
    BY <1>1, <1>4 DEF AllocatedIsJournalled
  <2>4. QED
    BY <1>2, <1>3, <2>1, <2>2, <2>3
<1>5. ASSUME NEW n \in Nodes, shards[s] = NoNode, allocate(s, n)
      PROVE  IInv'
  <2>1. /\ shards' = [shards EXCEPT ![s] = n]
        /\ host_shards' = [host_shards EXCEPT ![n] = @ \cup {s}]
        /\ is_ready(n)
    BY <1>5 DEF allocate, LeastLoaded
  <2>2. TypeOK'
    BY <1>1, <1>2, <2>1 DEF TypeOK
  <2>3. OneAssignment'
    BY <1>2, <1>5, <2>1, NodesAssumption DEF OneAssignment, TypeOK
  <2>4. AssignedToReady'
    BY <1>1, <1>2, <2>1 DEF AssignedToReady, Allocated, is_ready, Running, TypeOK
  <2>5. AllocatedIsJournalled'
    BY <1>1, <1>2, <2>1 DEF AllocatedIsJournalled, Journalled, TypeOK
  <2>6. QED
    BY <1>2, <1>3, <2>2, <2>3, <2>4, <2>5
<1>6. QED
  BY <1>4, <1>5 DEF allocate_shard

\* Handling AllocateShard keeps the invariant.
LEMMA RequestStep ==
    ASSUME IInv, NEW s \in Shards, AllocateShard(s)
    PROVE  IInv'
<1> USE DEF IInv, AllocateShard
<1>1. /\ log' \in Seq(Shards)
      /\ Journalled(s)'
      /\ \A x : Journalled(x) => Journalled(x)'
  BY AppendKeeps DEF TypeOK
<1>2. TypeOK'
  BY <1>1 DEF TypeOK
<1>3. OneAssignment' /\ AssignedToReady'
  BY AssignmentUnchanged
<1>4. AllocatedIsJournalled'
  BY <1>1 DEF AllocatedIsJournalled, Journalled
<1>5. DownIsEmpty'
  BY DEF DownIsEmpty, Idle, Running
<1>6. WorkIsJournalled'
  BY <1>1 DEF WorkIsJournalled
<1>7. QED
  BY <1>2, <1>3, <1>4, <1>5, <1>6

\* Allocating a shard again once its old host has stopped it keeps the invariant.
LEMMA AnswerStep ==
    ASSUME IInv, NEW s \in Shards, NEW n \in Nodes, AllocateRebalanced(s, n)
    PROVE  IInv'
<1> USE DEF IInv, AllocateRebalanced
<1>1. TypeOK'
  BY DEF TypeOK
<1>2. OneAssignment' /\ AssignedToReady'
  BY AssignmentUnchanged
<1>3. AllocatedIsJournalled'
  BY DEF AllocatedIsJournalled, TypeOK
<1>4. DownIsEmpty'
  BY DEF DownIsEmpty, Idle, Running
<1>5. WorkIsJournalled'
  BY DEF WorkIsJournalled, Journalled, AllocatedIsJournalled
<1>6. QED
  BY <1>1, <1>2, <1>3, <1>4, <1>5

\* A stop that fails keeps the invariant.
LEMMA StopFailedStep ==
    ASSUME IInv, NEW s \in Shards, NEW n \in Nodes, StopFailed(s, n)
    PROVE  IInv'
<1> USE DEF IInv, StopFailed
<1>1. TypeOK'
  BY DEF TypeOK
<1>2. OneAssignment' /\ AssignedToReady'
  BY AssignmentUnchanged
<1>3. AllocatedIsJournalled' /\ WorkIsJournalled'
  BY DEF AllocatedIsJournalled, WorkIsJournalled, Journalled, TypeOK
<1>4. DownIsEmpty'
  BY DEF DownIsEmpty, Running
<1>5. QED
  BY <1>1, <1>2, <1>3, <1>4

\* What both kinds of rebalance have in common.
LEMMA RebalanceStep ==
    ASSUME IInv, Idle, NEW R \in SUBSET Shards, rebalance_shards(R),
           UNCHANGED <<self_node_id, status, log, work, scheduled>>,
           fired' \in Nat, events' \in Nat
    PROVE  IInv'
<1> USE DEF IInv, rebalance_shards
<1>1. TypeOK'
  BY DEF TypeOK
<1>2. OneAssignment'
  BY NodesAssumption DEF OneAssignment, TypeOK
<1>3. AssignedToReady'
  BY DEF AssignedToReady, Allocated, is_ready, Running, TypeOK
<1>4. AllocatedIsJournalled'
  BY NodesAssumption DEF AllocatedIsJournalled, TypeOK
<1>5. DownIsEmpty' /\ WorkIsJournalled'
  BY DEF DownIsEmpty, WorkIsJournalled, Journalled, Idle, Running
<1>6. QED
  BY <1>1, <1>2, <1>3, <1>4, <1>5

\* Discovering a node, and the rebalance that follows, keeps the invariant.
LEMMA NodeDiscoveredStep ==
    ASSUME IInv, NEW n \in Nodes, on_node_discovered(n)
    PROVE  IInv'
<1> USE DEF IInv, on_node_discovered
<1>1. TypeOK'
  <2>1. scheduled' \in BOOLEAN
    BY Zenon
  <2>2. QED
    BY <2>1 DEF TypeOK, Statuses, Spend
<1>2. OneAssignment' /\ AllocatedIsJournalled'
  BY DEF OneAssignment, AllocatedIsJournalled
<1>3. AssignedToReady'
  BY DEF AssignedToReady, Allocated, is_ready, Running, TypeOK
<1>4. DownIsEmpty' /\ WorkIsJournalled'
  BY DEF DownIsEmpty, WorkIsJournalled, Journalled, Running
<1>5. QED
  BY <1>1, <1>2, <1>3, <1>4

\* Losing a node, and the rebalance that follows, keeps the invariant.
LEMMA NodeRemovedStep ==
    ASSUME IInv, NEW n \in Nodes, on_node_removed(n)
    PROVE  IInv'
<1> USE DEF IInv, on_node_removed
<1>1. work' \in Seq(Shards) /\ \A i \in DOMAIN work' : work'[i] \in host_shards[n]
  BY OrderingsType DEF TypeOK
<1>2. TypeOK'
  BY <1>1 DEF TypeOK, Statuses, Spend
<1>3. OneAssignment'
  BY NodesAssumption DEF OneAssignment, TypeOK
<1>4. AssignedToReady'
  BY DEF AssignedToReady, OneAssignment, Allocated, is_ready, Running, TypeOK
<1>5. AllocatedIsJournalled'
  BY DEF AllocatedIsJournalled, TypeOK
<1>6. DownIsEmpty'
  BY DEF DownIsEmpty, Idle, Running
<1>7. WorkIsJournalled'
  BY <1>1, NodesAssumption
     DEF WorkIsJournalled, Journalled, AllocatedIsJournalled, OneAssignment, TypeOK
<1>8. QED
  BY <1>2, <1>3, <1>4, <1>5, <1>6, <1>7

\* Every step keeps the invariant.
LEMMA NextIInv == IInv /\ [Next]_vars => IInv'
<1> SUFFICES ASSUME IInv, [Next]_vars PROVE IInv'
  OBVIOUS
<1>1. CASE Start
  BY <1>1, StartStep DEF Start
<1>2. CASE Stop
  BY <1>2, StopStep
<1>3. CASE allocate_shard
  BY <1>3, AllocateShardStep
<1>4. CASE \E s \in Shards : AllocateShard(s)
  BY <1>4, RequestStep
<1>5. CASE \E s \in Shards, n \in Nodes : AllocateRebalanced(s, n)
  BY <1>5, AnswerStep
<1>6. CASE \E s \in Shards, n \in Nodes : StopFailed(s, n)
  BY <1>6, StopFailedStep
<1>7. CASE RebalanceAll
  <2>1. PICK R \in SUBSET Allocated : rebalance_shards(R)
    BY <1>7 DEF RebalanceAll
  <2>2. R \in SUBSET Shards
    BY DEF Allocated
  <2>3. fired' \in Nat /\ events' \in Nat
    BY <1>7 DEF RebalanceAll, IInv, TypeOK
  <2>4. QED
    BY <1>7, <2>1, <2>2, <2>3, RebalanceStep DEF RebalanceAll
<1>8. CASE \E R \in SUBSET Shards : RebalanceShards(R)
  <2>1. PICK R \in SUBSET Shards : RebalanceShards(R)
    BY <1>8
  <2>2. fired' \in Nat /\ events' \in Nat
    BY <2>1 DEF RebalanceShards, Spend, IInv, TypeOK
  <2>3. QED
    BY <2>1, <2>2, RebalanceStep DEF RebalanceShards
<1>9. CASE RebalanceTimer
  <2> USE <1>9 DEF RebalanceTimer, IInv
  <2>1. TypeOK'
    <3>1. scheduled' \in BOOLEAN
      BY Zenon
    <3>2. QED
      BY <3>1 DEF TypeOK
  <2>2. OneAssignment' /\ AssignedToReady'
    BY AssignmentUnchanged
  <2>3. AllocatedIsJournalled' /\ DownIsEmpty' /\ WorkIsJournalled'
    BY DEF AllocatedIsJournalled, DownIsEmpty, WorkIsJournalled, Journalled, Running
  <2>4. QED
    BY <2>1, <2>2, <2>3
<1>10. CASE \E n \in Nodes : on_node_discovered(n)
  BY <1>10, NodeDiscoveredStep
<1>11. CASE \E n \in Nodes : on_node_removed(n)
  BY <1>11, NodeRemovedStep
<1>12. CASE UNCHANGED vars
  <2> USE <1>12 DEF vars, coordinator, IInv
  <2>1. TypeOK' /\ OneAssignment'
    BY DEF TypeOK, OneAssignment
  <2>2. AssignedToReady' /\ AllocatedIsJournalled'
    BY DEF AssignedToReady, AllocatedIsJournalled, Allocated, is_ready, Running
  <2>3. DownIsEmpty' /\ WorkIsJournalled'
    BY DEF DownIsEmpty, WorkIsJournalled, Journalled, Running
  <2>4. QED
    BY <2>1, <2>2, <2>3
<1>13. QED
  BY <1>1, <1>2, <1>3, <1>4, <1>5, <1>6, <1>7, <1>8, <1>9, <1>10, <1>11, <1>12 DEF Next

-----------------------------------------------------------------------------
(* Theorems *)

\* IInv is an invariant: what every theorem below follows from.
THEOREM Invariance == Spec => []IInv
BY InitIInv, NextIInv, PTL DEF Spec

\* The coordinator's fields keep their types through every handler and task.
THEOREM TypeCorrect == Spec => []TypeOK
<1>1. IInv => TypeOK
  BY DEF IInv
<1>2. QED
  BY <1>1, Invariance, PTL

\* `shards` and `hosts` always describe one assignment, so the unwrap of
\* hosts.get_mut in rebalance_shards never meets a missing host.
THEOREM AssignmentIsOne == Spec => []OneAssignment
<1>1. IInv => OneAssignment
  BY DEF IInv
<1>2. QED
  BY <1>1, Invariance, PTL

\* allocate_shard, rebalance_unavailable_node and recovery only ever leave
\* shards on hosts that are marked Ready.
THEOREM OnlyReadyHostsAssigned == Spec => []AssignedToReady
<1>1. IInv => AssignedToReady
  BY DEF IInv
<1>2. QED
  BY <1>1, Invariance, PTL

\* The journal knows every shard that is assigned or on the move, although
\* re-allocations are not journalled: the handler persists before it allocates.
THEOREM JournalCoversAssignment == Spec => []AllocatedIsJournalled
<1>1. IInv => AllocatedIsJournalled
  BY DEF IInv
<1>2. QED
  BY <1>1, Invariance, PTL

\* No step of the coordinator moves a shard from one host straight to another.
THEOREM MovesPassThroughNoHost == Spec => NoDirectMove
<1> DEFINE Direct(x) == shards[x] # NoNode => shards'[x] \in {shards[x], NoNode}
<1>1. ASSUME TypeOK, Next, NEW s \in Shards
      PROVE  Direct(s)
  <2>1. CASE allocate_shard
    <3>1. ASSUME shards[Head(work)] = NoNode, NEW n \in Nodes, allocate(Head(work), n)
          PROVE  Direct(s)
      BY <3>1 DEF allocate, TypeOK
    <3>2. QED
      BY <2>1, <3>1 DEF allocate_shard
  <2>2. CASE Stop \/ \E n \in Nodes : on_node_removed(n)
    BY <2>2 DEF Stop, on_node_removed, TypeOK
  <2>3. CASE RebalanceAll \/ \E R \in SUBSET Shards : RebalanceShards(R)
    BY <2>3 DEF RebalanceAll, RebalanceShards, rebalance_shards, TypeOK
  <2>4. CASE UNCHANGED shards
    BY <2>4
  <2>5. QED
    BY <1>1, <2>1, <2>2, <2>3, <2>4
       DEF Next, Start, pre_recovery, AllocateShard, AllocateRebalanced, StopFailed,
           RebalanceTimer, on_node_discovered
<1>2. TypeOK /\ [Next]_vars
        => [\A s \in Shards : shards[s] # NoNode => shards'[s] \in {shards[s], NoNode}]_vars
  BY <1>1
<1>3. QED
  BY <1>2, TypeCorrect, PTL DEF Spec, NoDirectMove
=============================================================================
