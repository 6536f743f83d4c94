------------------------ MODULE SingletonProofs ------------------------
(***************************************************************************)
(* Proofs about Singleton, for any nodes and clusters: no two nodes run    *)
(* the singleton, and a proxy keeps what it has buffered.                  *)
(*                                                                         *)
(* The invariant has two halves, one for each condition of OneNode.        *)
(* Without wrong suspicions nobody but the oldest running node has ever    *)
(* had a reason to start the actor (OldestLeads).  With them the lease     *)
(* protects the singleton (LeaseInv): what manager n needs of manager m is *)
(* in one place at a time, and two managers never both have the other's    *)
(* grant.  What the steps use of finite sets and of the order of node ids  *)
(* (Ordered, Counting) is shown at the end, where the library comes in.    *)
(***************************************************************************)
EXTENDS Singleton, TLAPS

\* Few steps need arithmetic or sequences; those name the SMT solver.
USE Zenon

Kinds == {"Joining", "Idle", "Starting", "Running", "Stopping"}
States == [kind : Kinds, nodes : SUBSET Nodes, actor : Nat]
Letters == [type : {"RequestLease", "LeaseAck", "SingletonStarted", "SingletonStopped"},
            from : Nodes, to : Nodes]
Events ==
    {MemberUp(l, N) : l \in Nodes, N \in SUBSET Nodes} \cup {LeaderChanged(l) : l \in Nodes}
    \cup {NodeAdded(n) : n \in Nodes} \cup {NodeRemoved(n) : n \in Nodes}

IsMail(B) == DOMAIN B \subseteq Letters /\ B \in [DOMAIN B -> Nat \ {0}]

Types ==
    /\ scenario \in Clusters /\ alive \subseteq Nodes /\ flaps \in Nat
    /\ view \in [Nodes -> SUBSET Nodes] /\ suspects \in [Nodes -> SUBSET Nodes]
    /\ leader \in [Nodes -> Nat]
    /\ news \in [Nodes -> Seq(Events)]
    /\ state \in [Nodes -> States]
    /\ managers \in [Nodes -> SUBSET Nodes]
    /\ IsMail(messages)
    /\ starts \in [Nodes -> Nat] /\ results \in [Nodes -> Seq(Nat)]
    /\ actors \subseteq [node : Nodes, id : Nat, stop : BOOLEAN] /\ last_id \in Nat
    /\ queue \in [Nodes -> SUBSET Requests]

\* A node that has been up knows itself, one that has not has done nothing, and
\* nothing is on the way to a node that is not up.
Presence ==
    /\ \A n \in alive \cup scenario.members : view[n] # {}
    /\ \A n \in Nodes : view[n] # {} => n \in view[n] \ suspects[n]
    /\ \A n \in Nodes : view[n] = {} =>
           /\ suspects[n] = {} /\ news[n] = <<>> /\ state[n].kind = "Joining"
           /\ starts[n] = 0 /\ results[n] = <<>>
    /\ \A x \in DOMAIN messages : x.to \in alive
    /\ \A a \in actors : a.node \in alive

Oldest(n) == \A m \in alive : n <= m

\* Node n was told to lead, or acts on it.
Leads(n) ==
    \/ \E i \in DOMAIN news[n] : news[n][i].type \in {"MemberUp", "LeaderChanged"} /\ news[n][i].leader = n
    \/ state[n].kind \in {"Starting", "Running", "Stopping"}
    \/ starts[n] > 0 \/ results[n] # <<>>

OldestLeads ==
    /\ \A n, m \in alive : m <= n => m \in view[n] \ suspects[n]
    /\ \A n \in alive : Leads(n) => Oldest(n)
    /\ \A a \in actors : Oldest(a.node)

Letter(type, from, to) == [type |-> type, from |-> from, to |-> to]

\* Where the acknowledgement that n needs of m is: m has not been asked yet, has
\* been asked before its MemberUp, has answered, and n has the answer.
Asked(n, m) == Letter("RequestLease", n, m) \in DOMAIN messages
Pending(n, m) == m \in alive /\ state[m].kind = "Joining" /\ n \in state[m].nodes
Acked(n, m) == Letter("LeaseAck", m, n) \in DOMAIN messages
Counted(n, m) == state[n].kind = "Starting" /\ m \in state[n].nodes

Granted(n, m) == Acked(n, m) \/ Counted(n, m) \/ state[n].kind = "Running"

\* The news of n: nobody is added, a node is removed after it has failed and
\* nothing of it is on the way, and MemberUp comes once, before all else.
EventOk(n, e) ==
    /\ e.type # "NodeAdded"
    /\ e.type = "NodeRemoved" => e.node \notin alive /\ Silent(e.node)
    /\ e.type = "MemberUp" => state[n].kind = "Joining" /\ e.nodes = scenario.members

NewsOk(n) ==
    /\ \A i \in DOMAIN news[n] : EventOk(n, news[n][i])
    /\ \A i, j \in DOMAIN news[n] : news[n][i].type = "MemberUp" /\ news[n][j].type = "MemberUp" => i = j

\* A manager that has joined knows the managers of all running nodes.
Know(n) ==
    /\ alive \subseteq view[n]
    /\ n \notin managers[n]
    /\ state[n].kind # "Joining" => alive \ {n} \subseteq managers[n]

\* The acknowledgement is in one of these places, and only while n is starting.
OnceFor(n, m) ==
    /\ Asked(n, m) \/ Pending(n, m) \/ Acked(n, m) \/ Counted(n, m) =>
          state[n].kind = "Starting" /\ m \in managers[n]
    /\ Asked(n, m) => ~Pending(n, m) /\ ~Acked(n, m) /\ ~Counted(n, m)
    /\ Pending(n, m) => ~Acked(n, m) /\ ~Counted(n, m)
    /\ Acked(n, m) => ~Counted(n, m)

Once(n) == \A m \in Nodes : OnceFor(n, m)

\* The actor is being started once, with all acknowledgements there.
StartsOnce(n) ==
    /\ starts[n] > 0 => starts[n] = 1 /\ results[n] = <<>>
    /\ results[n] # <<>> => Len(results[n]) = 1
    /\ starts[n] > 0 \/ results[n] # <<>> => state[n].kind = "Starting" /\ state[n].nodes = managers[n]

Single == \A x \in DOMAIN messages : x.type \in {"RequestLease", "LeaseAck"} => messages[x] = 1

Exclusive == \A n, m \in alive : n # m /\ Granted(n, m) => ~Granted(m, n)

\* An actor that was not told to stop is the one of its manager.
Runs(a) ==
    \/ state[a.node].kind = "Running" /\ state[a.node].actor = a.id
    \/ results[a.node] = <<a.id>>

LeaseInv ==
    /\ Single
    /\ \A n \in alive : NewsOk(n) /\ Know(n) /\ Once(n) /\ StartsOnce(n)
    /\ Exclusive
    /\ \A a \in actors : ~a.stop => Runs(a)

Base == Types /\ Presence /\ (flaps = 0 => OldestLeads)

IInv ==
    /\ Base
    /\ NobodyJoined /\ twice = {} => LeaseInv

-----------------------------------------------------------------------------
(* Helpers. *)

\* Node ids are ordered, and a set of nodes is as large as one that holds it only
\* if it is that one.
Ordered == \A S \in SUBSET Nodes : S # {} => Min(S) \in S /\ \A y \in S : Min(S) <= y
Counting == \A S, T \in SUBSET Nodes : S \subseteq T /\ Cardinality(S) = Cardinality(T) => S = T

\* Mail C is mail B with the letters S, or without m.
Plus(B, S, C) ==
    /\ IsMail(C) /\ DOMAIN C = DOMAIN B \cup S
    /\ \A x \in DOMAIN B : x \notin S => C[x] = B[x]
    /\ \A x \in S : x \notin DOMAIN B => C[x] = 1

Minus(B, m, C) ==
    /\ IsMail(C) /\ DOMAIN C \subseteq DOMAIN B
    /\ \A x \in DOMAIN B : x # m => x \in DOMAIN C /\ C[x] = B[x]
    /\ B[m] = 1 => m \notin DOMAIN C

\* Messages are added to the bag once each ...
LEMMA Added ==
    ASSUME NEW B, IsMail(B), NEW S \in SUBSET Letters, NEW C, C = B (+) SetToBag(S)
    PROVE  Plus(B, S, C)
<1>1. C = [x \in DOMAIN B \cup S |->
              (IF x \in DOMAIN B THEN B[x] ELSE 0) + (IF x \in S THEN 1 ELSE 0)]
      BY DEF (+), SetToBag, CopiesIn
<1>2. \A x \in DOMAIN B : B[x] \in Nat \ {0} BY DEF IsMail
<1>3. DOMAIN C = DOMAIN B \cup S BY <1>1
<1>4. \A x \in DOMAIN C : C[x] \in Nat \ {0} BY SMT, <1>1, <1>2
<1>5. C = [x \in DOMAIN C |-> C[x]] BY <1>1
<1>6. IsMail(C) BY <1>3, <1>4, <1>5 DEF IsMail
<1> QED BY SMT, <1>1, <1>2, <1>3, <1>6 DEF Plus

\* ... and one copy is taken from it.
LEMMA Taken ==
    ASSUME NEW B, IsMail(B), NEW m \in DOMAIN B, NEW C, C = B (-) SetToBag({m})
    PROVE  Minus(B, m, C)
<1>1. C = [x \in {d \in DOMAIN B : B[d] > (IF d \in {m} THEN 1 ELSE 0)} |-> B[x] - (IF x \in {m} THEN 1 ELSE 0)]
      BY DEF (-), SetToBag, CopiesIn
<1>2. \A x \in DOMAIN B : B[x] \in Nat \ {0} BY DEF IsMail
<1>3. DOMAIN C = {d \in DOMAIN B : B[d] > (IF d \in {m} THEN 1 ELSE 0)} BY <1>1
<1>4. \A x \in DOMAIN C : C[x] = B[x] - (IF x \in {m} THEN 1 ELSE 0) BY <1>1, <1>3
<1>5. \A x \in DOMAIN C : C[x] \in Nat \ {0} BY SMT, <1>2, <1>3, <1>4
<1>6. C = [x \in DOMAIN C |-> C[x]] BY <1>1
<1>7. IsMail(C) BY <1>3, <1>5, <1>6 DEF IsMail
<1>8. \A x \in DOMAIN B : x # m => x \in DOMAIN C /\ C[x] = B[x] BY SMT, <1>2, <1>3, <1>4
<1>9. B[m] = 1 => m \notin DOMAIN C BY SMT, <1>3
<1> QED BY <1>3, <1>7, <1>8, <1>9 DEF Minus

\* What notify sends.
Sent(n, type, N) == {Letter(type, n, m) : m \in N \cap managers'[n] \cap alive}

\* notify, in terms of it.
LEMMA NotifyIs == \A n, type, N : notify(n, type, N) = SetToBag(Sent(n, type, N))
BY DEF notify, Sent, Letter

\* A message is what its fields are.
LEMMA LetterIs ==
    /\ \A t, f, g : Letter(t, f, g).type = t /\ Letter(t, f, g).from = f /\ Letter(t, f, g).to = g
    /\ \A x \in Letters : /\ x = Letter(x.type, x.from, x.to) /\ x.from \in Nodes /\ x.to \in Nodes
                          /\ x.type \in {"RequestLease", "LeaseAck", "SingletonStarted", "SingletonStopped"}
    /\ \A t \in {"RequestLease", "LeaseAck", "SingletonStarted", "SingletonStopped"}, f, g \in Nodes :
          Letter(t, f, g) \in Letters
BY SMT DEF Letter, Letters

\* Who tells that the actor has started asks and acknowledges nothing with it.
LEMMA StartedSent ==
    ASSUME NEW n, NEW N, NEW S, S = Sent(n, "SingletonStarted", N)
    PROVE  \A f, g : Letter("RequestLease", f, g) \notin S /\ Letter("LeaseAck", f, g) \notin S
BY SMT, LetterIs DEF Sent

\* They are letters of n to running nodes that it knows.
LEMMA SentLetters ==
    ASSUME NEW n \in Nodes, alive \subseteq Nodes, NEW N,
           NEW t \in {"RequestLease", "LeaseAck", "SingletonStarted", "SingletonStopped"}
    PROVE  /\ Sent(n, t, N) \in SUBSET Letters
           /\ \A x \in Sent(n, t, N) : x.type = t /\ x.from = n /\ x.to \in alive /\ x.to \in managers'[n] /\ x.to \in N
           /\ \A m : Letter(t, n, m) \in Sent(n, t, N) <=> m \in N \cap managers'[n] \cap alive
BY SMT, LetterIs DEF Sent

\* The states of a manager.
LEMMA StateIs ==
    /\ \A P \in SUBSET Nodes : /\ Joining(P) \in States /\ Joining(P).kind = "Joining" /\ Joining(P).nodes = P
                               /\ Starting(P) \in States /\ Starting(P).kind = "Starting" /\ Starting(P).nodes = P
    /\ \A id \in Nat : /\ RunningState(id) \in States /\ RunningState(id).kind = "Running"
                       /\ RunningState(id).actor = id
                       /\ Stopping(id) \in States /\ Stopping(id).kind = "Stopping"
    /\ IdleState \in States /\ IdleState.kind = "Idle"
    /\ \A s \in States : s.kind \in Kinds /\ s.nodes \in SUBSET Nodes /\ s.actor \in Nat
BY DEF States, Kinds, Joining, Starting, RunningState, Stopping, IdleState

\* The news of a heartbeat.
LEMMA EventIs ==
    /\ \A l \in Nodes, N \in SUBSET Nodes : MemberUp(l, N) \in Events
    /\ \A n \in Nodes : LeaderChanged(n) \in Events /\ NodeAdded(n) \in Events /\ NodeRemoved(n) \in Events
    /\ \A l, N : MemberUp(l, N).type = "MemberUp" /\ MemberUp(l, N).leader = l /\ MemberUp(l, N).nodes = N
    /\ \A n : /\ LeaderChanged(n).type = "LeaderChanged" /\ LeaderChanged(n).leader = n
              /\ NodeAdded(n).type = "NodeAdded" /\ NodeAdded(n).node = n
              /\ NodeRemoved(n).type = "NodeRemoved" /\ NodeRemoved(n).node = n
    /\ \A e \in Events : /\ e.type = "MemberUp" => e.leader \in Nodes /\ e.nodes \in SUBSET Nodes
                         /\ e.type \in {"NodeAdded", "NodeRemoved"} => e.node \in Nodes
<1>1. \A l, N : MemberUp(l, N).type = "MemberUp" /\ MemberUp(l, N).leader = l /\ MemberUp(l, N).nodes = N
      BY DEF MemberUp
<1>2. \A n : /\ LeaderChanged(n).type = "LeaderChanged" /\ LeaderChanged(n).leader = n
             /\ NodeAdded(n).type = "NodeAdded" /\ NodeAdded(n).node = n
             /\ NodeRemoved(n).type = "NodeRemoved" /\ NodeRemoved(n).node = n
      BY DEF LeaderChanged, NodeAdded, NodeRemoved
<1>3. \A l \in Nodes, N \in SUBSET Nodes : MemberUp(l, N) \in Events BY SMT DEF Events
<1>4. \A n \in Nodes : LeaderChanged(n) \in Events /\ NodeAdded(n) \in Events /\ NodeRemoved(n) \in Events
      BY SMT DEF Events
<1>5. ASSUME NEW e \in Events
      PROVE  /\ e.type = "MemberUp" => e.leader \in Nodes /\ e.nodes \in SUBSET Nodes
             /\ e.type \in {"NodeAdded", "NodeRemoved"} => e.node \in Nodes
  <2>1. \/ \E l \in Nodes, N \in SUBSET Nodes : e = MemberUp(l, N)
        \/ \E n \in Nodes : e = LeaderChanged(n) \/ e = NodeAdded(n) \/ e = NodeRemoved(n)
        BY SMT DEF Events
  <2> QED BY SMT, <1>1, <1>2, <2>1
<1> QED BY SMT, <1>1, <1>2, <1>3, <1>4, <1>5

\* Sequences, entry by entry.
LEMMA ConcatEntries ==
    ASSUME NEW T, NEW s \in Seq(T), NEW t \in Seq(T)
    PROVE  /\ s \o t \in Seq(T)
           /\ \A i \in DOMAIN (s \o t) :
                 \/ i \in DOMAIN s /\ (s \o t)[i] = s[i]
                 \/ \E j \in DOMAIN t : (s \o t)[i] = t[j]
<1>1. s \o t \in Seq(T) /\ Len(s \o t) = Len(s) + Len(t) BY SMT
<1>2. ASSUME NEW i \in DOMAIN (s \o t), i \notin DOMAIN s PROVE \E j \in DOMAIN t : (s \o t)[i] = t[j]
  <2>1. i - Len(s) \in DOMAIN t BY SMT, <1>1, <1>2
  <2>2. (s \o t)[i] = t[i - Len(s)] BY SMT, <1>1, <1>2
  <2> QED BY <2>1, <2>2
<1>3. \A i \in DOMAIN (s \o t) : i \in DOMAIN s => (s \o t)[i] = s[i] BY SMT
<1> QED BY <1>1, <1>2, <1>3

\* The rest of a sequence.
LEMMA TailEntries ==
    ASSUME NEW T, NEW s \in Seq(T), s # <<>>
    PROVE  /\ Tail(s) \in Seq(T) /\ 1 \in DOMAIN s /\ Head(s) = s[1] /\ Head(s) \in T
           /\ Len(Tail(s)) = Len(s) - 1
           /\ \A i \in DOMAIN Tail(s) : i + 1 \in DOMAIN s /\ Tail(s)[i] = s[i + 1]
BY SMT

\* The news of n grow by events of S, or the first of them is handled.
NewsGrow(n, S) ==
    /\ news' \in [Nodes -> Seq(Events)]
    /\ \A k \in Nodes : k # n => news'[k] = news[k]
    /\ \A i \in DOMAIN news'[n] :
          \/ i \in DOMAIN news[n] /\ news'[n][i] = news[n][i]
          \/ news'[n][i] \in S

NewsTaken(n) ==
    /\ news' \in [Nodes -> Seq(Events)]
    /\ \A k \in Nodes : k # n => news'[k] = news[k]
    /\ \A i \in DOMAIN news'[n] : i + 1 \in DOMAIN news[n] /\ news'[n][i] = news[n][i + 1]

\* Events are published at the end of the news, ...
LEMMA Grows ==
    ASSUME Types, NEW n \in Nodes, NEW e \in Seq(Events), news' = [news EXCEPT ![n] = @ \o e],
           NEW S, \A j \in DOMAIN e : e[j] \in S
    PROVE  NewsGrow(n, S)
<1>1. news[n] \in Seq(Events) /\ news'[n] = news[n] \o e BY DEF Types
<1>2. news'[n] \in Seq(Events) BY SMT, <1>1, ConcatEntries
<1>3. news' \in [Nodes -> Seq(Events)] /\ \A k \in Nodes : k # n => news'[k] = news[k]
      BY <1>1, <1>2 DEF Types
<1>4. \A i \in DOMAIN news'[n] :
         \/ i \in DOMAIN news[n] /\ news'[n][i] = news[n][i]
         \/ \E j \in DOMAIN e : news'[n][i] = e[j]
      BY SMT, <1>1, ConcatEntries
<1> QED BY SMT, <1>3, <1>4 DEF NewsGrow

\* ... one of them too.
LEMMA GrowsByOne ==
    ASSUME Types, NEW n \in Nodes, NEW e \in Events, news' = [news EXCEPT ![n] = Append(@, e)]
    PROVE  NewsGrow(n, {e})
<1>1. news[n] \in Seq(Events) /\ news'[n] = Append(news[n], e) BY DEF Types
<1>2. news'[n] \in Seq(Events) BY SMT, <1>1
<1>3. news' \in [Nodes -> Seq(Events)] /\ \A k \in Nodes : k # n => news'[k] = news[k]
      BY <1>1, <1>2 DEF Types
<1>4. \A i \in DOMAIN news'[n] :
         (i \in DOMAIN news[n] /\ news'[n][i] = news[n][i]) \/ news'[n][i] = e
      BY SMT, <1>1
<1> QED BY <1>3, <1>4 DEF NewsGrow

\* update_leader of n's heartbeat.
LEMMA ElectGrows ==
    ASSUME Ordered, Types, NEW n \in Nodes, NEW V \in SUBSET Nodes, V # {}, NEW e \in Seq(Events), Elect(n, V, e),
           NEW S, \A j \in DOMAIN e : e[j] \in S
    PROVE  /\ Min(V) \in V /\ \A y \in V : Min(V) <= y
           /\ leader' \in [Nodes -> Nat]
           /\ NewsGrow(n, S \cup {LeaderChanged(Min(V))})
<1>1. Min(V) \in V /\ \A y \in V : Min(V) <= y BY DEF Ordered
<1>2. leader' \in [Nodes -> Nat] BY <1>1, NodesAssumption DEF Elect, Types
<1> PICK c : c = LeaderChanged(Min(V)) OBVIOUS
<1>3. c \in Events BY <1>1, EventIs
<1>4. <<c>> \in Seq(Events) /\ \A j \in DOMAIN <<c>> : <<c>>[j] = c BY SMT, <1>3
<1>5. PICK f : f \in {e, e \o <<c>>, <<c>> \o e} /\ news' = [news EXCEPT ![n] = @ \o f]
      BY DEF Elect, Shuffle
<1>6. f \in Seq(Events) /\ \A j \in DOMAIN f : f[j] \in S \cup {c}
  <2>1. CASE f = e BY <2>1
  <2>2. CASE f = e \o <<c>> BY SMT, <1>4, <2>2, ConcatEntries
  <2>3. CASE f = <<c>> \o e BY SMT, <1>4, <2>3, ConcatEntries
  <2> QED BY <1>5, <2>1, <2>2, <2>3
<1>7. NewsGrow(n, S \cup {c}) BY <1>5, <1>6, Grows
<1> QED BY <1>1, <1>2, <1>7

-----------------------------------------------------------------------------
(* Presence, and who leads without suspicions: steps of the heartbeats. *)

\* Steps of the members and their heartbeats keep Base.
LEMMA MembersBase ==
    Ordered /\ Base /\ UNCHANGED scenario =>
        \A n, m \in Nodes :
            Join(n) \/ Crash(n) \/ Suspect(n, m) \/ Trust(n, m) \/ Learn(n, m) \/ Forget(n, m) => Base'
\* The heartbeat of n learns something, and tells its manager the events of S.
<1>HeartbeatBase.
    ASSUME Base, NEW n \in alive, NEW S, NewsGrow(n, S),
           UNCHANGED <<alive, scenario, state, managers, messages, starts, results, actors, last_id, queue>>,
           flaps' \in Nat, flaps' = 0 => flaps = 0,
           leader' \in [Nodes -> Nat],
           view' \in [Nodes -> SUBSET Nodes], suspects' \in [Nodes -> SUBSET Nodes],
           \A k \in Nodes : k # n => view'[k] = view[k] /\ suspects'[k] = suspects[k],
           n \in view'[n] \ suspects'[n],
           flaps' = 0 => \A m \in alive : m <= n => m \in view'[n] \ suspects'[n],
           flaps' = 0 => \A e \in S : e.type \in {"MemberUp", "LeaderChanged"} /\ e.leader = n => Oldest(n)
    PROVE  Base'
  <2> USE <1>HeartbeatBase
  <2>0. n \in Nodes BY DEF Base, Types
  <2>1. Types' BY DEF Base, Types, NewsGrow
  <2>2. Presence'
    <3>1. \A k \in Nodes : view'[k] = {} => k # n /\ view[k] = {} OBVIOUS
    <3>2. \A k \in alive \cup scenario.members : view'[k] # {}
      <4>1. scenario.members \subseteq Nodes BY ClustersAssumption DEF Base, Types
      <4> QED BY <4>1 DEF Base, Presence, Types
    <3> QED BY <3>1, <3>2 DEF Base, Presence, NewsGrow
  <2>3. ASSUME flaps' = 0 PROVE OldestLeads'
    <3>0. OldestLeads BY <2>3 DEF Base
    <3>1. \A k, m \in alive : m <= k => m \in view'[k] \ suspects'[k]
          BY <2>3, <3>0 DEF OldestLeads, Base, Types
    <3>2. \A k : Oldest(k)' <=> Oldest(k) BY DEF Oldest
    <3>3. \A k \in alive : k # n /\ Leads(k)' => Leads(k) BY DEF Leads, NewsGrow, Base, Types
    <3>4. Leads(n)' => Leads(n) \/ Oldest(n) BY <2>3 DEF Leads, NewsGrow
    <3> QED BY <3>0, <3>1, <3>2, <3>3, <3>4 DEF OldestLeads
  <2> QED BY <2>1, <2>2, <2>3 DEF Base
\* The leader a heartbeat finds is itself only if it is the oldest.
<1>SelfElected.
    ASSUME Base, NEW n \in alive, NEW V \in SUBSET Nodes, \A y \in V : Min(V) <= y, Min(V) = n,
           \A m \in alive : m <= n => m \in V
    PROVE  Oldest(n)
  <2> USE <1>SelfElected
  <2>1. alive \subseteq Nat BY NodesAssumption DEF Base, Types
  <2>2. ASSUME NEW m \in alive PROVE n <= m
    <3>1. CASE m <= n BY <3>1
    <3>2. CASE ~(m <= n) BY SMT, <2>1, <3>2
    <3> QED BY <3>1, <3>2
  <2> QED BY <2>2 DEF Oldest
\* Learn: a node is found.
<1>LearnBase. ASSUME Base, NEW n \in Nodes, NEW m \in Nodes, Learn(n, m), UNCHANGED scenario PROVE Base'
  <2> USE <1>LearnBase
  <2>1. n \in alive /\ view' = [view EXCEPT ![n] = @ \cup {m}] BY DEF Learn
  <2>2. NodeAdded(m) \in Events /\ NodeAdded(m).type = "NodeAdded" BY EventIs
  <2>3. NewsGrow(n, {NodeAdded(m)}) BY <2>2, GrowsByOne DEF Learn, Base
  <2>4. UNCHANGED <<alive, scenario, state, managers, messages, starts, results, actors, last_id, queue,
                    flaps, suspects, leader>>
        BY DEF Learn, lease, running, proxies
  <2>5. n \in view[n] \ suspects[n] BY <2>1 DEF Base, Presence
  <2>6. flaps \in Nat /\ leader \in [Nodes -> Nat] /\ view' \in [Nodes -> SUBSET Nodes] /\ suspects \in [Nodes -> SUBSET Nodes]
        BY <2>1 DEF Base, Types
  <2>7. view'[n] = view[n] \cup {m} /\ \A k \in Nodes : k # n => view'[k] = view[k] BY <2>1 DEF Base, Types
  <2>8. flaps = 0 => \A x \in alive : x <= n => x \in view[n] \ suspects[n] BY <2>1 DEF Base, OldestLeads
  <2>9. flaps = 0 => \A x \in alive : x <= n => x \in view'[n] \ suspects'[n] BY <2>4, <2>7, <2>8
  <2> HIDE DEF Base, Types, NewsGrow
  <2> QED BY <2>1, <2>2, <2>3, <2>4, <2>5, <2>6, <2>7, <2>9, <1>HeartbeatBase
\* Forget: a node that failed is removed.
<1>ForgetBase. ASSUME Base, NEW n \in Nodes, NEW m \in Nodes, Forget(n, m), UNCHANGED scenario PROVE Base'
  <2> USE <1>ForgetBase
  <2>1. n \in alive /\ view' = [view EXCEPT ![n] = @ \ {m}] /\ m \notin alive BY DEF Forget
  <2>2. NodeRemoved(m) \in Events /\ NodeRemoved(m).type = "NodeRemoved" BY EventIs
  <2>3. NewsGrow(n, {NodeRemoved(m)}) BY <2>2, GrowsByOne DEF Forget, Base
  <2>4. UNCHANGED <<alive, scenario, state, managers, messages, starts, results, actors, last_id, queue,
                    flaps, suspects, leader>>
        BY DEF Forget, lease, running, proxies
  <2>5. n \in view[n] \ suspects[n] BY <2>1 DEF Base, Presence
  <2>6. flaps \in Nat /\ leader \in [Nodes -> Nat] /\ view' \in [Nodes -> SUBSET Nodes] /\ suspects \in [Nodes -> SUBSET Nodes]
        BY <2>1 DEF Base, Types
  <2>7. view'[n] = view[n] \ {m} /\ \A k \in Nodes : k # n => view'[k] = view[k] BY <2>1 DEF Base, Types
  <2>8. flaps = 0 => \A x \in alive : x <= n => x \in view[n] \ suspects[n] BY <2>1 DEF Base, OldestLeads
  <2>9. flaps = 0 => \A x \in alive : x <= n => x \in view'[n] \ suspects'[n] BY <2>1, <2>4, <2>7, <2>8
  <2> HIDE DEF Base, Types, NewsGrow
  <2> QED BY <2>1, <2>2, <2>3, <2>4, <2>5, <2>6, <2>7, <2>9, <1>HeartbeatBase
\* Suspect and Trust: n elects among those of its view that it does not suspect.
<1>ElectBase.
    ASSUME Ordered, Base, NEW n \in alive, NEW X \in SUBSET Nodes, suspects' = [suspects EXCEPT ![n] = X],
           n \notin X, flaps' = 0 => X \cap alive \subseteq suspects[n],
           Elect(n, view[n] \ X, <<>>), flaps' \in Nat, flaps' = 0 => flaps = 0,
           UNCHANGED <<alive, scenario, state, managers, messages, starts, results, actors, last_id, queue, view>>
    PROVE  Base'
  <2> USE <1>ElectBase
  <2> PICK V \in SUBSET Nodes : V = view[n] \ X BY DEF Base, Types
  <2>0. n \in Nodes BY DEF Base, Types
  <2>1. n \in V BY <2>0 DEF Base, Presence
  <2>2. <<>> \in Seq(Events) /\ \A j \in DOMAIN <<>> : <<>>[j] \in {} BY SMT
  <2> PICK c : c = LeaderChanged(Min(V)) OBVIOUS
  <2>3. (\A y \in V : Min(V) <= y) /\ leader' \in [Nodes -> Nat] /\ NewsGrow(n, {} \cup {c})
        BY <2>0, <2>1, <2>2, ElectGrows DEF Base
  <2>4. NewsGrow(n, {c}) /\ c.leader = Min(V) BY SMT, <2>3, EventIs
  <2>5. /\ view' \in [Nodes -> SUBSET Nodes] /\ view' = view /\ suspects' \in [Nodes -> SUBSET Nodes] /\ suspects'[n] = X
        /\ \A k \in Nodes : k # n => suspects'[k] = suspects[k]
        BY <2>0 DEF Base, Types
  <2>6. ASSUME flaps' = 0, NEW m \in alive, m <= n PROVE m \in V
    <3>1. m \in view[n] \ suspects[n] BY <2>6 DEF Base, OldestLeads
    <3> QED BY <2>6, <3>1
  <2>7. flaps' = 0 /\ Min(V) = n => Oldest(n) BY <2>3, <2>6, <1>SelfElected
  <2>8. n \in view'[n] \ suspects'[n] /\ (flaps' = 0 => \A m \in alive : m <= n => m \in view'[n] \ suspects'[n])
        BY <2>1, <2>5, <2>6
  <2>9. UNCHANGED <<alive, scenario, state, managers, messages, starts, results, actors, last_id, queue>>
        OBVIOUS
  <2> HIDE DEF Base, Types, NewsGrow
  <2>10. \A e \in {c} : e.leader = n => Min(V) = n BY <2>4
  <2>11. flaps' = 0 => \A e \in {c} : e.type \in {"MemberUp", "LeaderChanged"} /\ e.leader = n => Oldest(n)
         BY <2>7, <2>10
  <2>12. \A k \in Nodes : k # n => view'[k] = view[k] /\ suspects'[k] = suspects[k] BY <2>5
  <2> QED BY <2>3, <2>4, <2>5, <2>8, <2>9, <2>11, <2>12, <1>HeartbeatBase
\* Suspect: the leader is held for unhealthy.
<1>SuspectBase. ASSUME Ordered, Base, NEW n \in Nodes, NEW m \in Nodes, Suspect(n, m), UNCHANGED scenario PROVE Base'
  <2> USE <1>SuspectBase
  <2> PICK X \in SUBSET Nodes : X = suspects[n] \cup {m} BY DEF Base, Types
  <2>1. n \in alive /\ m # n /\ suspects' = [suspects EXCEPT ![n] = X] BY DEF Suspect
  <2>2. suspects'[n] = X BY <2>1 DEF Base, Types
  <2>3. Elect(n, view[n] \ X, <<>>) BY <2>2 DEF Suspect
  <2>4. n \notin X BY <2>1 DEF Base, Presence
  <2>5. flaps \in Nat /\ flaps' = IF m \in alive THEN flaps + 1 ELSE flaps BY DEF Suspect, Base, Types
  <2>6. flaps' \in Nat /\ (flaps' = 0 => flaps = 0 /\ X \cap alive \subseteq suspects[n]) BY SMT, <2>5
  <2>7. UNCHANGED <<alive, scenario, state, managers, messages, starts, results, actors, last_id, queue, view>>
        BY DEF Suspect, lease, running, proxies
  <2> QED BY <2>1, <2>3, <2>4, <2>6, <2>7, <1>ElectBase
\* Trust: a node answers again.
<1>TrustBase. ASSUME Ordered, Base, NEW n \in Nodes, NEW m \in Nodes, Trust(n, m), UNCHANGED scenario PROVE Base'
  <2> USE <1>TrustBase
  <2> PICK X \in SUBSET Nodes : X = suspects[n] \ {m} BY DEF Base, Types
  <2>1. n \in alive /\ suspects' = [suspects EXCEPT ![n] = X] BY DEF Trust
  <2>2. suspects'[n] = X BY <2>1 DEF Base, Types
  <2>3. Elect(n, view[n] \ X, <<>>) BY <2>2 DEF Trust
  <2>4. n \notin X BY <2>1 DEF Base, Presence
  <2>5. flaps \in Nat /\ flaps' = flaps BY DEF Trust, Base, Types
  <2>6. flaps' \in Nat /\ (flaps' = 0 => flaps = 0 /\ X \cap alive \subseteq suspects[n]) BY <2>5
  <2>7. UNCHANGED <<alive, scenario, state, managers, messages, starts, results, actors, last_id, queue, view>>
        BY DEF Trust, lease, running, proxies
  <2> QED BY <2>1, <2>3, <2>4, <2>6, <2>7, <1>ElectBase
\* Join: a new node is younger than all others, and knows them.
<1>JoinBase. ASSUME Ordered, Base, NEW n \in Nodes, Join(n), UNCHANGED scenario PROVE Base'
  <2> USE <1>JoinBase
  <2> PICK V \in SUBSET Nodes : V = alive' BY DEF Join, Base, Types
  <2> PICK u : u = MemberUp(Min(V), V) OBVIOUS
  <2> PICK c : c = LeaderChanged(Min(V)) OBVIOUS
  <2>1. /\ n \notin alive /\ view[n] = {} /\ (\A m \in alive : m < n) /\ V = alive \cup {n}
        /\ view' = [view EXCEPT ![n] = V] /\ Elect(n, V, <<u>>)
        /\ UNCHANGED <<flaps, suspects, state, managers, messages, starts, results, actors, last_id, queue>>
        BY DEF Join, lease, running, proxies
  <2>2. Min(V) \in V BY <2>1 DEF Ordered
  <2>3. u \in Events BY <2>2, EventIs
  <2>4. <<u>> \in Seq(Events) /\ \A j \in DOMAIN <<u>> : <<u>>[j] \in {u} BY SMT, <2>3
  <2>5. (\A y \in V : Min(V) <= y) /\ leader' \in [Nodes -> Nat] /\ NewsGrow(n, {u} \cup {c})
        BY <2>1, <2>4, ElectGrows DEF Base
  <2>6. Types' BY <2>1, <2>5 DEF Base, Types, NewsGrow
  <2>7. suspects[n] = {} /\ news[n] = <<>> /\ state[n].kind = "Joining" /\ starts[n] = 0 /\ results[n] = <<>>
        BY <2>1 DEF Base, Presence
  <2>8. view'[n] = V /\ \A k \in Nodes : k # n => view'[k] = view[k] BY <2>1 DEF Base, Types
  <2>9. Presence'
    <3>1. scenario.members \subseteq Nodes BY ClustersAssumption DEF Base, Types
    <3>2. \A k \in alive' \cup scenario.members : view'[k] # {} BY <2>1, <2>8, <3>1 DEF Base, Presence, Types
    <3>3. \A k \in Nodes : view'[k] # {} => k \in view'[k] \ suspects[k] BY <2>1, <2>7, <2>8 DEF Base, Presence
    <3>4. \A k \in Nodes : view'[k] = {} => k # n /\ view[k] = {} /\ news'[k] = news[k]
          BY <2>1, <2>5, <2>8 DEF NewsGrow
    <3> QED BY SMT, <2>1, <3>2, <3>3, <3>4 DEF Base, Presence
  <2>10. ASSUME flaps' = 0 PROVE OldestLeads'
    <3>0. OldestLeads /\ alive \subseteq Nat /\ n \in Nat BY <2>1, <2>10, NodesAssumption DEF Base, Types
    <3>1. ASSUME NEW k \in V, NEW m \in V, m <= k PROVE m \in view'[k] \ suspects[k]
      <4>1. CASE k = n BY <2>7, <2>8, <4>1
      <4>2. CASE k # n
        <5>1. m # n BY SMT, <2>1, <3>0, <3>1, <4>2
        <5> QED BY <2>1, <2>8, <3>0, <3>1, <4>2, <5>1 DEF OldestLeads, Base, Types
      <4> QED BY <4>1, <4>2
    <3>2. \A k \in alive : Oldest(k) => Oldest(k)' BY SMT, <2>1, <3>0 DEF Oldest
    <3>3. \A k \in alive : Leads(k)' => Leads(k) BY <2>1, <2>5 DEF Leads, NewsGrow, Base, Types
    <3>4. Leads(n)' => Oldest(n)'
      <4>0. news[n] = <<>> /\ DOMAIN <<>> = {} BY SMT, <2>7
      <4>1. DOMAIN news[n] = {} BY <4>0
      <4>2. \A i \in DOMAIN news'[n] : news'[n][i] = u \/ news'[n][i] = c BY <2>5, <4>1 DEF NewsGrow
      <4>3. \A i \in DOMAIN news'[n] : news'[n][i].leader = Min(V) BY SMT, <4>2, EventIs
      <4>a. state'[n].kind = "Joining" /\ starts'[n] = 0 /\ results'[n] = <<>> BY <2>1, <2>7
      <4>4. Leads(n)' => Min(V) = n BY SMT, <4>3, <4>a DEF Leads
      <4> QED BY <2>5, <4>4 DEF Oldest
    <3>5. \A a \in actors : Oldest(a.node)' BY <3>0, <3>2 DEF OldestLeads, Base, Presence
    <3> QED BY <2>1, <3>0, <3>1, <3>2, <3>3, <3>4, <3>5 DEF OldestLeads
  <2> QED BY <2>6, <2>9, <2>10 DEF Base
\* Crash: the others are as old as they were.
<1>CrashBase. ASSUME Base, NEW n \in Nodes, Crash(n), UNCHANGED scenario PROVE Base'
  <2> USE <1>CrashBase
  <2> PICK D : D = {m \in DOMAIN messages : m.to # n} OBVIOUS
  <2>1. /\ n \in alive /\ alive' = alive \ {n} /\ actors' = {a \in actors : a.node # n}
        /\ news' = [news EXCEPT ![n] = <<>>] /\ results' = [results EXCEPT ![n] = <<>>]
        /\ messages' = [m \in D |-> messages[m]]
        /\ UNCHANGED <<flaps, view, suspects, leader, state, managers, starts, last_id, queue>>
        BY DEF Crash, proxies, BagOf, BagToSet
  <2>2. IsMail(messages') /\ DOMAIN messages' = D
    <3>1. IsMail(messages) BY DEF Base, Types
    <3> QED BY <2>1, <3>1 DEF IsMail
  <2>3. Types'
    <3>1. <<>> \in Seq(Events) /\ <<>> \in Seq(Nat) BY SMT
    <3> QED BY <2>1, <2>2, <3>1 DEF Base, Types
  <2>4. /\ \A k \in Nodes : k # n => news'[k] = news[k] /\ results'[k] = results[k]
        /\ news'[n] = <<>> /\ results'[n] = <<>>
        BY <2>1 DEF Base, Types
  <2>5. Presence' BY <2>1, <2>2, <2>4 DEF Base, Presence
  <2>6. ASSUME flaps' = 0 PROVE OldestLeads'
    <3>0. OldestLeads BY <2>1, <2>6 DEF Base
    <3>1. \A k : Oldest(k) => Oldest(k)' BY <2>1 DEF Oldest
    <3>2. \A k \in alive' : Leads(k)' => Leads(k) BY <2>1, <2>4 DEF Leads, Base, Types
    <3> QED BY <2>1, <3>0, <3>1, <3>2 DEF OldestLeads
  <2> QED BY <2>3, <2>5, <2>6 DEF Base
<1> QED BY <1>LearnBase, <1>ForgetBase, <1>SuspectBase, <1>TrustBase, <1>JoinBase, <1>CrashBase

-----------------------------------------------------------------------------
(* Steps of a manager: what they do to the mail and to its state. *)

\* Of the letters R, which are on the way, one copy is taken, and the letters S are sent.
Posts(R, S) ==
    /\ IsMail(messages')
    /\ DOMAIN messages' \subseteq DOMAIN messages \cup S
    /\ (DOMAIN messages \ R) \cup S \subseteq DOMAIN messages'
    /\ \A x \in DOMAIN messages \ R : x \notin S => messages'[x] = messages[x]
    /\ \A x \in S : x \notin DOMAIN messages => messages'[x] = 1
    /\ \A x \in R : messages[x] = 1 /\ x \notin S => x \notin DOMAIN messages'

\* notify, of one kind of message ...
LEMMA Posting ==
    ASSUME Types, NEW S \in SUBSET Letters, messages' = messages (+) SetToBag(S)
    PROVE  Posts({}, S)
<1>1. IsMail(messages) BY DEF Types
<1>2. Plus(messages, S, messages') BY <1>1, Added
<1> QED BY <1>2 DEF Posts, Plus

\* ... and of two.
LEMMA PostingTwice ==
    ASSUME Types, NEW S \in SUBSET Letters, NEW T \in SUBSET Letters, S \cap T = {},
           NEW D, D = messages (+) SetToBag(S), messages' = D (+) SetToBag(T)
    PROVE  Posts({}, S \cup T)
<1>1. IsMail(messages) BY DEF Types
<1>2. Plus(messages, S, D) BY <1>1, Added
<1>3. IsMail(D) BY <1>2 DEF Plus
<1>4. Plus(D, T, messages') BY <1>3, Added
<1> QED BY <1>2, <1>4 DEF Posts, Plus

\* A message is taken ...
LEMMA Taking ==
    ASSUME Types, NEW m \in DOMAIN messages, messages' = Took(m)
    PROVE  Posts({m}, {})
<1>1. IsMail(messages) /\ messages' = messages (-) SetToBag({m}) BY DEF Types, Took
<1>2. Minus(messages, m, messages') BY <1>1, Taken
<1> QED BY <1>2 DEF Posts, Minus

\* ... and others are sent.
LEMMA TakingPosting ==
    ASSUME Types, NEW m \in DOMAIN messages, NEW S \in SUBSET Letters,
           NEW D, D = Took(m), messages' = D (+) SetToBag(S)
    PROVE  Posts({m}, S)
<1>1. IsMail(messages) /\ D = messages (-) SetToBag({m}) BY DEF Types, Took
<1>2. Minus(messages, m, D) BY <1>1, Taken
<1>3. IsMail(D) BY <1>2 DEF Minus
<1>4. Plus(D, S, messages') BY <1>3, Added
<1> QED BY <1>2, <1>4 DEF Posts, Plus, Minus

\* No message.
LEMMA NoPost ==
    ASSUME Types, UNCHANGED messages
    PROVE  Posts({}, {})
BY DEF Types, Posts

\* The state of n, and what it may start, after a step.
Becomes(n, s) ==
    /\ state' \in [Nodes -> States] /\ state'[n] = s /\ \A k \in Nodes \ {n} : state'[k] = state[k]

Begins(n, i) ==
    /\ starts' \in [Nodes -> Nat] /\ starts'[n] = i /\ \A k \in Nodes \ {n} : starts'[k] = starts[k]

\* What the state is then.
LEMMA BecomesIs ==
    ASSUME NEW n, NEW i
    PROVE  /\ Becomes(n, RunningState(i)) => state'[n].kind = "Running" /\ state'[n].actor = i
           /\ Becomes(n, Stopping(i)) => state'[n].kind = "Stopping"
BY SMT DEF Becomes, RunningState, Stopping

Complete(n, s) == s.kind = "Starting" /\ Cardinality(s.nodes) = Cardinality(managers'[n])

\* MaybeStart sets the state, and starts when all acknowledgements are there.
LEMMA MaybeStartIs ==
    ASSUME Types, NEW n \in Nodes, NEW s \in States, NEW B, MaybeStart(n, s, B)
    PROVE  /\ messages' = B /\ Becomes(n, s)
           /\ Begins(n, IF Complete(n, s) THEN starts[n] + 1 ELSE starts[n])
<1>1. messages' = B /\ Becomes(n, s) BY DEF MaybeStart, Becomes, Types
<1> PICK i \in Nat : i = IF Complete(n, s) THEN starts[n] + 1 ELSE starts[n] BY SMT DEF Types
<1>2. starts' = [starts EXCEPT ![n] = i] BY DEF MaybeStart, Complete, Types
<1> QED BY <1>1, <1>2 DEF Begins, Types

\* A step of n's manager, for those who do not look at the lease.
Acts(n) ==
    /\ UNCHANGED <<alive, flaps, view, suspects, leader, scenario>>
    /\ news' \in [Nodes -> Seq(Events)] /\ state' \in [Nodes -> States]
    /\ managers' \in [Nodes -> SUBSET Nodes] /\ IsMail(messages')
    /\ starts' \in [Nodes -> Nat] /\ results' \in [Nodes -> Seq(Nat)]
    /\ actors' \subseteq [node : Nodes, id : Nat, stop : BOOLEAN] /\ last_id' \in Nat
    /\ queue' \in [Nodes -> SUBSET Requests]
    /\ \A k \in Nodes \ {n} : /\ news'[k] = news[k] /\ state'[k] = state[k]
                              /\ starts'[k] = starts[k] /\ results'[k] = results[k]
    /\ \A x \in DOMAIN messages' : x.to \in alive
    /\ \A a \in actors' : (a.node = n /\ starts[n] > 0) \/ \E b \in actors : a.node = b.node
    /\ Leads(n)' => Leads(n)

\* It leads only if it was told to.
LEMMA ActsBase == ASSUME Base, NEW n \in alive, Acts(n) PROVE Base'
<1>0. n \in Nodes BY DEF Base, Types
<1>1. Types' BY DEF Base, Types, Acts
<1>2. Presence'
  <2>1. \A k \in Nodes : view[k] = {} => k # n BY <1>0 DEF Base, Presence
  <2>2. \A a \in actors' : a.node \in alive BY DEF Acts, Base, Presence
  <2> QED BY <2>1, <2>2 DEF Base, Presence, Acts
<1>3. ASSUME flaps' = 0 PROVE OldestLeads'
  <2>0. OldestLeads BY <1>3 DEF Base, Acts
  <2>1. \A k : Oldest(k)' <=> Oldest(k) BY DEF Oldest, Acts
  <2>2. ASSUME NEW k \in alive PROVE Leads(k)' => Leads(k)
    <3>1. CASE k = n BY <3>1 DEF Acts
    <3>2. CASE k # n
      <4>1. k \in Nodes \ {n} BY <3>2 DEF Base, Types
      <4>2. news'[k] = news[k] /\ state'[k] = state[k] /\ starts'[k] = starts[k] /\ results'[k] = results[k]
            BY <4>1 DEF Acts
      <4> QED BY <4>2 DEF Leads
    <3> QED BY <3>1, <3>2
  <2>3. starts[n] > 0 => Oldest(n) BY <2>0 DEF OldestLeads, Leads
  <2>4. \A a \in actors' : Oldest(a.node) BY <2>0, <2>3 DEF OldestLeads, Acts
  <2> QED BY <2>0, <2>1, <2>2, <2>4 DEF OldestLeads, Acts
<1> QED BY <1>1, <1>2, <1>3 DEF Base

\* The first event of the news is handled.
LEMMA Takes ==
    ASSUME Types, NEW n \in Nodes, news[n] # <<>>, news' = [news EXCEPT ![n] = Tail(@)]
    PROVE  /\ NewsTaken(n) /\ 1 \in DOMAIN news[n]
           /\ Head(news[n]) = news[n][1] /\ Head(news[n]) \in Events
<1>1. news[n] \in Seq(Events) /\ news'[n] = Tail(news[n]) BY DEF Types
<1>4. /\ Tail(news[n]) \in Seq(Events) /\ 1 \in DOMAIN news[n]
      /\ Head(news[n]) = news[n][1] /\ Head(news[n]) \in Events
      /\ \A i \in DOMAIN Tail(news[n]) : i + 1 \in DOMAIN news[n] /\ Tail(news[n])[i] = news[n][i + 1]
      BY <1>1, TailEntries
<1>2. /\ news'[n] \in Seq(Events)
      /\ \A i \in DOMAIN news'[n] : i + 1 \in DOMAIN news[n] /\ news'[n][i] = news[n][i + 1]
      BY <1>1, <1>4
<1>3. news' \in [Nodes -> Seq(Events)] /\ \A k \in Nodes : k # n => news'[k] = news[k]
      BY <1>1, <1>2 DEF Types
<1> QED BY <1>2, <1>3, <1>4 DEF NewsTaken

\* begin_starting: all managers are asked for the lease.
LEMMA BeginStarting ==
    ASSUME Types, NEW n \in Nodes, NEW D, begin_starting(n, D)
    PROVE  /\ Becomes(n, Starting({}))
           /\ Begins(n, IF Complete(n, Starting({})) THEN starts[n] + 1 ELSE starts[n])
           /\ messages' = D (+) SetToBag(Sent(n, "RequestLease", managers'[n]))
<1>1. MaybeStart(n, Starting({}), D (+) notify(n, "RequestLease", managers'[n])) BY DEF begin_starting
<1>2. Starting({}) \in States BY StateIs
<1>3. notify(n, "RequestLease", managers'[n]) = SetToBag(Sent(n, "RequestLease", managers'[n])) BY NotifyIs
<1> QED BY <1>1, <1>2, <1>3, MaybeStartIs

\* What n sends when it has joined.
AckOf(n) == IF is_joining(n) THEN Sent(n, "LeaseAck", state[n].nodes) ELSE {}
AskOf(n, e) == IF e.leader = n THEN Sent(n, "RequestLease", managers'[n]) ELSE {}
JoinedAs(n, e) == IF e.leader = n THEN Starting({}) ELSE IdleState

\* OnMemberUp
LEMMA MemberUpIs ==
    ASSUME Types, NEW n \in Nodes, NEW e \in Events, e.type = "MemberUp", OnMemberUp(n, e)
    PROVE  /\ managers' \in [Nodes -> SUBSET Nodes] /\ managers'[n] = managers[n] \cup (e.nodes \ {n})
           /\ \A k \in Nodes \ {n} : managers'[k] = managers[k]
           /\ Becomes(n, JoinedAs(n, e))
           /\ Begins(n, IF Complete(n, JoinedAs(n, e)) THEN starts[n] + 1 ELSE starts[n])
           /\ Posts({}, AckOf(n) \cup AskOf(n, e))
<1>0. alive \subseteq Nodes BY DEF Types
<1>1. e.nodes \in SUBSET Nodes BY EventIs
<1>2. /\ managers' \in [Nodes -> SUBSET Nodes] /\ managers'[n] = managers[n] \cup (e.nodes \ {n})
      /\ \A k \in Nodes \ {n} : managers'[k] = managers[k]
      BY <1>1 DEF OnMemberUp, Types
<1> PICK D : D = messages (+) SetToBag(AckOf(n)) OBVIOUS
<1>3. IF e.leader = n THEN begin_starting(n, D) ELSE MaybeStart(n, IdleState, D)
  <2>1. notify(n, "LeaseAck", state[n].nodes) = SetToBag(Sent(n, "LeaseAck", state[n].nodes)) BY NotifyIs
  <2>2. (IF is_joining(n) THEN notify(n, "LeaseAck", state[n].nodes) ELSE EmptyBag) = SetToBag(AckOf(n))
        BY <2>1 DEF AckOf, EmptyBag
  <2> QED BY <2>2 DEF OnMemberUp
<1>4. AckOf(n) \in SUBSET Letters /\ \A x \in AckOf(n) : x.type = "LeaseAck"
  <2> PICK A : A = Sent(n, "LeaseAck", state[n].nodes) OBVIOUS
  <2>1. A \in SUBSET Letters BY SMT, <1>0, SentLetters
  <2>2. \A x \in A : x.type = "LeaseAck" BY SMT, <1>0, SentLetters
  <2> QED BY <2>1, <2>2 DEF AckOf
<1>5. CASE e.leader = n
  <2> PICK Q : Q = Sent(n, "RequestLease", managers'[n]) OBVIOUS
  <2>0. Q \in SUBSET Letters BY SMT, <1>0, SentLetters
  <2>1. Q \in SUBSET Letters /\ \A x \in Q : x.type = "RequestLease" BY SMT, <1>0, <2>0, SentLetters
  <2>2. /\ Becomes(n, Starting({}))
        /\ Begins(n, IF Complete(n, Starting({})) THEN starts[n] + 1 ELSE starts[n])
        /\ messages' = D (+) SetToBag(Q)
        BY <1>3, <1>5, BeginStarting
  <2>3. AckOf(n) \cap Q = {} BY <1>4, <2>1
  <2>4. Posts({}, AckOf(n) \cup Q) BY <1>4, <2>1, <2>2, <2>3, PostingTwice
  <2> QED BY <1>2, <1>5, <2>2, <2>4 DEF JoinedAs, AskOf
<1>6. CASE e.leader # n
  <2>1. IdleState \in States BY StateIs
  <2>2. /\ Becomes(n, IdleState)
        /\ Begins(n, IF Complete(n, IdleState) THEN starts[n] + 1 ELSE starts[n]) /\ messages' = D
        BY <1>3, <1>6, <2>1, MaybeStartIs
  <2>3. Posts({}, AckOf(n)) BY <1>4, <2>2, Posting
  <2> QED BY <1>2, <1>6, <2>2, <2>3 DEF JoinedAs, AskOf
<1> QED BY <1>5, <1>6

\* OnLeaderChanged
LEMMA LeaderChangedIs ==
    ASSUME Types, NEW n \in Nodes, NEW e, OnLeaderChanged(n, e)
    PROVE  /\ UNCHANGED managers
           /\ \/ UNCHANGED <<state, starts, messages>>
              \/ /\ e.leader = n /\ state[n].kind \in {"Idle", "Stopping"}
                 /\ Becomes(n, Starting({}))
                 /\ Begins(n, IF Complete(n, Starting({})) THEN starts[n] + 1 ELSE starts[n])
                 /\ Posts({}, Sent(n, "RequestLease", managers[n]))
<1>0. alive \subseteq Nodes /\ managers' = managers BY DEF Types, OnLeaderChanged
<1>1. CASE e.leader = n /\ ~is_joining(n) /\ ~is_running(n)
  <2> PICK Q : Q = Sent(n, "RequestLease", managers[n]) OBVIOUS
  <2>1. Q \in SUBSET Letters BY SMT, <1>0, SentLetters
  <2>2. begin_starting(n, messages) BY <1>1 DEF OnLeaderChanged
  <2>3. /\ Becomes(n, Starting({}))
        /\ Begins(n, IF Complete(n, Starting({})) THEN starts[n] + 1 ELSE starts[n])
        /\ messages' = messages (+) SetToBag(Q)
        BY <1>0, <2>2, BeginStarting
  <2>4. Posts({}, Q) BY <2>1, <2>3, Posting
  <2>5. state[n].kind \in Kinds BY SMT, StateIs DEF Types
  <2>6. state[n].kind \in {"Idle", "Stopping"} BY <1>1, <2>5 DEF Kinds, is_joining, is_running
  <2> QED BY <1>0, <1>1, <2>3, <2>4, <2>6
<1>2. CASE ~(e.leader = n /\ ~is_joining(n) /\ ~is_running(n))
      BY <1>0, <1>2 DEF OnLeaderChanged
<1> QED BY <1>1, <1>2

\* OnNodeRemoved
LEMMA NodeRemovedIs ==
    ASSUME Types, NEW n \in Nodes, NEW e, OnNodeRemoved(n, e)
    PROVE  /\ managers' \in [Nodes -> SUBSET Nodes] /\ managers'[n] = managers[n] \ {e.node}
           /\ \A k \in Nodes \ {n} : managers'[k] = managers[k]
           /\ UNCHANGED messages
           /\ \/ state[n].kind # "Starting" /\ UNCHANGED <<state, starts>>
              \/ /\ state[n].kind = "Starting" /\ Becomes(n, Starting(state[n].nodes \ {e.node}))
                 /\ Begins(n, IF Complete(n, Starting(state[n].nodes \ {e.node})) THEN starts[n] + 1 ELSE starts[n])
<1>1. /\ managers' \in [Nodes -> SUBSET Nodes] /\ managers'[n] = managers[n] \ {e.node}
      /\ \A k \in Nodes \ {n} : managers'[k] = managers[k]
      BY DEF OnNodeRemoved, Types
<1>2. CASE state[n].kind = "Starting"
  <2> PICK P : P = state[n].nodes \ {e.node} OBVIOUS
  <2>1. state[n].nodes \in SUBSET Nodes BY SMT, StateIs DEF Types
  <2>2. Starting(P) \in States BY <2>1, StateIs
  <2>3. MaybeStart(n, Starting(P), messages) BY <1>2 DEF OnNodeRemoved
  <2> QED BY <1>1, <1>2, <2>2, <2>3, MaybeStartIs
<1>3. CASE state[n].kind # "Starting" BY <1>1, <1>3 DEF OnNodeRemoved
<1> QED BY <1>2, <1>3

\* OnNodeAdded
LEMMA NodeAddedIs ==
    ASSUME Types, NEW n \in Nodes, NEW e \in Events, e.type = "NodeAdded", OnNodeAdded(n, e)
    PROVE  /\ managers' \in [Nodes -> SUBSET Nodes] /\ UNCHANGED <<state, starts>>
           /\ \E S : Posts({}, S) /\ \A x \in S : x.to \in alive
<1>0. alive \subseteq Nodes BY DEF Types
<1>1. e.node \in Nodes BY EventIs
<1>2. managers' \in [Nodes -> SUBSET Nodes] /\ UNCHANGED <<state, starts>> BY <1>1 DEF OnNodeAdded, Types
<1> PICK type : type = [Starting |-> "RequestLease", Running |-> "SingletonStarted"] OBVIOUS
<1>3. CASE e.node \notin managers[n] /\ is_running(n)
  <2> PICK t : t = type[state[n].kind] OBVIOUS
  <2>1. t \in {"RequestLease", "SingletonStarted"}
    <3>1. state[n].kind = "Starting" \/ state[n].kind = "Running" BY <1>3 DEF is_running
    <3>2. type["Starting"] = "RequestLease" /\ type["Running"] = "SingletonStarted" OBVIOUS
    <3> QED BY <3>1, <3>2
  <2> PICK Q : Q = Sent(n, t, {e.node}) OBVIOUS
  <2>2. Q \in SUBSET Letters /\ \A x \in Q : x.to \in alive BY SMT, <1>0, <2>1, SentLetters
  <2>3. messages' = messages (+) notify(n, t, {e.node}) BY <1>3 DEF OnNodeAdded
  <2>4. messages' = messages (+) SetToBag(Q) BY <2>3, NotifyIs
  <2>5. Posts({}, Q) BY <2>2, <2>4, Posting
  <2> QED BY <1>2, <2>2, <2>5
<1>4. CASE ~(e.node \notin managers[n] /\ is_running(n))
  <2>1. UNCHANGED messages BY <1>4 DEF OnNodeAdded
  <2>2. Posts({}, {}) BY <2>1, NoPost
  <2> QED BY SMT, <1>2, <2>2
<1> QED BY <1>3, <1>4

\* The actors when the one of n is told to stop.
Told(n) == {IF a.node = n /\ a.id = state[n].actor THEN [node |-> n, id |-> a.id, stop |-> TRUE] ELSE a : a \in actors}

\* RequestLease
LEMMA RequestLeaseIs ==
    ASSUME Types, NEW n \in Nodes, NEW m \in DOMAIN messages, RequestLease(n, m)
    PROVE  /\ n \in alive /\ m.to = n /\ m.type = "RequestLease" /\ m.from \in Nodes
           /\ UNCHANGED <<alive, flaps, view, suspects, leader, news, results, last_id, managers, starts, queue>>
           /\ \/ /\ state[n].kind = "Joining" /\ Becomes(n, Joining({m.from}))
                 /\ Posts({m}, {}) /\ UNCHANGED actors
              \/ /\ state[n].kind \in {"Idle", "Stopping"} /\ UNCHANGED <<state, actors>>
                 /\ Posts({m}, Sent(n, "LeaseAck", {m.from}))
              \/ /\ state[n].kind = "Running" /\ Becomes(n, Stopping(state[n].actor))
                 /\ Posts({m}, Sent(n, "SingletonStopped", managers[n])) /\ actors' = Told(n)
              \/ /\ state[n].kind = "Starting" /\ UNCHANGED <<state, actors>>
                 /\ Posts({m}, {})
<1>0. alive \subseteq Nodes /\ m \in Letters /\ state[n] \in States BY DEF Types, IsMail
<1>1. m.from \in Nodes BY <1>0, LetterIs
<1>2. /\ n \in alive /\ m.to = n /\ m.type = "RequestLease"
      /\ UNCHANGED <<alive, flaps, view, suspects, leader, news, results, last_id, managers, starts, queue>>
      BY DEF RequestLease, Receive, cluster, proxies
<1> PICK D : D = Took(m) OBVIOUS
<1>3. CASE /\ is_joining(n) /\ state' = [state EXCEPT ![n] = Joining({m.from})]
           /\ messages' = Took(m) /\ UNCHANGED actors
  <2>1. Joining({m.from}) \in States BY SMT, <1>1, StateIs
  <2>2. Becomes(n, Joining({m.from})) BY <1>3, <2>1 DEF Becomes, Types
  <2>3. Posts({m}, {}) BY <1>3, Taking
  <2> QED BY <1>1, <1>2, <1>3, <2>2, <2>3 DEF is_joining
<1>4. CASE /\ state[n].kind \in {"Idle", "Stopping"} /\ UNCHANGED <<state, actors>>
           /\ messages' = Took(m) (+) notify(n, "LeaseAck", {m.from})
  <2> PICK A : A = Sent(n, "LeaseAck", {m.from}) OBVIOUS
  <2>1. A \in SUBSET Letters BY SMT, <1>0, SentLetters
  <2>2. messages' = D (+) SetToBag(A) BY <1>4, NotifyIs
  <2>3. Posts({m}, A) BY <2>1, <2>2, TakingPosting
  <2> QED BY <1>1, <1>2, <1>4, <2>3
<1>5. CASE /\ state[n].kind = "Running"
           /\ state' = [state EXCEPT ![n] = Stopping(@.actor)]
           /\ actors' = {IF a.node = n /\ a.id = state[n].actor
                         THEN [node |-> n, id |-> a.id, stop |-> TRUE] ELSE a : a \in actors}
           /\ messages' = Took(m) (+) notify(n, "SingletonStopped", managers[n])
  <2> PICK A : A = Sent(n, "SingletonStopped", managers[n]) OBVIOUS
  <2>1. A \in SUBSET Letters BY SMT, <1>0, SentLetters
  <2>2. messages' = D (+) SetToBag(A) BY <1>5, NotifyIs
  <2>3. Posts({m}, A) BY <2>1, <2>2, TakingPosting
  <2>4. Stopping(state[n].actor) \in States BY <1>0, StateIs
  <2>5. Becomes(n, Stopping(state[n].actor)) BY <1>5, <2>4 DEF Becomes, Types
  <2>6. actors' = Told(n) BY <1>5 DEF Told
  <2> QED BY <1>1, <1>2, <1>5, <2>3, <2>5, <2>6
<1>6. CASE state[n].kind = "Starting" /\ messages' = Took(m) /\ UNCHANGED <<state, actors>>
  <2>1. Posts({m}, {}) BY <1>6, Taking
  <2> QED BY <1>1, <1>2, <1>6, <2>1
<1> QED BY <1>3, <1>4, <1>5, <1>6 DEF RequestLease

\* LeaseAck
LEMMA LeaseAckIs ==
    ASSUME Types, NEW n \in Nodes, NEW m \in DOMAIN messages, LeaseAck(n, m)
    PROVE  /\ n \in alive /\ m.to = n /\ m.type = "LeaseAck" /\ m.from \in Nodes
           /\ UNCHANGED <<alive, flaps, view, suspects, leader, news, results, last_id, managers, actors, queue>>
           /\ Posts({m}, {})
           /\ \/ state[n].kind # "Starting" /\ UNCHANGED <<state, starts>>
              \/ /\ state[n].kind = "Starting" /\ Becomes(n, Starting(state[n].nodes \cup {m.from}))
                 /\ Begins(n, IF Complete(n, Starting(state[n].nodes \cup {m.from})) THEN starts[n] + 1 ELSE starts[n])
<1>0. m \in Letters /\ state[n] \in States BY DEF Types, IsMail
<1>1. m.from \in Nodes BY <1>0, LetterIs
<1>2. /\ n \in alive /\ m.to = n /\ m.type = "LeaseAck"
      /\ UNCHANGED <<alive, flaps, view, suspects, leader, news, results, last_id, managers, actors, queue>>
      BY DEF LeaseAck, Receive, cluster, proxies
<1>3. CASE state[n].kind = "Starting"
  <2> PICK P : P = state[n].nodes \cup {m.from} OBVIOUS
  <2>1. Starting(P) \in States
    <3>1. state[n].nodes \in SUBSET Nodes BY <1>0, StateIs
    <3> QED BY SMT, <1>1, <3>1, StateIs
  <2>2. MaybeStart(n, Starting(P), Took(m)) BY <1>3 DEF LeaseAck
  <2>3. /\ messages' = Took(m) /\ Becomes(n, Starting(P))
        /\ Begins(n, IF Complete(n, Starting(P)) THEN starts[n] + 1 ELSE starts[n])
        BY <2>1, <2>2, MaybeStartIs
  <2>4. Posts({m}, {}) BY <2>3, Taking
  <2> QED BY <1>1, <1>2, <1>3, <2>3, <2>4
<1>4. CASE state[n].kind # "Starting"
  <2>1. messages' = Took(m) /\ UNCHANGED <<state, starts>> BY <1>4 DEF LeaseAck
  <2>2. Posts({m}, {}) BY <2>1, Taking
  <2> QED BY <1>1, <1>2, <1>4, <2>1, <2>2
<1> QED BY <1>3, <1>4

\* A proxy is told where the actor is.
LEMMA ProxyQueue == ASSUME Base, NEW n \in Nodes, NEW m, ProxyStarted(n, m) PROVE queue' \in [Nodes -> SUBSET Requests]
BY DEF ProxyStarted, Base, Types

\* ActorStartResult
LEMMA ActorStartResultIs ==
    ASSUME Base, NEW n \in Nodes, ActorStartResult(n)
    PROVE  /\ n \in alive /\ results[n] # <<>> /\ Becomes(n, RunningState(Head(results[n])))
           /\ results' \in [Nodes -> Seq(Nat)] /\ results'[n] = Tail(results[n])
           /\ \A k \in Nodes \ {n} : results'[k] = results[k]
           /\ Posts({}, Sent(n, "SingletonStarted", managers[n]))
           /\ \A x \in Sent(n, "SingletonStarted", managers[n]) : x.to \in alive
           /\ UNCHANGED <<alive, flaps, view, suspects, leader, news, managers, starts, actors, last_id>>
<1>0. Types /\ alive \subseteq Nodes BY DEF Base, Types
<1>1. /\ n \in alive /\ results[n] # <<>> /\ results' = [results EXCEPT ![n] = Tail(@)]
      /\ state' = [state EXCEPT ![n] = RunningState(Head(results[n]))]
      /\ UNCHANGED <<alive, flaps, view, suspects, leader, news, managers, starts, actors, last_id>>
      /\ messages' = messages (+) notify(n, "SingletonStarted", managers[n])
      BY DEF ActorStartResult, cluster
<1>2. results[n] \in Seq(Nat) BY <1>0 DEF Types
<1>3. Tail(results[n]) \in Seq(Nat) /\ Head(results[n]) \in Nat BY <1>1, <1>2, TailEntries
<1>4. RunningState(Head(results[n])) \in States BY <1>3, StateIs
<1>5. Becomes(n, RunningState(Head(results[n]))) BY <1>0, <1>1, <1>4 DEF Becomes, Types
<1>6. /\ results' \in [Nodes -> Seq(Nat)] /\ results'[n] = Tail(results[n])
      /\ \A k \in Nodes \ {n} : results'[k] = results[k]
      BY <1>0, <1>1, <1>3 DEF Types
<1> PICK A : A = Sent(n, "SingletonStarted", managers[n]) OBVIOUS
<1>7. A \in SUBSET Letters BY SMT, <1>0, SentLetters
<1>8. \A x \in A : x.to \in alive BY <1>0, SentLetters
<1>9. messages' = messages (+) SetToBag(A) BY <1>1, NotifyIs
<1>10. Posts({}, A) BY <1>0, <1>7, <1>9, Posting
<1> QED BY <1>1, <1>5, <1>6, <1>8, <1>10

\* SingletonStarted and SingletonStopped
LEMMA SingletonMessageIs ==
    ASSUME Base, NEW n \in Nodes, NEW m \in DOMAIN messages, SingletonStarted(n, m) \/ SingletonStopped(n, m)
    PROVE  /\ n \in alive /\ m.to = n /\ m.type \in {"SingletonStarted", "SingletonStopped"}
           /\ UNCHANGED <<alive, flaps, view, suspects, leader, news, state, managers, starts, results, actors, last_id>>
           /\ Posts({m}, {}) /\ queue' \in [Nodes -> SUBSET Requests]
<1>1. /\ n \in alive /\ m.to = n /\ m.type \in {"SingletonStarted", "SingletonStopped"} /\ messages' = Took(m)
      /\ UNCHANGED <<alive, flaps, view, suspects, leader, news, state, managers, starts, results, actors, last_id>>
      BY DEF SingletonStarted, SingletonStopped, Receive, cluster
<1>2. Posts({m}, {}) BY <1>1, Taking DEF Base
<1>3. queue' \in [Nodes -> SUBSET Requests]
  <2>1. CASE SingletonStarted(n, m) BY <2>1, ProxyQueue DEF SingletonStarted
  <2>2. CASE SingletonStopped(n, m) BY <2>2 DEF SingletonStopped, ProxyStopping, Base, Types
  <2> QED BY <2>1, <2>2
<1> QED BY <1>1, <1>2, <1>3

-----------------------------------------------------------------------------
(* The first half of the invariant. *)

\* What a manager, a proxy or an actor does is a step of a manager that is up.
LEMMA ManagersAct ==
    Base /\ UNCHANGED scenario =>
        /\ \A n \in Nodes : Handle(n) => n \in alive /\ Acts(n)
        /\ \A n \in Nodes, r \in scenario.requests : Deliver(n, r) => n \in alive /\ Acts(n)
        /\ \A a \in actors : ActorStopped(a) => a.node \in alive /\ Acts(a.node)
\* Nothing is sent to a node that is not up.
<1>PostsArrive.
    ASSUME Base, NEW R, NEW S, Posts(R, S), \A x \in S : x.to \in alive
    PROVE  IsMail(messages') /\ \A x \in DOMAIN messages' : x.to \in alive
  BY <1>PostsArrive DEF Posts, Base, Presence
\* What the manager does with an event: it leads when the event says so, or when it did.
<1>ReactsActs.
    ASSUME Base, NEW n \in alive, NewsTaken(n), managers' \in [Nodes -> SUBSET Nodes],
           UNCHANGED <<alive, flaps, view, suspects, leader, scenario, results, actors, last_id, queue>>,
           NEW s, NEW i, Becomes(n, s), Begins(n, i),
           IsMail(messages'), \A x \in DOMAIN messages' : x.to \in alive,
           s.kind \in {"Starting", "Running", "Stopping"} \/ i > 0 => Leads(n)
    PROVE  Acts(n)
  <2> USE <1>ReactsActs
  <2>0. n \in Nodes BY DEF Base, Types
  <2>1. /\ news' \in [Nodes -> Seq(Events)] /\ \A k \in Nodes \ {n} : news'[k] = news[k]
        /\ \A j \in DOMAIN news'[n] : j + 1 \in DOMAIN news[n] /\ news'[n][j] = news[n][j + 1]
        BY DEF NewsTaken
  <2>2. /\ results' \in [Nodes -> Seq(Nat)] /\ actors' \subseteq [node : Nodes, id : Nat, stop : BOOLEAN]
        /\ last_id' \in Nat /\ queue' \in [Nodes -> SUBSET Requests]
        BY DEF Base, Types
  <2>3. Leads(n)' => Leads(n)
    <3>1. state'[n] = s /\ starts'[n] = i /\ results'[n] = results[n] BY DEF Becomes, Begins
    <3>2. \A j \in DOMAIN news'[n] : news'[n][j].type \in {"MemberUp", "LeaderChanged"} /\ news'[n][j].leader = n => Leads(n)
          BY <2>1 DEF Leads
    <3>3. results[n] # <<>> => Leads(n) BY DEF Leads
    <3> QED BY <3>1, <3>2, <3>3 DEF Leads
  <2> QED BY <2>1, <2>2, <2>3 DEF Acts, Becomes, Begins
\* HandleNews
<1>NewsActs. ASSUME Base, NEW n \in Nodes, HandleNews(n), UNCHANGED scenario PROVE Acts(n)
  <2> USE <1>NewsActs
  <2>0. Types BY DEF Base
  <2>1. /\ n \in alive /\ news[n] # <<>> /\ news' = [news EXCEPT ![n] = Tail(@)]
        /\ UNCHANGED <<alive, flaps, view, suspects, leader, results, actors, last_id, queue>>
        BY DEF HandleNews, cluster, running, proxies
  <2> PICK e : e = Head(news[n]) OBVIOUS
  <2>2. NewsTaken(n) /\ 1 \in DOMAIN news[n] /\ e = news[n][1] /\ e \in Events BY <2>0, <2>1, Takes
  <2>3. \/ e.type = "MemberUp" /\ OnMemberUp(n, e)
        \/ e.type = "LeaderChanged" /\ OnLeaderChanged(n, e)
        \/ e.type = "NodeAdded" /\ OnNodeAdded(n, e)
        \/ e.type = "NodeRemoved" /\ OnNodeRemoved(n, e)
        BY DEF HandleNews
  <2>4. e.type \in {"MemberUp", "LeaderChanged"} /\ e.leader = n => Leads(n) BY <2>2 DEF Leads
  <2>5. state[n].kind \in {"Starting", "Running", "Stopping"} \/ starts[n] > 0 => Leads(n) BY DEF Leads
  <2>6. /\ state \in [Nodes -> States] /\ starts \in [Nodes -> Nat] /\ managers \in [Nodes -> SUBSET Nodes]
        /\ state[n] \in States /\ starts[n] \in Nat /\ alive \subseteq Nodes
        BY <2>0 DEF Types
  <2>7. UNCHANGED <<state, starts>> => Becomes(n, state[n]) /\ Begins(n, starts[n]) BY <2>6 DEF Becomes, Begins
  <2>8. UNCHANGED messages => IsMail(messages') /\ \A x \in DOMAIN messages' : x.to \in alive
        BY DEF Base, Presence, Types
  <2> HIDE DEF Base, Types, Leads, Acts, NewsTaken, Becomes, Begins, Events
  <2>9. CASE e.type = "MemberUp" /\ OnMemberUp(n, e)
    <3> PICK s : s = JoinedAs(n, e) OBVIOUS
    <3> PICK i : i = IF Complete(n, s) THEN starts[n] + 1 ELSE starts[n] OBVIOUS
    <3>1. managers' \in [Nodes -> SUBSET Nodes] /\ Becomes(n, s) /\ Begins(n, i)
          /\ Posts({}, AckOf(n) \cup AskOf(n, e))
          BY <2>0, <2>2, <2>9, MemberUpIs
    <3>2. \A x \in AckOf(n) \cup AskOf(n, e) : x.to \in alive BY SMT, <2>6, SentLetters DEF AckOf, AskOf
    <3>3. IsMail(messages') /\ \A x \in DOMAIN messages' : x.to \in alive BY <3>1, <3>2, <1>PostsArrive
    <3>4. e.leader = n \/ (s.kind = "Idle" /\ i = starts[n]) BY StateIs DEF JoinedAs, Complete
    <3>5. s.kind \in {"Starting", "Running", "Stopping"} \/ i > 0 => Leads(n) BY <2>4, <2>5, <2>9, <3>4
    <3> QED BY <2>1, <2>2, <3>1, <3>3, <3>5, <1>ReactsActs
  <2>10. CASE e.type = "LeaderChanged" /\ OnLeaderChanged(n, e)
    <3> PICK i : i = IF Complete(n, Starting({})) THEN starts[n] + 1 ELSE starts[n] OBVIOUS
    <3> PICK Q : Q = Sent(n, "RequestLease", managers[n]) OBVIOUS
    <3>1. /\ UNCHANGED managers
          /\ \/ UNCHANGED <<state, starts, messages>>
             \/ e.leader = n /\ Becomes(n, Starting({})) /\ Begins(n, i) /\ Posts({}, Q)
          BY <2>0, <2>10, LeaderChangedIs
    <3>2. CASE UNCHANGED <<state, starts, messages>>
          BY <2>1, <2>2, <2>5, <2>6, <2>7, <2>8, <3>1, <3>2, <1>ReactsActs
    <3>3. CASE e.leader = n /\ Becomes(n, Starting({})) /\ Begins(n, i) /\ Posts({}, Q)
      <4>1. \A x \in Q : x.to \in alive BY <2>6, SentLetters
      <4>2. IsMail(messages') /\ \A x \in DOMAIN messages' : x.to \in alive BY <3>3, <4>1, <1>PostsArrive
      <4>3. Leads(n) BY <2>4, <2>10, <3>3
      <4> QED BY <2>1, <2>2, <2>6, <3>1, <3>3, <4>2, <4>3, <1>ReactsActs
    <3> QED BY <3>1, <3>2, <3>3
  <2>11. CASE e.type = "NodeAdded" /\ OnNodeAdded(n, e)
    <3>1. PICK S : /\ managers' \in [Nodes -> SUBSET Nodes] /\ UNCHANGED <<state, starts>>
                   /\ Posts({}, S) /\ \A x \in S : x.to \in alive
          BY <2>0, <2>2, <2>11, NodeAddedIs
    <3>2. IsMail(messages') /\ \A x \in DOMAIN messages' : x.to \in alive BY <3>1, <1>PostsArrive
    <3> QED BY <2>1, <2>2, <2>5, <2>7, <3>1, <3>2, <1>ReactsActs
  <2>12. CASE e.type = "NodeRemoved" /\ OnNodeRemoved(n, e)
    <3> PICK P : P = state[n].nodes \ {e.node} OBVIOUS
    <3> PICK i : i = IF Complete(n, Starting(P)) THEN starts[n] + 1 ELSE starts[n] OBVIOUS
    <3>1. /\ managers' \in [Nodes -> SUBSET Nodes] /\ UNCHANGED messages
          /\ \/ UNCHANGED <<state, starts>>
             \/ state[n].kind = "Starting" /\ Becomes(n, Starting(P)) /\ Begins(n, i)
          BY <2>0, <2>12, NodeRemovedIs
    <3>2. CASE UNCHANGED <<state, starts>> BY <2>1, <2>2, <2>5, <2>7, <2>8, <3>1, <3>2, <1>ReactsActs
    <3>3. CASE state[n].kind = "Starting" /\ Becomes(n, Starting(P)) /\ Begins(n, i)
      <4>1. Leads(n) BY <2>5, <3>3
      <4> QED BY <2>1, <2>2, <2>8, <3>1, <3>3, <4>1, <1>ReactsActs
    <3> QED BY <3>1, <3>2, <3>3
  <2> QED BY <2>3, <2>9, <2>10, <2>11, <2>12
\* Deliver, SingletonStarted and SingletonStopped: the lease is not concerned.
<1>ProxyActs.
    ASSUME Base, NEW n \in alive,
           UNCHANGED <<alive, flaps, view, suspects, leader, scenario, news, state, managers, starts, results,
                       actors, last_id>>,
           IsMail(messages'), \A x \in DOMAIN messages' : x.to \in alive,
           queue' \in [Nodes -> SUBSET Requests]
    PROVE  Acts(n)
  <2> USE <1>ProxyActs
  <2>1. Leads(n)' => Leads(n) BY DEF Leads
  <2> QED BY <2>1 DEF Acts, Base, Types
\* A message of another manager is handled: the manager leads only if it did.
<1>MessageActs.
    ASSUME Base, NEW n \in alive, NEW s, NEW i, Becomes(n, s), Begins(n, i),
           UNCHANGED <<alive, flaps, view, suspects, leader, scenario, news, results, last_id, managers, queue>>,
           IsMail(messages'), \A x \in DOMAIN messages' : x.to \in alive,
           actors' \subseteq [node : Nodes, id : Nat, stop : BOOLEAN],
           \A a \in actors' : \E b \in actors : a.node = b.node,
           s.kind \in {"Starting", "Running", "Stopping"} \/ i > 0 => Leads(n)
    PROVE  Acts(n)
  <2> USE <1>MessageActs
  <2>0. n \in Nodes BY DEF Base, Types
  <2>1. Leads(n)' => Leads(n)
    <3>1. state'[n] = s /\ starts'[n] = i BY DEF Becomes, Begins
    <3> QED BY <3>1 DEF Leads
  <2> QED BY <2>1 DEF Acts, Becomes, Begins, Base, Types
\* RequestLease
<1>RequestLeaseActs.
    ASSUME Base, NEW n \in Nodes, NEW m \in DOMAIN messages, RequestLease(n, m), UNCHANGED scenario
    PROVE  Acts(n)
  <2> USE <1>RequestLeaseActs
  <2>0. Types BY DEF Base
  <2>1. /\ n \in alive
        /\ UNCHANGED <<alive, flaps, view, suspects, leader, news, results, last_id, managers, starts, queue>>
        BY <2>0, RequestLeaseIs
  <2>2. /\ state \in [Nodes -> States] /\ starts \in [Nodes -> Nat] /\ alive \subseteq Nodes
        /\ actors \subseteq [node : Nodes, id : Nat, stop : BOOLEAN] /\ \A a \in actors : \E b \in actors : a.node = b.node
        BY <2>0 DEF Types
  <2>3. Begins(n, starts[n]) /\ (starts[n] > 0 => Leads(n)) BY <2>1, <2>2 DEF Begins, Leads
  <2>4. UNCHANGED state => Becomes(n, state[n]) BY <2>2 DEF Becomes
  <2>5. state[n].kind \in {"Starting", "Running", "Stopping"} => Leads(n) BY DEF Leads
  <2>6. PICK S, s : /\ Posts({m}, S) /\ (\A x \in S : x.to \in alive) /\ Becomes(n, s)
                    /\ s.kind \in {"Starting", "Running", "Stopping"} => Leads(n)
    <3>1. CASE state[n].kind = "Joining" /\ Becomes(n, Joining({m.from})) /\ Posts({m}, {})
      <4>1. Joining({m.from}).kind = "Joining" BY DEF Joining
      <4> QED BY SMT, <3>1, <4>1
    <3>2. CASE UNCHANGED state /\ Posts({m}, Sent(n, "LeaseAck", {m.from}))
      <4>1. \A x \in Sent(n, "LeaseAck", {m.from}) : x.to \in alive BY SMT, <2>2, SentLetters
      <4> QED BY <2>4, <2>5, <3>2, <4>1
    <3>3. CASE /\ state[n].kind = "Running" /\ Becomes(n, Stopping(state[n].actor))
               /\ Posts({m}, Sent(n, "SingletonStopped", managers[n]))
      <4>1. \A x \in Sent(n, "SingletonStopped", managers[n]) : x.to \in alive BY <2>2, SentLetters
      <4> QED BY <2>5, <3>3, <4>1
    <3>4. CASE UNCHANGED state /\ Posts({m}, {}) BY SMT, <2>4, <2>5, <3>4
    <3> QED BY <2>0, <3>1, <3>2, <3>3, <3>4, RequestLeaseIs
  <2>7. IsMail(messages') /\ \A x \in DOMAIN messages' : x.to \in alive BY <2>6, <1>PostsArrive
  <2>8. actors' = actors \/ actors' = Told(n) BY <2>0, RequestLeaseIs
  <2>9. /\ actors' \subseteq [node : Nodes, id : Nat, stop : BOOLEAN]
        /\ \A a \in actors' : \E b \in actors : a.node = b.node
    <3>1. ASSUME NEW a \in Told(n)
          PROVE  a \in [node : Nodes, id : Nat, stop : BOOLEAN] /\ \E b \in actors : a.node = b.node
      <4>1. PICK b \in actors : a = IF b.node = n /\ b.id = state[n].actor THEN [node |-> n, id |-> b.id, stop |-> TRUE] ELSE b
            BY <3>1 DEF Told
      <4>2. b \in [node : Nodes, id : Nat, stop : BOOLEAN] BY <2>2
      <4> QED BY <4>1, <4>2
    <3> QED BY <2>2, <2>8, <3>1
  <2> QED BY <2>1, <2>3, <2>6, <2>7, <2>9, <1>MessageActs
\* LeaseAck
<1>LeaseAckActs.
    ASSUME Base, NEW n \in Nodes, NEW m \in DOMAIN messages, LeaseAck(n, m), UNCHANGED scenario
    PROVE  Acts(n)
  <2> USE <1>LeaseAckActs
  <2>0. Types BY DEF Base
  <2> PICK P : P = state[n].nodes \cup {m.from} OBVIOUS
  <2> PICK i : i = IF Complete(n, Starting(P)) THEN starts[n] + 1 ELSE starts[n] OBVIOUS
  <2>1. /\ n \in alive /\ Posts({m}, {})
        /\ UNCHANGED <<alive, flaps, view, suspects, leader, news, results, last_id, managers, actors, queue>>
        /\ \/ state[n].kind # "Starting" /\ UNCHANGED <<state, starts>>
           \/ state[n].kind = "Starting" /\ Becomes(n, Starting(P)) /\ Begins(n, i)
        BY <2>0, LeaseAckIs
  <2>2. /\ state \in [Nodes -> States] /\ starts \in [Nodes -> Nat]
        /\ actors \subseteq [node : Nodes, id : Nat, stop : BOOLEAN]
        BY <2>0 DEF Types
  <2>3. UNCHANGED <<state, starts>> => Becomes(n, state[n]) /\ Begins(n, starts[n]) BY <2>2 DEF Becomes, Begins
  <2>4. IsMail(messages') /\ \A x \in DOMAIN messages' : x.to \in alive
    <3>1. \A x \in {} : x.to \in alive OBVIOUS
    <3> QED BY SMT, <2>1, <3>1, <1>PostsArrive
  <2>5. state[n].kind \in {"Starting", "Running", "Stopping"} \/ starts[n] > 0 => Leads(n) BY DEF Leads
  <2>6. actors' \subseteq [node : Nodes, id : Nat, stop : BOOLEAN] /\ \A a \in actors' : \E b \in actors : a.node = b.node
        BY <2>1, <2>2
  <2>7. CASE UNCHANGED <<state, starts>> BY <2>1, <2>3, <2>4, <2>5, <2>6, <2>7, <1>MessageActs
  <2>8. CASE state[n].kind = "Starting" /\ Becomes(n, Starting(P)) /\ Begins(n, i)
    <3>1. Leads(n) BY <2>5, <2>8
    <3> QED BY <2>1, <2>4, <2>6, <2>8, <3>1, <1>MessageActs
  <2> QED BY <2>1, <2>7, <2>8
\* ActorStarted
<1>ActorStartedActs. ASSUME Base, NEW n \in Nodes, ActorStarted(n), UNCHANGED scenario PROVE Acts(n)
  <2> USE <1>ActorStartedActs
  <2> PICK id : id = last_id + 1 OBVIOUS
  <2>1. /\ n \in alive /\ starts[n] > 0 /\ starts' = [starts EXCEPT ![n] = @ - 1] /\ last_id' = id
        /\ actors' = actors \cup {[node |-> n, id |-> id, stop |-> FALSE]}
        /\ results' = [results EXCEPT ![n] = Append(@, id)]
        /\ UNCHANGED <<alive, flaps, view, suspects, leader, news, state, managers, messages, queue>>
        BY DEF ActorStarted, cluster, proxies
  <2>2. id \in Nat BY SMT DEF Base, Types
  <2>3. Leads(n) BY <2>1 DEF Leads
  <2>4. results[n] \in Seq(Nat) /\ starts[n] \in Nat BY DEF Base, Types
  <2>5. Append(results[n], id) \in Seq(Nat) /\ starts[n] - 1 \in Nat BY SMT, <2>1, <2>2, <2>4
  <2>6. /\ results' \in [Nodes -> Seq(Nat)] /\ starts' \in [Nodes -> Nat]
        /\ \A k \in Nodes \ {n} : starts'[k] = starts[k] /\ results'[k] = results[k]
        BY <2>1, <2>5 DEF Base, Types
  <2>7. IsMail(messages') /\ \A x \in DOMAIN messages' : x.to \in alive BY <2>1 DEF Base, Types, Presence
  <2>8. /\ actors' \subseteq [node : Nodes, id : Nat, stop : BOOLEAN]
        /\ \A a \in actors' : (a.node = n /\ starts[n] > 0) \/ \E b \in actors : a.node = b.node
    <3> PICK b : b = [node |-> n, id |-> id, stop |-> FALSE] OBVIOUS
    <3>1. b \in [node : Nodes, id : Nat, stop : BOOLEAN] /\ b.node = n BY <2>2
    <3>2. actors' = actors \cup {b} BY <2>1
    <3>3. actors \subseteq [node : Nodes, id : Nat, stop : BOOLEAN] BY DEF Base, Types
    <3> QED BY <2>1, <3>1, <3>2, <3>3
  <2> QED BY <2>1, <2>2, <2>3, <2>6, <2>7, <2>8 DEF Acts, Base, Types
\* ActorStopped
<1>ActorStoppedActs.
    ASSUME Base, NEW a \in actors, ActorStopped(a), UNCHANGED scenario
    PROVE  a.node \in alive /\ Acts(a.node)
  <2> USE <1>ActorStoppedActs
  <2>1. /\ actors' = actors \ {a}
        /\ UNCHANGED <<alive, flaps, view, suspects, leader, news, state, managers, messages, starts, results, last_id, queue>>
        BY DEF ActorStopped, cluster, lease, proxies
  <2>2. a.node \in alive BY DEF Base, Presence
  <2> PICK n : n = a.node OBVIOUS
  <2>3. Leads(n)' => Leads(n) BY <2>1 DEF Leads
  <2>4. IsMail(messages') /\ \A x \in DOMAIN messages' : x.to \in alive BY <2>1 DEF Base, Types, Presence
  <2> QED BY <2>1, <2>2, <2>3, <2>4 DEF Acts, Base, Types
\* ActorStartResult leads if there is a result.
<1>ActorStartResultActs. ASSUME Base, NEW n \in Nodes, ActorStartResult(n), UNCHANGED scenario PROVE Acts(n)
  <2> USE <1>ActorStartResultActs
  <2>1. /\ n \in alive /\ results[n] # <<>> /\ Becomes(n, RunningState(Head(results[n])))
        /\ results' \in [Nodes -> Seq(Nat)] /\ \A k \in Nodes \ {n} : results'[k] = results[k]
        /\ UNCHANGED <<alive, flaps, view, suspects, leader, news, managers, starts, actors, last_id>>
        BY ActorStartResultIs
  <2> PICK A : A = Sent(n, "SingletonStarted", managers[n]) OBVIOUS
  <2>2. Posts({}, A) /\ \A x \in A : x.to \in alive BY ActorStartResultIs
  <2>3. IsMail(messages') /\ \A x \in DOMAIN messages' : x.to \in alive BY <2>2, <1>PostsArrive
  <2>4. Leads(n) BY <2>1 DEF Leads
  <2>5. queue' \in [Nodes -> SUBSET Requests] BY ProxyQueue DEF ActorStartResult
  <2> QED BY <2>1, <2>3, <2>4, <2>5 DEF Acts, Base, Types, Becomes
\* They do not concern the lease.
<1>SingletonMessageActs.
    ASSUME Base, NEW n \in Nodes, NEW m \in DOMAIN messages, SingletonStarted(n, m) \/ SingletonStopped(n, m),
           UNCHANGED scenario
    PROVE  Acts(n)
  <2> USE <1>SingletonMessageActs
  <2>1. /\ n \in alive /\ Posts({m}, {}) /\ queue' \in [Nodes -> SUBSET Requests]
        /\ UNCHANGED <<alive, flaps, view, suspects, leader, news, state, managers, starts, results, actors, last_id>>
        BY SingletonMessageIs
  <2>2. \A x \in {} : x.to \in alive OBVIOUS
  <2>3. IsMail(messages') /\ \A x \in DOMAIN messages' : x.to \in alive BY SMT, <2>1, <2>2, <1>PostsArrive
  <2> QED BY <2>1, <2>3, <1>ProxyActs
\* Deliver
<1>DeliverActs.
    ASSUME Base, NEW n \in Nodes, NEW r \in scenario.requests, Deliver(n, r), UNCHANGED scenario
    PROVE  n \in alive /\ Acts(n)
  <2> USE <1>DeliverActs
  <2>1. /\ n \in alive
        /\ UNCHANGED <<alive, flaps, view, suspects, leader, news, state, managers, messages, starts, results, actors, last_id>>
        BY DEF Deliver, cluster, lease, running
  <2>2. r \in Requests BY ClustersAssumption DEF Base, Types
  <2>3. queue' \in [Nodes -> SUBSET Requests]
    <3>1. queue \in [Nodes -> SUBSET Requests] BY DEF Base, Types
    <3>2. queue' = queue \/ queue' = [queue EXCEPT ![n] = @ \cup {r}] BY DEF Deliver
    <3> QED BY <2>2, <3>1, <3>2
  <2>4. IsMail(messages') /\ \A x \in DOMAIN messages' : x.to \in alive BY <2>1 DEF Base, Types, Presence
  <2> QED BY <2>1, <2>3, <2>4, <1>ProxyActs
<1> SUFFICES ASSUME Base, UNCHANGED scenario
             PROVE  /\ \A n \in Nodes : Handle(n) => n \in alive /\ Acts(n)
                    /\ \A n \in Nodes, r \in scenario.requests : Deliver(n, r) => n \in alive /\ Acts(n)
                    /\ \A a \in actors : ActorStopped(a) => a.node \in alive /\ Acts(a.node)
    OBVIOUS
<1>1. ASSUME NEW n \in Nodes, Handle(n) PROVE n \in alive /\ Acts(n)
  <2>1. CASE HandleNews(n) BY <2>1, <1>NewsActs DEF HandleNews
  <2>2. CASE ActorStarted(n) BY <2>2, <1>ActorStartedActs DEF ActorStarted
  <2>3. CASE ActorStartResult(n) BY <2>3, <1>ActorStartResultActs DEF ActorStartResult
  <2>4. ASSUME NEW m \in DOMAIN messages, RequestLease(n, m) PROVE n \in alive /\ Acts(n)
        BY <2>4, <1>RequestLeaseActs DEF RequestLease, Receive
  <2>5. ASSUME NEW m \in DOMAIN messages, LeaseAck(n, m) PROVE n \in alive /\ Acts(n)
        BY <2>5, <1>LeaseAckActs DEF LeaseAck, Receive
  <2>6. ASSUME NEW m \in DOMAIN messages, SingletonStarted(n, m) \/ SingletonStopped(n, m) PROVE n \in alive /\ Acts(n)
        BY <2>6, <1>SingletonMessageActs DEF SingletonStarted, SingletonStopped, Receive
  <2> QED BY <1>1, <2>1, <2>2, <2>3, <2>4, <2>5, <2>6 DEF Handle, BagToSet
<1> QED BY <1>1, <1>DeliverActs, <1>ActorStoppedActs

\* Base holds after every step; the view changes on a running node only.
LEMMA BaseKept ==
    ASSUME Ordered, Base, Next
    PROVE  Base' /\ \A k \in Nodes : view'[k] = view[k] \/ k \in alive'
<1>0. UNCHANGED scenario BY DEF Next, History
<1>1. \A n : Acts(n) => view' = view BY DEF Acts
<1>2. alive \subseteq Nodes /\ view \in [Nodes -> SUBSET Nodes] BY DEF Base, Types
<1> USE <1>0
<1>3. ASSUME NEW n \in Nodes, Join(n) PROVE Base' /\ \A k \in Nodes : view'[k] = view[k] \/ k \in alive'
  <2>1. Base' BY <1>3, MembersBase
  <2> QED BY <1>2, <1>3, <2>1 DEF Join
<1>4. ASSUME NEW n \in Nodes, Crash(n) PROVE Base' /\ view' = view
  <2>1. Base' BY <1>4, MembersBase
  <2> QED BY <1>4, <2>1 DEF Crash
<1>5. ASSUME NEW n \in Nodes, NEW m \in Nodes, Suspect(n, m) PROVE Base' /\ view' = view
  <2>1. Base' BY <1>5, MembersBase
  <2> QED BY <1>5, <2>1 DEF Suspect
<1>6. ASSUME NEW n \in Nodes, NEW m \in Nodes, Trust(n, m) PROVE Base' /\ view' = view
  <2>1. Base' BY <1>6, MembersBase
  <2> QED BY <1>6, <2>1 DEF Trust
<1>7. ASSUME NEW n \in Nodes, NEW m \in Nodes, Learn(n, m)
      PROVE  Base' /\ \A k \in Nodes : view'[k] = view[k] \/ k \in alive'
  <2>1. Base' BY <1>7, MembersBase
  <2> QED BY <1>2, <1>7, <2>1 DEF Learn
<1>8. ASSUME NEW n \in Nodes, NEW m \in Nodes, Forget(n, m)
      PROVE  Base' /\ \A k \in Nodes : view'[k] = view[k] \/ k \in alive'
  <2>1. Base' BY <1>8, MembersBase
  <2> QED BY <1>2, <1>8, <2>1 DEF Forget
<1>9. ASSUME NEW n \in Nodes, NEW r \in scenario.requests, Deliver(n, r) PROVE Base' /\ view' = view
  <2>1. n \in alive /\ Acts(n) BY <1>9, ManagersAct
  <2> QED BY <1>1, <2>1, ActsBase
<1>10. ASSUME NEW a \in actors, ActorStopped(a) PROVE Base' /\ view' = view
  <2>1. a.node \in alive /\ Acts(a.node) BY <1>10, ManagersAct
  <2> QED BY <1>1, <2>1, ActsBase
<1>11. ASSUME NEW n \in Nodes, Handle(n) PROVE Base' /\ view' = view
  <2>1. n \in alive /\ Acts(n) BY <1>11, ManagersAct
  <2> QED BY <1>1, <2>1, ActsBase
<1> QED BY <1>3, <1>4, <1>5, <1>6, <1>7, <1>8, <1>9, <1>10, <1>11 DEF Next, Environment, Detect

\* If nobody has joined and no start was repeated, that was so before, and a
\* start that begins now is the only one.
LEMMA ConditionKept ==
    ASSUME Base, Base', Next, \A k \in Nodes : view'[k] = view[k] \/ k \in alive', NobodyJoined', twice' = {}
    PROVE  /\ NobodyJoined /\ twice = {}
           /\ \A k \in Nodes : starts'[k] > starts[k] => starts[k] = 0 /\ results[k] = <<>>
<1>0. UNCHANGED scenario BY DEF Next, History
<1>1. NobodyJoined
  <2>1. \A k \in Nodes : k \in alive' => view'[k] # {} BY DEF Base, Presence
  <2> QED BY <1>0, <2>1 DEF NobodyJoined
<1>2. twice = {} /\ \A k \in Nodes : ~(starts'[k] > starts[k] /\ (starts[k] > 0 \/ results[k] # <<>>))
      BY DEF Next, History
<1>3. \A k \in Nodes : starts[k] \in Nat BY DEF Base, Types
<1> QED BY SMT, <1>1, <1>2, <1>3

-----------------------------------------------------------------------------
(* The lease: heartbeats and failures. *)

\* Where an acknowledgement is depends on the mail and on the states.
LEMMA PlacesKept ==
    ASSUME UNCHANGED <<alive, state, messages>>
    PROVE  \A n, m : /\ Asked(n, m)' <=> Asked(n, m)
                     /\ Pending(n, m)' <=> Pending(n, m)
                     /\ Acked(n, m)' <=> Acked(n, m)
                     /\ Counted(n, m)' <=> Counted(n, m)
                     /\ Granted(n, m)' <=> Granted(n, m)
BY SMT DEF Asked, Pending, Acked, Counted, Granted

\* A heartbeat: the news tell of no node that is running.
LEMMA HeartbeatLease ==
    ASSUME Base, LeaseInv, NEW n \in alive, NEW S, NewsGrow(n, S),
           UNCHANGED <<alive, scenario, state, managers, messages, starts, results, actors>>,
           \A k \in Nodes : k # n => view'[k] = view[k],
           alive \subseteq view'[n],
           \A e \in S : e.type = "LeaderChanged" \/ (e.type = "NodeRemoved" /\ e.node \notin alive /\ Silent(e.node))
    PROVE  LeaseInv'
<1>0. alive \subseteq Nodes BY DEF Base, Types
<1>1. \A k, m : /\ Asked(k, m)' <=> Asked(k, m)
                /\ Pending(k, m)' <=> Pending(k, m)
                /\ Acked(k, m)' <=> Acked(k, m)
                /\ Counted(k, m)' <=> Counted(k, m)
                /\ Granted(k, m)' <=> Granted(k, m)
      BY PlacesKept
<1>2. Single' BY DEF LeaseInv, Single
<1>3. Exclusive' BY <1>1 DEF LeaseInv, Exclusive
<1>4. \A a \in actors' : ~a.stop => Runs(a)' BY DEF LeaseInv, Runs
<1>5. ASSUME NEW k \in alive PROVE Once(k)' /\ StartsOnce(k)' /\ Know(k)'
  <2>1. Once(k) /\ StartsOnce(k) /\ Know(k) BY DEF LeaseInv
  <2>2. Once(k)' BY <1>1, <2>1 DEF Once, OnceFor
  <2>3. StartsOnce(k)' BY <2>1 DEF StartsOnce
  <2>4. Know(k)' BY <1>0, <2>1 DEF Know
  <2> QED BY <2>2, <2>3, <2>4
<1>6. \A x : Silent(x)' <=> Silent(x) BY DEF Silent
<1>7. \A k, e : EventOk(k, e)' <=> EventOk(k, e) BY <1>6 DEF EventOk
<1>8. ASSUME NEW k \in alive PROVE NewsOk(k)'
  <2>1. NewsOk(k) BY DEF LeaseInv
  <2>2. CASE k # n
    <3>1. news'[k] = news[k] BY <1>0, <2>2 DEF NewsGrow
    <3> QED BY <1>7, <2>1, <3>1 DEF NewsOk
  <2>3. CASE k = n
    <3>1. \A e \in S : EventOk(n, e) /\ e.type # "MemberUp" BY DEF EventOk
    <3>2. \A i \in DOMAIN news'[n] : (i \in DOMAIN news[n] /\ news'[n][i] = news[n][i]) \/ news'[n][i] \in S
          BY DEF NewsGrow
    <3>3. ASSUME NEW i \in DOMAIN news'[n] PROVE EventOk(n, news[n][i])'
      <4>1. PICK e : e = news'[n][i] OBVIOUS
      <4>2. EventOk(n, e) BY <2>1, <2>3, <3>1, <3>2, <4>1 DEF NewsOk
      <4>3. EventOk(n, e)' BY <1>7, <4>2
      <4> QED BY <4>1, <4>3
    <3>4. \A i, j \in DOMAIN news'[n] : news'[n][i].type = "MemberUp" /\ news'[n][j].type = "MemberUp" => i = j
          BY <2>1, <2>3, <3>1, <3>2 DEF NewsOk
    <3> QED BY <2>3, <3>3, <3>4 DEF NewsOk
  <2> QED BY <2>2, <2>3
<1> QED BY <1>2, <1>3, <1>4, <1>5, <1>8 DEF LeaseInv

\* Forget
LEMMA ForgetLease ==
    ASSUME Base, LeaseInv, NEW n \in Nodes, NEW m \in Nodes, Forget(n, m), UNCHANGED scenario
    PROVE  LeaseInv'
<1>1. /\ n \in alive /\ m \notin alive /\ Silent(m) /\ view' = [view EXCEPT ![n] = @ \ {m}]
      /\ news' = [news EXCEPT ![n] = Append(@, NodeRemoved(m))]
      /\ UNCHANGED <<alive, state, managers, messages, starts, results, actors>>
      BY DEF Forget, lease, running
<1>2. NodeRemoved(m) \in Events /\ NodeRemoved(m).type = "NodeRemoved" /\ NodeRemoved(m).node = m BY EventIs
<1>3. NewsGrow(n, {NodeRemoved(m)}) BY <1>1, <1>2, GrowsByOne DEF Base
<1>4. view'[n] = view[n] \ {m} /\ \A k \in Nodes : k # n => view'[k] = view[k] BY <1>1 DEF Base, Types
<1>5. alive \subseteq view[n] BY <1>1 DEF LeaseInv, Know
<1> QED BY SMTT(30), <1>1, <1>2, <1>3, <1>4, <1>5, HeartbeatLease

\* Suspect and Trust
LEMMA ElectLease ==
    ASSUME Ordered, Base, LeaseInv, NEW n \in alive, NEW X \in SUBSET Nodes, n \notin X,
           Elect(n, view[n] \ X, <<>>),
           UNCHANGED <<alive, scenario, view, state, managers, messages, starts, results, actors>>
    PROVE  LeaseInv'
<1> PICK V \in SUBSET Nodes : V = view[n] \ X BY DEF Base, Types
<1>0. n \in Nodes BY DEF Base, Types
<1>1. n \in V BY <1>0 DEF Base, Presence
<1>2. <<>> \in Seq(Events) /\ \A j \in DOMAIN <<>> : <<>>[j] \in {} BY SMT
<1> PICK c : c = LeaderChanged(Min(V)) OBVIOUS
<1>3. NewsGrow(n, {} \cup {c}) BY <1>0, <1>1, <1>2, ElectGrows DEF Base
<1>4. NewsGrow(n, {c}) /\ c.type = "LeaderChanged" BY SMT, <1>3, EventIs
<1>5. alive \subseteq view[n] BY DEF LeaseInv, Know
<1> QED BY <1>4, <1>5, HeartbeatLease

\* Suspect
LEMMA SuspectLease ==
    ASSUME Ordered, Base, LeaseInv, NEW n \in Nodes, NEW m \in Nodes, Suspect(n, m), UNCHANGED scenario
    PROVE  LeaseInv'
<1> PICK X \in SUBSET Nodes : X = suspects[n] \cup {m} BY DEF Base, Types
<1>1. n \in alive /\ m # n /\ suspects' = [suspects EXCEPT ![n] = X] BY DEF Suspect
<1>2. suspects'[n] = X BY <1>1 DEF Base, Types
<1>3. Elect(n, view[n] \ X, <<>>) BY <1>2 DEF Suspect
<1>4. n \notin X BY <1>1 DEF Base, Presence
<1>5. UNCHANGED <<alive, view, state, managers, messages, starts, results, actors>>
      BY DEF Suspect, lease, running
<1> QED BY <1>1, <1>3, <1>4, <1>5, ElectLease

\* Trust
LEMMA TrustLease ==
    ASSUME Ordered, Base, LeaseInv, NEW n \in Nodes, NEW m \in Nodes, Trust(n, m), UNCHANGED scenario
    PROVE  LeaseInv'
<1> PICK X \in SUBSET Nodes : X = suspects[n] \ {m} BY DEF Base, Types
<1>1. n \in alive /\ suspects' = [suspects EXCEPT ![n] = X] BY DEF Trust
<1>2. suspects'[n] = X BY <1>1 DEF Base, Types
<1>3. Elect(n, view[n] \ X, <<>>) BY <1>2 DEF Trust
<1>4. n \notin X BY <1>1 DEF Base, Presence
<1>5. UNCHANGED <<alive, view, state, managers, messages, starts, results, actors>>
      BY DEF Trust, lease, running
<1> QED BY <1>1, <1>3, <1>4, <1>5, ElectLease

\* Crash: what remains is as it was.
LEMMA CrashLease ==
    ASSUME Base, LeaseInv, NEW n \in Nodes, Crash(n), UNCHANGED scenario
    PROVE  LeaseInv'
<1> PICK D : D = {m \in DOMAIN messages : m.to # n} OBVIOUS
<1>1. /\ n \in alive /\ alive' = alive \ {n} /\ actors' = {a \in actors : a.node # n}
      /\ messages' = [m \in D |-> messages[m]]
      /\ UNCHANGED <<view, state, managers, starts>>
      BY DEF Crash, BagOf, BagToSet
<1>2. /\ \A k \in Nodes : k # n => news'[k] = news[k] /\ results'[k] = results[k]
      BY DEF Crash, Base, Types
<1>3. /\ DOMAIN messages' \subseteq DOMAIN messages
      /\ \A x \in DOMAIN messages' : messages'[x] = messages[x]
      BY <1>1
<1>4. \A k, m : /\ Asked(k, m)' => Asked(k, m)
                /\ Pending(k, m)' => Pending(k, m)
                /\ Acked(k, m)' => Acked(k, m)
                /\ Counted(k, m)' => Counted(k, m)
      BY <1>1, <1>3 DEF Asked, Pending, Acked, Counted
<1>5. \A k, m : Granted(k, m)' => Granted(k, m) BY <1>1, <1>4 DEF Granted
<1>6. Single' BY <1>3 DEF LeaseInv, Single
<1>7. Exclusive' BY <1>1, <1>5 DEF LeaseInv, Exclusive
<1>8. ASSUME NEW a \in actors', ~a.stop PROVE Runs(a)'
  <2>1. a \in actors /\ a.node # n /\ a.node \in Nodes BY <1>1 DEF Base, Types
  <2>2. Runs(a) BY <1>8, <2>1 DEF LeaseInv
  <2> QED BY <1>1, <1>2, <2>1, <2>2 DEF Runs
<1>9. \A x : Silent(x) => Silent(x)' BY <1>3 DEF Silent, BagToSet
<1>10. \A k, e : EventOk(k, e) => EventOk(k, e)' BY <1>1, <1>9 DEF EventOk
<1>11. ASSUME NEW k \in alive' PROVE NewsOk(k)' /\ Know(k)' /\ Once(k)' /\ StartsOnce(k)'
  <2>0. k \in alive /\ k # n /\ k \in Nodes BY <1>1 DEF Base, Types
  <2>1. NewsOk(k) /\ Know(k) /\ Once(k) /\ StartsOnce(k) BY <2>0 DEF LeaseInv
  <2>2. NewsOk(k)'
    <3>1. news'[k] = news[k] BY <1>2, <2>0
    <3> QED BY <1>10, <2>1, <3>1 DEF NewsOk
  <2>3. Know(k)' BY <1>1, <2>1 DEF Know
  <2>4. Once(k)' BY <1>1, <1>4, <2>1 DEF Once, OnceFor
  <2>5. StartsOnce(k)' BY <1>1, <1>2, <2>0, <2>1 DEF StartsOnce
  <2> QED BY <2>2, <2>3, <2>4, <2>5
<1> QED BY <1>6, <1>7, <1>8, <1>11 DEF LeaseInv

\* With everybody known from the beginning no node joins, and none is found.
LEMMA NobodyNew ==
    ASSUME Base, LeaseInv, NobodyJoined', UNCHANGED scenario, NEW n \in Nodes
    PROVE  ~Join(n) /\ \A m \in Nodes : ~Learn(n, m)
<1>1. ASSUME Join(n) PROVE FALSE
  <2>1. view[n] = {} /\ view' = [view EXCEPT ![n] = alive'] /\ n \in alive' BY <1>1 DEF Join
  <2>2. view'[n] # {} BY <2>1 DEF Base, Types
  <2>3. n \notin scenario.members BY <2>1 DEF Base, Presence
  <2> QED BY <2>2, <2>3 DEF NobodyJoined
<1>2. ASSUME NEW m \in Nodes, Learn(n, m) PROVE FALSE
  <2>1. n \in alive /\ m \in alive /\ m \notin view[n] BY <1>2 DEF Learn
  <2> QED BY <2>1 DEF LeaseInv, Know
<1> QED BY <1>1, <1>2

-----------------------------------------------------------------------------
(* The lease: steps of a manager. *)

\* Manager n takes mail that was sent to it, and sends mail to others.
Exchanges(n, R, S) ==
    /\ Posts(R, S)
    /\ \A x \in R : x \in DOMAIN messages /\ x.to = n
    /\ \A x \in S : x.from = n /\ x.to # n

\* A step of n's manager, for the lease.
Only(n) ==
    /\ UNCHANGED <<alive, scenario, view>>
    /\ \A k \in Nodes \ {n} : /\ state'[k] = state[k] /\ managers'[k] = managers[k] /\ starts'[k] = starts[k]
                              /\ results'[k] = results[k] /\ news'[k] = news[k]

\* What others need of each other is where it was.
LEMMA OthersPlaces ==
    ASSUME Base, NEW n \in alive, Only(n), NEW R, NEW S, Exchanges(n, R, S)
    PROVE  \A k, m \in Nodes \ {n} : /\ Asked(k, m)' <=> Asked(k, m)
                                     /\ Pending(k, m)' <=> Pending(k, m)
                                     /\ Acked(k, m)' <=> Acked(k, m)
                                     /\ Counted(k, m)' <=> Counted(k, m)
                                     /\ Granted(k, m)' <=> Granted(k, m)
<1> SUFFICES ASSUME NEW k \in Nodes \ {n}, NEW m \in Nodes \ {n}
             PROVE  /\ Asked(k, m)' <=> Asked(k, m)
                    /\ Pending(k, m)' <=> Pending(k, m)
                    /\ Acked(k, m)' <=> Acked(k, m)
                    /\ Counted(k, m)' <=> Counted(k, m)
                    /\ Granted(k, m)' <=> Granted(k, m)
    OBVIOUS
<1>1. \A x : x.from # n /\ x.to # n => (x \in DOMAIN messages' <=> x \in DOMAIN messages)
      BY DEF Exchanges, Posts
<1>2. (Asked(k, m)' <=> Asked(k, m)) /\ (Acked(k, m)' <=> Acked(k, m)) BY SMT, <1>1, LetterIs DEF Asked, Acked
<1>3. (Pending(k, m)' <=> Pending(k, m)) /\ (Counted(k, m)' <=> Counted(k, m)) BY DEF Pending, Counted, Only
<1>4. state'[k] = state[k] BY DEF Only
<1> QED BY <1>2, <1>3, <1>4 DEF Granted

\* What n needs of k, and k of n, when n takes R and sends S.
Moves(n, k, R, S) ==
    /\ Asked(n, k)' <=> Asked(n, k) \/ Letter("RequestLease", n, k) \in S
    /\ Pending(n, k)' <=> Pending(n, k)
    /\ Acked(n, k)' => Acked(n, k)
    /\ Acked(n, k) /\ Letter("LeaseAck", k, n) \notin R => Acked(n, k)'
    /\ Asked(k, n)' => Asked(k, n)
    /\ Asked(k, n) /\ Letter("RequestLease", k, n) \notin R => Asked(k, n)'
    /\ Acked(k, n)' <=> Acked(k, n) \/ Letter("LeaseAck", n, k) \in S
    /\ Counted(k, n)' <=> Counted(k, n)

\* It moves with the mail of n only.
LEMMA OwnPlaces ==
    ASSUME Base, NEW n \in alive, Only(n), NEW R, NEW S, Exchanges(n, R, S), NEW k \in Nodes \ {n}
    PROVE  Moves(n, k, R, S)
<1>1. \A x : x.from # n => (x \in DOMAIN messages' => x \in DOMAIN messages) BY DEF Exchanges, Posts
<1>2. \A x : x \in DOMAIN messages /\ x \notin R => x \in DOMAIN messages' BY DEF Exchanges, Posts
<1>3. \A x : x.to # n => (x \in DOMAIN messages' <=> x \in DOMAIN messages \/ x \in S) BY DEF Exchanges, Posts
<1>4. /\ Acked(n, k)' => Acked(n, k)
      /\ Acked(n, k) /\ Letter("LeaseAck", k, n) \notin R => Acked(n, k)'
      BY SMT, <1>1, <1>2, LetterIs DEF Acked
<1>5. /\ Asked(k, n)' => Asked(k, n)
      /\ Asked(k, n) /\ Letter("RequestLease", k, n) \notin R => Asked(k, n)'
      BY SMT, <1>1, <1>2, LetterIs DEF Asked
<1>6. Asked(n, k)' <=> Asked(n, k) \/ Letter("RequestLease", n, k) \in S BY SMT, <1>3, LetterIs DEF Asked
<1>7. Acked(k, n)' <=> Acked(k, n) \/ Letter("LeaseAck", n, k) \in S BY SMT, <1>3, LetterIs DEF Acked
<1>8. (Pending(n, k)' <=> Pending(n, k)) /\ (Counted(k, n)' <=> Counted(k, n)) BY DEF Pending, Counted, Only
<1> QED BY <1>4, <1>5, <1>6, <1>7, <1>8 DEF Moves

\* A node needs nothing of itself.
LEMMA NothingOfItself ==
    ASSUME Base, LeaseInv, NEW n \in alive, Only(n), NEW R, NEW S, Exchanges(n, R, S)
    PROVE  /\ ~Asked(n, n) /\ ~Pending(n, n) /\ ~Acked(n, n) /\ ~Counted(n, n)
           /\ ~Asked(n, n)' /\ ~Acked(n, n)'
<1>0. n \in Nodes BY DEF Base, Types
<1>1. n \notin managers[n] /\ OnceFor(n, n) BY <1>0 DEF LeaseInv, Know, Once
<1>2. ~Asked(n, n) /\ ~Pending(n, n) /\ ~Acked(n, n) /\ ~Counted(n, n) BY <1>1 DEF OnceFor
<1>3. \A x : x.to = n => (x \in DOMAIN messages' => x \in DOMAIN messages) BY DEF Exchanges, Posts
<1>4. ~Asked(n, n)' /\ ~Acked(n, n)' BY SMT, <1>2, <1>3, LetterIs DEF Asked, Acked
<1> QED BY <1>2, <1>4

\* What remains to be shown of a step of n: its own part, and its pairs.
Own(n) ==
    /\ NewsOk(n) /\ Know(n) /\ Once(n) /\ StartsOnce(n)
    /\ \A k \in alive \ {n} : OnceFor(k, n) /\ ~(Granted(n, k) /\ Granted(k, n))

\* The other managers keep theirs.
LEMMA ManagerLease ==
    ASSUME Base, LeaseInv, NEW n \in alive, Only(n), NEW R, NEW S, Exchanges(n, R, S),
           Single', Own(n)', \A a \in actors' : ~a.stop => Runs(a)'
    PROVE  LeaseInv'
<1>0. alive \subseteq Nodes /\ alive' = alive BY DEF Base, Types, Only
<1>1. \A k, m \in Nodes \ {n} : /\ Asked(k, m)' <=> Asked(k, m)
                                /\ Pending(k, m)' <=> Pending(k, m)
                                /\ Acked(k, m)' <=> Acked(k, m)
                                /\ Counted(k, m)' <=> Counted(k, m)
                                /\ Granted(k, m)' <=> Granted(k, m)
      BY OthersPlaces
<1>2. Exclusive'
  <2>1. \A k, m \in alive \ {n} : k # m /\ Granted(k, m)' => ~Granted(m, k)' BY <1>0, <1>1 DEF LeaseInv, Exclusive
  <2>2. \A k \in alive \ {n} : ~(Granted(n, k)' /\ Granted(k, n)') BY <1>0 DEF Own
  <2> QED BY <1>0, <2>1, <2>2 DEF Exclusive
<1>3. \A y : y \notin alive /\ Silent(y) => Silent(y)' BY DEF Silent, BagToSet, Exchanges, Posts
<1>4. ASSUME NEW k \in alive, k # n PROVE NewsOk(k)' /\ Know(k)' /\ Once(k)' /\ StartsOnce(k)'
  <2>0. k \in Nodes \ {n} BY <1>0, <1>4
  <2>1. NewsOk(k) /\ Know(k) /\ Once(k) /\ StartsOnce(k) BY DEF LeaseInv
  <2>2. /\ state'[k] = state[k] /\ managers'[k] = managers[k] /\ starts'[k] = starts[k]
        /\ results'[k] = results[k] /\ news'[k] = news[k] /\ view' = view /\ scenario' = scenario
        BY <2>0 DEF Only
  <2>3. NewsOk(k)'
    <3>1. \A e : EventOk(k, e) => EventOk(k, e)' BY <1>0, <1>3, <2>2 DEF EventOk
    <3> QED BY <2>1, <2>2, <3>1 DEF NewsOk
  <2>4. Know(k)' BY <1>0, <2>1, <2>2 DEF Know
  <2>5. Once(k)'
    <3>1. ASSUME NEW m \in Nodes, m # n PROVE OnceFor(k, m)'
          BY <1>1, <2>0, <2>1, <2>2, <3>1 DEF Once, OnceFor
    <3>2. OnceFor(k, n)' BY <1>0, <1>4 DEF Own
    <3> QED BY <3>1, <3>2 DEF Once
  <2>6. StartsOnce(k)' BY <2>1, <2>2 DEF StartsOnce
  <2> QED BY <2>3, <2>4, <2>5, <2>6
<1> QED BY <1>0, <1>2, <1>4 DEF LeaseInv, Own

\* Lease mail stays single if none is sent that is on the way.
LEMMA SinglePosts ==
    ASSUME LeaseInv, NEW R, NEW S, Posts(R, S),
           \A x \in S : x.type \in {"RequestLease", "LeaseAck"} => x \notin DOMAIN messages
    PROVE  Single'
<1> SUFFICES ASSUME NEW x \in DOMAIN messages', x.type \in {"RequestLease", "LeaseAck"} PROVE messages'[x] = 1
    BY DEF Single
<1>1. CASE x \in S BY <1>1 DEF Posts
<1>2. CASE x \notin S
  <2>1. x \in DOMAIN messages BY <1>2 DEF Posts
  <2>2. messages[x] = 1 BY <2>1 DEF LeaseInv, Single
  <2>3. x \notin R BY <1>2, <2>2 DEF Posts
  <2> QED BY <1>2, <2>1, <2>2, <2>3 DEF Posts
<1> QED BY <1>1, <1>2

\* Nothing was sent.
LEMMA SingleTaken == ASSUME LeaseInv, NEW R, Posts(R, {}) PROVE Single' BY SMT, SinglePosts

\* Of a node that has failed nothing is asked.
LEMMA NoneAsked == ASSUME Base, NEW n, NEW y, y \notin alive PROVE ~Asked(n, y)
BY SMT, LetterIs DEF Asked, Base, Presence

\* A request is in the mail once.
LEMMA AskedOnce ==
    ASSUME LeaseInv, NEW x, NEW n, Asked(x, n) PROVE messages[Letter("RequestLease", x, n)] = 1
BY LetterIs DEF LeaseInv, Single, Asked

\* An acknowledgement that k needs of n moves on, or stays.
LEMMA MovesOn ==
    ASSUME NEW k, NEW n, OnceFor(k, n), state'[k] = state[k], managers'[k] = managers[k],
           Asked(k, n)' => Asked(k, n),
           Pending(k, n)' => Pending(k, n) \/ (Asked(k, n) /\ ~Asked(k, n)'),
           Acked(k, n)' => Acked(k, n) \/ ((Asked(k, n) \/ Pending(k, n)) /\ ~Asked(k, n)' /\ ~Pending(k, n)'),
           Counted(k, n)' <=> Counted(k, n)
    PROVE  OnceFor(k, n)'
BY DEF OnceFor

\* Nothing new comes from a node that has failed.
LEMMA StaysSilent ==
    ASSUME NEW n \in alive, NEW R, NEW S, Exchanges(n, R, S)
    PROVE  \A y : y \notin alive /\ Silent(y) => Silent(y)'
BY DEF Silent, BagToSet, Exchanges, Posts

\* The news after the first event is handled ...
LEMMA NewsTail ==
    ASSUME Base, NEW n \in alive, Only(n), NEW R, NEW S, Exchanges(n, R, S), NewsOk(n), NewsTaken(n), 1 \in DOMAIN news[n],
           state'[n].kind = state[n].kind \/ news[n][1].type = "MemberUp" \/ state[n].kind # "Joining"
    PROVE  NewsOk(n)'
<1>0. n \in Nodes /\ alive' = alive /\ scenario' = scenario BY DEF Base, Types, Only
<1>1. \A y : y \notin alive /\ Silent(y) => Silent(y)' BY StaysSilent
<1>2. \A i \in DOMAIN news'[n] : i + 1 \in DOMAIN news[n] /\ news'[n][i] = news[n][i + 1] BY DEF NewsTaken
<1>3. DOMAIN news'[n] \subseteq Nat \ {0}
  <2>1. news'[n] \in Seq(Events) BY <1>0 DEF NewsTaken
  <2> QED BY SMT, <2>1
<1>4. ASSUME NEW i \in DOMAIN news'[n] PROVE EventOk(n, news[n][i])'
  <2>1. PICK e : e = news'[n][i] OBVIOUS
  <2>2. e = news[n][i + 1] /\ i + 1 \in DOMAIN news[n] /\ i + 1 # 1 BY SMT, <1>2, <1>3, <2>1
  <2>3. EventOk(n, e) BY <2>2 DEF NewsOk
  <2>4. e.type = "MemberUp" => news[n][1].type # "MemberUp" BY <2>2 DEF NewsOk
  <2>5. EventOk(n, e)' BY <1>0, <1>1, <2>3, <2>4 DEF EventOk
  <2> QED BY <2>1, <2>5
<1>5. ASSUME NEW i \in DOMAIN news'[n], NEW j \in DOMAIN news'[n],
             news'[n][i].type = "MemberUp", news'[n][j].type = "MemberUp"
      PROVE  i = j
  <2>1. i + 1 = j + 1 BY SMT, <1>2, <1>5 DEF NewsOk
  <2> QED BY SMTT(30), <1>3, <2>1
<1> QED BY <1>4, <1>5 DEF NewsOk

\* ... and when none is.
LEMMA NewsSame ==
    ASSUME NEW n \in alive, Only(n), NEW R, NEW S, Exchanges(n, R, S), NewsOk(n), news'[n] = news[n],
           state'[n].kind = state[n].kind \/ state[n].kind # "Joining"
    PROVE  NewsOk(n)'
<1>0. alive' = alive /\ scenario' = scenario BY DEF Only
<1>1. \A y : y \notin alive /\ Silent(y) => Silent(y)' BY StaysSilent
<1>2. \A i \in DOMAIN news[n] : EventOk(n, news[n][i]) BY DEF NewsOk
<1>3. \A e : EventOk(n, e) => EventOk(n, e)' BY <1>0, <1>1 DEF EventOk
<1> QED BY <1>2, <1>3 DEF NewsOk

\* A manager that is not starting needs nothing, and starts nothing.
LEMMA AtRest ==
    ASSUME Base, LeaseInv, NEW n \in alive, state[n].kind # "Starting"
    PROVE  /\ \A k \in Nodes : ~Asked(n, k) /\ ~Pending(n, k) /\ ~Acked(n, k) /\ ~Counted(n, k)
           /\ starts[n] = 0 /\ results[n] = <<>>
<1>0. n \in Nodes /\ starts[n] \in Nat BY DEF Base, Types
<1>1. Once(n) /\ StartsOnce(n) BY DEF LeaseInv
<1>2. starts[n] = 0 /\ results[n] = <<>> BY SMT, <1>0, <1>1 DEF StartsOnce
<1>3. \A k \in Nodes : ~Asked(n, k) /\ ~Pending(n, k) /\ ~Acked(n, k) /\ ~Counted(n, k)
      BY <1>1 DEF Once, OnceFor
<1> QED BY <1>2, <1>3

\* After its step it needs what it has asked for, and has no grant yet.
LEMMA FromRest ==
    ASSUME Base, LeaseInv, NEW n \in alive, Only(n), NEW R, NEW S, Exchanges(n, R, S),
           state[n].kind # "Starting", state'[n].kind # "Running",
           state'[n].kind = "Starting" => state'[n].nodes = {}, ~Pending(n, n)',
           \A x \in S : x.type = "RequestLease" => state'[n].kind = "Starting" /\ x.to \in managers'[n]
    PROVE  Once(n)' /\ \A k \in Nodes : ~Granted(n, k)'
<1>0. n \in Nodes BY DEF Base, Types
<1>1. \A k \in Nodes : ~Asked(n, k) /\ ~Pending(n, k) /\ ~Acked(n, k) /\ ~Counted(n, k) BY AtRest
<1>2. ASSUME NEW k \in Nodes PROVE ~Pending(n, k)' /\ ~Acked(n, k)' /\ (Asked(n, k)' => Letter("RequestLease", n, k) \in S)
  <2>1. CASE k = n BY <2>1, NothingOfItself
  <2>2. CASE k # n
    <3>1. k \in Nodes \ {n} BY <2>2
    <3>3. Moves(n, k, R, S) BY <3>1, OwnPlaces
    <3>2. /\ Asked(n, k)' <=> Asked(n, k) \/ Letter("RequestLease", n, k) \in S
          /\ Pending(n, k)' <=> Pending(n, k)
          /\ Acked(n, k)' => Acked(n, k)
          BY <3>3 DEF Moves
    <3> QED BY <1>1, <3>2
  <2> QED BY <2>1, <2>2
<1>3. \A k \in Nodes : ~Counted(n, k)' BY DEF Counted
<1>4. \A k \in Nodes : Asked(n, k)' => state'[n].kind = "Starting" /\ k \in managers'[n] BY SMT, <1>2, LetterIs
<1>5. Once(n)' BY <1>2, <1>3, <1>4 DEF Once, OnceFor
<1>6. \A k \in Nodes : ~Granted(n, k)' BY <1>2, <1>3 DEF Granted
<1> QED BY <1>5, <1>6

\* Its actors have been told to stop.
LEMMA RestRuns ==
    ASSUME Base, LeaseInv, NEW n \in alive, Only(n), state[n].kind \notin {"Starting", "Running"}, UNCHANGED actors
    PROVE  \A a \in actors' : ~a.stop => Runs(a)'
<1> SUFFICES ASSUME NEW a \in actors, ~a.stop PROVE Runs(a)' OBVIOUS
<1>1. Runs(a) BY DEF LeaseInv
<1>2. results[n] = <<>> BY AtRest
<1>3. a.node # n
  <2>1. <<>> # <<a.id>> OBVIOUS
  <2> QED BY <1>1, <1>2, <2>1 DEF Runs
<1>4. a.node \in Nodes BY DEF Base, Types
<1>5. state'[a.node] = state[a.node] /\ results'[a.node] = results[a.node] BY <1>3, <1>4 DEF Only
<1> QED BY <1>1, <1>5 DEF Runs

\* It starts the actor at once if it knows no other manager.
LEMMA RestStarts ==
    ASSUME Counting, Base, LeaseInv, NEW n \in alive, state[n].kind # "Starting",
           managers' \in [Nodes -> SUBSET Nodes], NEW s, Becomes(n, s), s.kind = "Starting" => s.nodes = {},
           Begins(n, IF Complete(n, s) THEN starts[n] + 1 ELSE starts[n]), UNCHANGED results
    PROVE  StartsOnce(n)'
<1>0. n \in Nodes BY DEF Base, Types
<1>1. starts[n] = 0 /\ results[n] = <<>> BY AtRest
<1>2. state'[n] = s /\ results'[n] = <<>> BY <1>1 DEF Becomes
<1>3. CASE Complete(n, s)
  <2>1. starts'[n] = 1 BY SMT, <1>1, <1>3 DEF Begins
  <2>2. s.kind = "Starting" /\ s.nodes = {} BY <1>3 DEF Complete
  <2>3. Cardinality({}) = Cardinality(managers'[n]) /\ managers'[n] \in SUBSET Nodes BY <1>0, <1>3, <2>2 DEF Complete
  <2>4. managers'[n] = {} BY <2>3 DEF Counting
  <2> QED BY <1>2, <2>1, <2>2, <2>4 DEF StartsOnce
<1>4. CASE ~Complete(n, s)
  <2>1. starts'[n] = 0 BY <1>1, <1>4 DEF Begins
  <2> QED BY SMT, <1>2, <2>1 DEF StartsOnce
<1> QED BY <1>3, <1>4

\* OnMemberUp: n has joined, acknowledges what is pending, and may ask for the lease.
LEMMA MemberUpLease ==
    ASSUME Counting, Base, LeaseInv, NobodyJoined, NEW n \in alive, NEW e \in Events, 1 \in DOMAIN news[n],
           e = news[n][1], NewsTaken(n), e.type = "MemberUp", OnMemberUp(n, e),
           UNCHANGED <<alive, scenario, view, results, actors>>
    PROVE  LeaseInv'
<1>0. n \in Nodes /\ Types /\ alive \subseteq Nodes BY DEF Base, Types
<1> PICK s : s = JoinedAs(n, e) OBVIOUS
<1> PICK A : A = AckOf(n) OBVIOUS
<1> PICK Q : Q = AskOf(n, e) OBVIOUS
<1>1. /\ managers' \in [Nodes -> SUBSET Nodes] /\ managers'[n] = managers[n] \cup (e.nodes \ {n})
      /\ \A k \in Nodes \ {n} : managers'[k] = managers[k]
      /\ Becomes(n, s) /\ Begins(n, IF Complete(n, s) THEN starts[n] + 1 ELSE starts[n])
      /\ Posts({}, A \cup Q)
      BY <1>0, MemberUpIs
<1>2. NewsOk(n) /\ Know(n) BY DEF LeaseInv
<1>3. state[n].kind = "Joining" /\ e.nodes = scenario.members
  <2>1. EventOk(n, e) BY <1>2 DEF NewsOk
  <2> QED BY <2>1 DEF EventOk
<1>4. alive \subseteq scenario.members BY <1>0 DEF NobodyJoined, Base, Presence
<1>5. Only(n)
  <2>1. \A k \in Nodes \ {n} : news'[k] = news[k] BY DEF NewsTaken
  <2>2. \A k \in Nodes \ {n} : state'[k] = state[k] /\ starts'[k] = starts[k] BY <1>1 DEF Becomes, Begins
  <2> QED BY <1>1, <2>1, <2>2 DEF Only
<1>6. n \notin managers'[n] BY <1>1, <1>2 DEF Know
<1>7. \A x \in A : /\ x.type = "LeaseAck" /\ x.from = n /\ x.to \in managers'[n] /\ x.to \in alive
                   /\ x.to \in state[n].nodes
  <2> PICK N : N = state[n].nodes OBVIOUS
  <2>1. ASSUME NEW x \in Sent(n, "LeaseAck", N)
        PROVE  x.type = "LeaseAck" /\ x.from = n /\ x.to \in managers'[n] /\ x.to \in alive /\ x.to \in N
        BY SMT, LetterIs DEF Sent
  <2>2. A = {} \/ A = Sent(n, "LeaseAck", N) BY DEF AckOf
  <2> QED BY <2>1, <2>2
<1>8. \A x \in Q : /\ x.type = "RequestLease" /\ x.from = n /\ x.to \in managers'[n] /\ x.to \in alive
                   /\ e.leader = n
      BY SMT, <1>0, SentLetters DEF AskOf
<1>9. A \subseteq Letters /\ Q \subseteq Letters
  <2>1. A \subseteq Letters BY SMTT(30), <1>0, SentLetters DEF AckOf
  <2>2. Q \subseteq Letters BY SMT, <1>0, SentLetters DEF AskOf
  <2> QED BY <2>1, <2>2
<1>10. Exchanges(n, {}, A \cup Q) BY <1>1, <1>6, <1>7, <1>8 DEF Exchanges
<1>11. state'[n] = s BY <1>1 DEF Becomes
<1>12. (s.kind = "Starting" /\ s.nodes = {} /\ e.leader = n) \/ (s.kind = "Idle" /\ e.leader # n) BY StateIs DEF JoinedAs
<1>13. \A k \in Nodes : ~Asked(n, k) /\ ~Pending(n, k) /\ ~Acked(n, k) /\ ~Counted(n, k) BY <1>3, AtRest
<1>14. ASSUME NEW k \in alive, k \in state[n].nodes, k # n PROVE Pending(k, n) /\ OnceFor(k, n) /\ ~Acked(k, n)
  <2>1. Pending(k, n) BY <1>3, <1>14 DEF Pending
  <2>2. OnceFor(k, n) BY <1>0 DEF LeaseInv, Once
  <2> QED BY <2>1, <2>2 DEF OnceFor
<1>15. Single'
  <2>1. ASSUME NEW x \in A PROVE x \notin DOMAIN messages
    <3>1. x = Letter("LeaseAck", n, x.to) BY <1>7, <1>9, LetterIs
    <3>2. ~Acked(x.to, n) BY <1>6, <1>7, <1>14
    <3> QED BY <3>1, <3>2 DEF Acked
  <2>2. ASSUME NEW x \in Q PROVE x \notin DOMAIN messages
    <3>1. x = Letter("RequestLease", n, x.to) BY <1>8, <1>9, LetterIs
    <3>2. ~Asked(n, x.to) BY <1>0, <1>8, <1>13
    <3> QED BY <3>1, <3>2 DEF Asked
  <2> QED BY SMTT(30), <1>1, <2>1, <2>2, SinglePosts
<1>16. Once(n)' /\ \A k \in Nodes : ~Granted(n, k)'
  <2>1. ~Pending(n, n)' BY <1>11, <1>12 DEF Pending
  <2>2. \A x \in A \cup Q : x.type = "RequestLease" => state'[n].kind = "Starting" /\ x.to \in managers'[n]
        BY <1>7, <1>8, <1>11, <1>12
  <2> QED BY <1>3, <1>5, <1>10, <1>11, <1>12, <2>1, <2>2, FromRest
<1>17. ASSUME NEW k \in alive, k # n PROVE OnceFor(k, n)'
  <2>0. k \in Nodes \ {n} BY <1>0, <1>17
  <2>9. Moves(n, k, {}, A \cup Q) BY <1>5, <1>10, <2>0, OwnPlaces
  <2>1. /\ Asked(k, n)' => Asked(k, n)
        /\ Acked(k, n)' <=> Acked(k, n) \/ Letter("LeaseAck", n, k) \in A \cup Q
        /\ Counted(k, n)' <=> Counted(k, n)
        BY <2>9 DEF Moves
  <2>2. ~Pending(k, n)' BY <1>11, <1>12 DEF Pending
  <2>3. Letter("LeaseAck", n, k) \in A \cup Q => Pending(k, n) BY SMTT(30), <1>7, <1>8, <1>14, <1>17, LetterIs
  <2>4. OnceFor(k, n) BY <1>0 DEF LeaseInv, Once
  <2>5. state'[k] = state[k] /\ managers'[k] = managers[k] BY <1>5, <2>0 DEF Only
  <2>6. Pending(k, n) => ~Asked(k, n)' BY <2>1, <2>4 DEF OnceFor
  <2> QED BY <2>1, <2>2, <2>3, <2>4, <2>5, <2>6, MovesOn
<1>18. StartsOnce(n)' BY <1>1, <1>3, <1>12, RestStarts
<1>19. NewsOk(n)' BY <1>2, <1>5, <1>10, NewsTail
<1>20. Know(n)' BY <1>1, <1>2, <1>3, <1>4, <1>6 DEF Know
<1>21. Own(n)' BY <1>0, <1>16, <1>17, <1>18, <1>19, <1>20 DEF Own
<1>22. \A a \in actors' : ~a.stop => Runs(a)' BY <1>3, <1>5, RestRuns
<1> QED BY <1>5, <1>10, <1>15, <1>21, <1>22, ManagerLease

\* OnLeaderChanged: n asks for the lease, or does nothing.
LEMMA LeaderChangedLease ==
    ASSUME Counting, Base, LeaseInv, NEW n \in alive, NEW e, 1 \in DOMAIN news[n],
           NewsTaken(n), OnLeaderChanged(n, e),
           UNCHANGED <<alive, scenario, view, results, actors>>
    PROVE  LeaseInv'
<1>0. n \in Nodes /\ Types /\ alive \subseteq Nodes /\ managers \in [Nodes -> SUBSET Nodes] BY DEF Base, Types
<1> PICK Q : Q = Sent(n, "RequestLease", managers[n]) OBVIOUS
<1> PICK s : s = Starting({}) OBVIOUS
<1>1. /\ UNCHANGED managers
      /\ \/ UNCHANGED <<state, starts, messages>>
         \/ /\ state[n].kind \in {"Idle", "Stopping"} /\ Becomes(n, s)
            /\ Begins(n, IF Complete(n, s) THEN starts[n] + 1 ELSE starts[n])
            /\ Posts({}, Q)
      BY <1>0, LeaderChangedIs
<1>2. NewsOk(n) /\ Know(n) BY DEF LeaseInv
<1>3. \A k \in Nodes \ {n} : news'[k] = news[k] BY DEF NewsTaken
<1>4. CASE UNCHANGED <<state, starts, messages>>
  <2>1. Only(n) BY <1>1, <1>3, <1>4 DEF Only
  <2>2. Exchanges(n, {}, {}) BY <1>0, <1>4, NoPost DEF Exchanges
  <2>3. NewsOk(n)' BY <1>2, <1>4, <2>1, <2>2, NewsTail
  <2>4. \A k, m : /\ Asked(k, m)' <=> Asked(k, m)
                  /\ Pending(k, m)' <=> Pending(k, m)
                  /\ Acked(k, m)' <=> Acked(k, m)
                  /\ Counted(k, m)' <=> Counted(k, m)
                  /\ Granted(k, m)' <=> Granted(k, m)
        BY <1>4, PlacesKept
  <2>5. \A k \in alive : Once(k)' BY <1>1, <1>4, <2>4 DEF LeaseInv, Once, OnceFor
  <2>6. StartsOnce(n)' /\ Know(n)'
    <3>1. StartsOnce(n) BY DEF LeaseInv
    <3>2. StartsOnce(n)' BY <1>1, <1>4, <3>1 DEF StartsOnce
    <3> QED BY <1>1, <1>2, <1>4, <3>2 DEF Know
  <2>7. \A k \in alive \ {n} : ~(Granted(n, k)' /\ Granted(k, n)') BY <2>4 DEF LeaseInv, Exclusive
  <2>8. Own(n)' BY <1>0, <2>3, <2>5, <2>6, <2>7 DEF Own, Once
  <2>9. Single' BY <1>4 DEF LeaseInv, Single
  <2>10. \A a \in actors' : ~a.stop => Runs(a)' BY <1>4 DEF LeaseInv, Runs
  <2> QED BY <2>1, <2>2, <2>8, <2>9, <2>10, ManagerLease
<1>5. CASE /\ state[n].kind \in {"Idle", "Stopping"} /\ Becomes(n, s)
           /\ Begins(n, IF Complete(n, s) THEN starts[n] + 1 ELSE starts[n])
           /\ Posts({}, Q)
  <2>1. Only(n) BY <1>1, <1>3, <1>5 DEF Only, Becomes, Begins
  <2>2. \A x \in Q : x.type = "RequestLease" /\ x.from = n /\ x.to \in managers[n] /\ x.to \in alive
        BY SMTT(30), <1>0, <1>1, SentLetters
  <2>3. Q \subseteq Letters BY SMT, <1>0, SentLetters
  <2>4. Exchanges(n, {}, Q) BY <1>2, <1>5, <2>2 DEF Exchanges, Know
  <2>5. state'[n] = s /\ s.kind = "Starting" /\ s.nodes = {} BY SMT, <1>5, StateIs DEF Becomes
  <2>6. \A k \in Nodes : ~Asked(n, k) /\ ~Pending(n, k) /\ ~Acked(n, k) /\ ~Counted(n, k) BY <1>5, AtRest
  <2>7. ASSUME NEW x \in Q PROVE x \notin DOMAIN messages
    <3>1. x = Letter("RequestLease", n, x.to) BY <2>2, <2>3, <2>7, LetterIs
    <3>2. ~Asked(n, x.to) BY <1>0, <2>2, <2>6, <2>7
    <3> QED BY <3>1, <3>2 DEF Asked
  <2>8. Single' BY <1>5, <2>7, SinglePosts
  <2>9. Once(n)' /\ \A k \in Nodes : ~Granted(n, k)'
    <3>1. ~Pending(n, n)' BY <2>5 DEF Pending
    <3>2. \A x \in Q : x.type = "RequestLease" => state'[n].kind = "Starting" /\ x.to \in managers'[n]
          BY <1>1, <2>2, <2>5
    <3> QED BY <1>5, <2>1, <2>4, <2>5, <3>1, <3>2, FromRest
  <2>10. ASSUME NEW k \in alive, k # n PROVE OnceFor(k, n)'
    <3>0. k \in Nodes \ {n} BY <1>0, <2>10
    <3>9. Moves(n, k, {}, Q) BY <2>1, <2>4, <3>0, OwnPlaces
    <3>1. /\ Asked(k, n)' => Asked(k, n)
          /\ Acked(k, n)' <=> Acked(k, n) \/ Letter("LeaseAck", n, k) \in Q
          /\ Counted(k, n)' <=> Counted(k, n)
          BY <3>9 DEF Moves
    <3>2. ~Pending(k, n)' BY <2>5 DEF Pending
    <3>3. Letter("LeaseAck", n, k) \notin Q BY SMT, <2>2, LetterIs
    <3>4. OnceFor(k, n) BY <1>0 DEF LeaseInv, Once
    <3>5. state'[k] = state[k] /\ managers'[k] = managers[k] BY <2>1, <3>0 DEF Only
    <3> QED BY <3>1, <3>2, <3>3, <3>4, <3>5, MovesOn
  <2>11. StartsOnce(n)' BY <1>0, <1>1, <1>5, <2>5, RestStarts
  <2>12. NewsOk(n)' BY <1>2, <1>5, <2>1, <2>4, NewsTail
  <2>13. Know(n)' BY <1>1, <1>2, <1>5, <2>5 DEF Know
  <2>14. Own(n)' BY <1>0, <2>9, <2>10, <2>11, <2>12, <2>13 DEF Own
  <2>15. \A a \in actors' : ~a.stop => Runs(a)' BY <1>5, <2>1, RestRuns
  <2> QED BY <2>1, <2>4, <2>8, <2>14, <2>15, ManagerLease
<1> QED BY <1>1, <1>4, <1>5

\* OnNodeRemoved: nothing is awaited of a node that has failed, and nothing was.
LEMMA NodeRemovedLease ==
    ASSUME Counting, Base, LeaseInv, NEW n \in alive, NEW e, 1 \in DOMAIN news[n],
           e = news[n][1], NewsTaken(n), e.type = "NodeRemoved", OnNodeRemoved(n, e),
           UNCHANGED <<alive, scenario, view, results, actors>>,
           starts'[n] > starts[n] => starts[n] = 0 /\ results[n] = <<>>
    PROVE  LeaseInv'
<1>0. n \in Nodes /\ Types /\ alive \subseteq Nodes /\ starts[n] \in Nat /\ messages' = messages
      BY NodeRemovedIs DEF Base, Types
<1> PICK y : y = e.node OBVIOUS
<1> PICK P : P = state[n].nodes \ {y} OBVIOUS
<1>1. /\ managers' \in [Nodes -> SUBSET Nodes] /\ managers'[n] = managers[n] \ {y}
      /\ \A k \in Nodes \ {n} : managers'[k] = managers[k]
      /\ \/ state[n].kind # "Starting" /\ UNCHANGED <<state, starts>>
         \/ /\ state[n].kind = "Starting" /\ Becomes(n, Starting(P))
            /\ Begins(n, IF Complete(n, Starting(P)) THEN starts[n] + 1 ELSE starts[n])
      BY <1>0, NodeRemovedIs
<1>2. NewsOk(n) /\ Know(n) /\ Once(n) /\ StartsOnce(n) BY DEF LeaseInv
<1>3. y \notin alive /\ Silent(y)
  <2>1. EventOk(n, e) BY <1>2 DEF NewsOk
  <2> QED BY <2>1 DEF EventOk
<1>4. /\ state' \in [Nodes -> States] /\ \A k \in Nodes \ {n} : state'[k] = state[k] /\ starts'[k] = starts[k]
      BY <1>0, <1>1 DEF Becomes, Begins, Types
<1>5. Only(n)
  <2>1. \A k \in Nodes \ {n} : news'[k] = news[k] BY DEF NewsTaken
  <2> QED BY <1>1, <1>4, <2>1 DEF Only
<1>6. Exchanges(n, {}, {}) BY <1>0, NoPost DEF Exchanges
<1>7. state'[n].kind = state[n].kind /\ (state[n].kind = "Starting" => state'[n].nodes = P)
      /\ (state[n].kind # "Starting" => state' = state)
  <2>1. state[n].nodes \in SUBSET Nodes BY <1>0, StateIs DEF Types
  <2>2. Starting(P).kind = "Starting" /\ Starting(P).nodes = P BY <2>1, StateIs
  <2> QED BY <1>1, <2>2 DEF Becomes
<1>8. \A k, m : /\ Asked(k, m)' <=> Asked(k, m)
                /\ Acked(k, m)' <=> Acked(k, m)
      BY <1>0 DEF Asked, Acked
<1>9. \A k \in Nodes : Pending(k, n)' <=> Pending(k, n) BY <1>7 DEF Pending
<1>10. \A k \in Nodes : Counted(n, k)' <=> Counted(n, k) /\ k # y BY <1>7 DEF Counted
<1>11. \A k \in Nodes : Pending(n, k)' <=> Pending(n, k)
  <2>1. \A k \in Nodes \ {n} : Pending(n, k)' <=> Pending(n, k) BY <1>4 DEF Pending
  <2> QED BY <1>0, <1>9, <2>1
<1>12. ~Asked(n, y) /\ ~Pending(n, y) /\ ~Acked(n, y)
  <2>1. ~Asked(n, y) BY <1>3, NoneAsked
  <2>2. ~Acked(n, y) BY SMT, <1>3, LetterIs DEF Acked, Silent, BagToSet
  <2> QED BY <1>3, <2>1, <2>2 DEF Pending
<1>13. Once(n)' BY <1>1, <1>2, <1>7, <1>8, <1>10, <1>11, <1>12 DEF Once, OnceFor
<1>14. ASSUME NEW k \in alive, k # n PROVE OnceFor(k, n)' /\ ~(Granted(n, k)' /\ Granted(k, n)')
  <2>0. k \in Nodes \ {n} /\ k # y BY <1>0, <1>3, <1>14
  <2>1. state'[k] = state[k] /\ managers'[k] = managers[k] BY <1>5, <2>0 DEF Only
  <2>2. Counted(k, n)' <=> Counted(k, n) BY <2>1 DEF Counted
  <2>3. OnceFor(k, n) BY <1>0 DEF LeaseInv, Once
  <2>4. OnceFor(k, n)' BY <1>8, <1>9, <2>0, <2>1, <2>2, <2>3 DEF OnceFor
  <2>5. (Granted(n, k)' <=> Granted(n, k)) /\ (Granted(k, n)' <=> Granted(k, n))
        BY <1>7, <1>8, <1>10, <2>0, <2>1, <2>2 DEF Granted
  <2> QED BY <1>14, <2>4, <2>5 DEF LeaseInv, Exclusive
<1>15. StartsOnce(n)'
  <2>1. CASE state[n].kind # "Starting"
    <3>1. starts[n] = 0 /\ results[n] = <<>> BY <2>1, AtRest
    <3>2. starts' = starts BY <1>1, <2>1
    <3> QED BY SMTT(30), <3>1, <3>2 DEF StartsOnce
  <2>2. CASE state[n].kind = "Starting"
    <3>1. state'[n].kind = "Starting" /\ state'[n].nodes = P /\ Starting(P).nodes = P
          BY <1>7, <2>2 DEF Starting
    <3>2. starts[n] > 0 \/ results[n] # <<>> => P = managers'[n] BY <1>1, <1>2 DEF StartsOnce
    <3>3. starts'[n] = IF Complete(n, Starting(P)) THEN starts[n] + 1 ELSE starts[n] BY <1>1, <2>2 DEF Begins
    <3>4. CASE Complete(n, Starting(P))
      <4>1. starts'[n] = 1 /\ results[n] = <<>> BY SMTT(30), <1>0, <3>3, <3>4
      <4>2. Cardinality(P) = Cardinality(managers'[n]) BY <3>1, <3>4 DEF Complete
      <4>3. state[n].nodes \subseteq managers[n]
        <5>1. state[n].nodes \in SUBSET Nodes BY <1>0, StateIs DEF Types
        <5>2. \A k \in state[n].nodes : Counted(n, k) BY <2>2 DEF Counted
        <5> QED BY <1>2, <5>1, <5>2 DEF Once, OnceFor
      <4>4. P \subseteq managers'[n] /\ managers'[n] \in SUBSET Nodes BY <1>0, <1>1, <4>3
      <4>5. P = managers'[n] BY SMTT(30), <4>2, <4>4 DEF Counting
      <4> QED BY <3>1, <4>1, <4>5 DEF StartsOnce
    <3>5. CASE ~Complete(n, Starting(P))
      <4>1. starts'[n] = starts[n] BY <3>3, <3>5
      <4> QED BY <1>2, <3>1, <3>2, <4>1 DEF StartsOnce
    <3> QED BY <3>4, <3>5
  <2> QED BY <2>1, <2>2
<1>16. NewsOk(n)' BY <1>2, <1>5, <1>6, <1>7, NewsTail
<1>17. Know(n)' BY <1>1, <1>2, <1>3, <1>7 DEF Know
<1>18. Own(n)' BY <1>0, <1>13, <1>14, <1>15, <1>16, <1>17 DEF Own
<1>19. Single' BY <1>0 DEF LeaseInv, Single
<1>20. ASSUME NEW a \in actors', ~a.stop PROVE Runs(a)'
  <2>1. a \in actors /\ Runs(a) /\ a.node \in Nodes BY <1>20 DEF LeaseInv, Base, Types
  <2>2. CASE a.node # n BY <1>5, <2>1, <2>2 DEF Runs, Only
  <2>3. CASE a.node = n /\ state[n].kind # "Starting" BY <1>1, <2>1, <2>3 DEF Runs
  <2>4. CASE a.node = n /\ state[n].kind = "Starting" BY <2>1, <2>4 DEF Runs
  <2> QED BY <2>2, <2>3, <2>4
<1> QED BY <1>5, <1>6, <1>18, <1>19, <1>20, ManagerLease

\* A step that moves no lease mail, and changes no manager.
LEMMA QuietLease ==
    ASSUME Base, LeaseInv, NEW n \in alive, Only(n), NEW R, NEW S, Exchanges(n, R, S),
           UNCHANGED <<state, managers, starts, results>>,
           \A x \in R \cup S : x.type \notin {"RequestLease", "LeaseAck"},
           NewsOk(n)', actors' \subseteq actors
    PROVE  LeaseInv'
<1>0. n \in Nodes /\ alive' = alive /\ view' = view BY DEF Base, Types, Only
<1>1. \A x : x.type \in {"RequestLease", "LeaseAck"} => (x \in DOMAIN messages' <=> x \in DOMAIN messages)
      BY DEF Exchanges, Posts
<1>2. \A k, m : (Asked(k, m)' <=> Asked(k, m)) /\ (Acked(k, m)' <=> Acked(k, m)) BY SMT, <1>1, LetterIs DEF Asked, Acked
<1>3. \A k, m : (Pending(k, m)' <=> Pending(k, m)) /\ (Counted(k, m)' <=> Counted(k, m))
      BY <1>0 DEF Pending, Counted
<1>4. \A k, m : Granted(k, m)' <=> Granted(k, m) BY <1>2, <1>3 DEF Granted
<1>5. \A k \in alive : Once(k)' BY <1>2, <1>3 DEF LeaseInv, Once, OnceFor
<1>6. StartsOnce(n) /\ Know(n) BY DEF LeaseInv
<1>7. StartsOnce(n)' /\ Know(n)' BY <1>0, <1>6 DEF StartsOnce, Know
<1>8. \A k \in alive \ {n} : ~(Granted(n, k)' /\ Granted(k, n)') BY <1>4 DEF LeaseInv, Exclusive
<1>9. Own(n)' BY <1>0, <1>5, <1>7, <1>8 DEF Own, Once
<1>10. Single'
  <2>1. Posts(R, S) BY DEF Exchanges
  <2> QED BY <2>1, SinglePosts
<1>11. \A a \in actors' : ~a.stop => Runs(a)' BY DEF LeaseInv, Runs
<1> QED BY <1>9, <1>10, <1>11, ManagerLease

\* ActorStopped
LEMMA ActorStoppedLease ==
    ASSUME Base, LeaseInv, NEW a \in actors, ActorStopped(a), UNCHANGED scenario
    PROVE  LeaseInv'
<1> PICK n : n = a.node OBVIOUS
<1>1. /\ actors' \subseteq actors
      /\ UNCHANGED <<alive, view, news, state, managers, messages, starts, results>>
      BY DEF ActorStopped, cluster, lease
<1>2. n \in alive BY DEF Base, Presence
<1>3. Only(n) /\ Exchanges(n, {}, {}) BY <1>1, NoPost DEF Only, Exchanges, Base
<1>4. NewsOk(n)' BY <1>1, <1>2, <1>3, NewsSame DEF LeaseInv
<1> QED BY <1>1, <1>2, <1>3, <1>4, QuietLease

\* Deliver
LEMMA DeliverLease ==
    ASSUME Base, LeaseInv, NEW n \in Nodes, NEW r, Deliver(n, r), UNCHANGED scenario
    PROVE  LeaseInv'
<1>1. n \in alive /\ UNCHANGED <<alive, view, news, state, managers, messages, starts, results, actors>>
      BY DEF Deliver, cluster, lease, running
<1>2. Only(n) /\ Exchanges(n, {}, {}) BY <1>1, NoPost DEF Only, Exchanges, Base
<1>3. NewsOk(n)' BY <1>1, <1>2, NewsSame DEF LeaseInv
<1> QED BY <1>1, <1>2, <1>3, QuietLease

\* SingletonStarted and SingletonStopped
LEMMA SingletonMessageLease ==
    ASSUME Base, LeaseInv, NEW n \in Nodes, NEW m \in DOMAIN messages,
           SingletonStarted(n, m) \/ SingletonStopped(n, m), UNCHANGED scenario
    PROVE  LeaseInv'
<1>1. /\ n \in alive /\ m.to = n /\ m.type \in {"SingletonStarted", "SingletonStopped"} /\ Posts({m}, {})
      /\ UNCHANGED <<alive, view, news, state, managers, starts, results, actors>>
      BY SingletonMessageIs
<1>2. Only(n) /\ Exchanges(n, {m}, {}) BY <1>1 DEF Only, Exchanges
<1>3. NewsOk(n)' BY <1>1, <1>2, NewsSame DEF LeaseInv
<1>4. \A x \in {m} \cup {} : x.type \notin {"RequestLease", "LeaseAck"} BY <1>1
<1> QED BY <1>1, <1>2, <1>3, <1>4, QuietLease

\* ActorStarted: the one start of a manager that has all acknowledgements.
LEMMA ActorStartedLease ==
    ASSUME Base, LeaseInv, NEW n \in Nodes, ActorStarted(n), UNCHANGED scenario
    PROVE  LeaseInv'
<1> PICK id : id = last_id + 1 OBVIOUS
<1>1. /\ n \in alive /\ starts[n] > 0 /\ starts' = [starts EXCEPT ![n] = @ - 1]
      /\ actors' = actors \cup {[node |-> n, id |-> id, stop |-> FALSE]}
      /\ results' = [results EXCEPT ![n] = Append(@, id)]
      /\ UNCHANGED <<alive, view, news, state, managers, messages>>
      BY DEF ActorStarted, cluster
<1>2. NewsOk(n) /\ Know(n) /\ StartsOnce(n) BY <1>1 DEF LeaseInv
<1>3. starts[n] = 1 /\ results[n] = <<>> /\ state[n].kind = "Starting" /\ state[n].nodes = managers[n]
      BY <1>1, <1>2 DEF StartsOnce
<1>4. /\ starts'[n] = 0 /\ results'[n] = <<id>>
      /\ \A k \in Nodes \ {n} : starts'[k] = starts[k] /\ results'[k] = results[k]
  <2>1. Append(<<>>, id) = <<id>> BY SMT
  <2> QED BY SMTT(30), <1>1, <1>3, <2>1 DEF Base, Types
<1>5. Only(n) /\ Exchanges(n, {}, {}) BY <1>1, <1>4, NoPost DEF Only, Exchanges, Base
<1>6. \A k, m : /\ Asked(k, m)' <=> Asked(k, m)
                /\ Pending(k, m)' <=> Pending(k, m)
                /\ Acked(k, m)' <=> Acked(k, m)
                /\ Counted(k, m)' <=> Counted(k, m)
                /\ Granted(k, m)' <=> Granted(k, m)
      BY <1>1, PlacesKept
<1>7. \A k \in alive : Once(k)' BY <1>1, <1>6 DEF LeaseInv, Once, OnceFor
<1>8. StartsOnce(n)' /\ Know(n)'
  <2>1. <<id>> # <<>> /\ Len(<<id>>) = 1 OBVIOUS
  <2> QED BY SMTT(30), <1>1, <1>2, <1>3, <1>4, <2>1 DEF StartsOnce, Know
<1>9. NewsOk(n)' BY <1>1, <1>2, <1>5, NewsSame
<1>10. \A k \in alive \ {n} : ~(Granted(n, k)' /\ Granted(k, n)') BY <1>1, <1>6 DEF LeaseInv, Exclusive
<1>11. Own(n)' BY <1>1, <1>7, <1>8, <1>9, <1>10 DEF Own, Once
<1>12. Single' BY <1>1 DEF LeaseInv, Single
<1>13. ASSUME NEW a \in actors', ~a.stop PROVE Runs(a)'
  <2>1. CASE a \in actors
    <3>1. Runs(a) /\ a.node \in Nodes BY <1>13, <2>1 DEF LeaseInv, Base, Types
    <3>2. <<>> # <<a.id>> OBVIOUS
    <3>3. a.node # n BY <1>3, <3>1, <3>2 DEF Runs
    <3> QED BY <1>1, <1>4, <3>1, <3>3 DEF Runs
  <2>2. CASE a = [node |-> n, id |-> id, stop |-> FALSE] BY <1>4, <2>2 DEF Runs
  <2> QED BY <1>1, <2>1, <2>2
<1> QED BY <1>1, <1>5, <1>11, <1>12, <1>13, ManagerLease

\* ActorStartResult: the manager has all acknowledgements, so it has all grants.
LEMMA ActorStartResultLease ==
    ASSUME Base, LeaseInv, NEW n \in Nodes, ActorStartResult(n), UNCHANGED scenario
    PROVE  LeaseInv'
<1> PICK S : S = Sent(n, "SingletonStarted", managers[n]) OBVIOUS
<1>0. \A f, g : Letter("RequestLease", f, g) \notin S /\ Letter("LeaseAck", f, g) \notin S BY StartedSent
<1> PICK id : id = Head(results[n]) OBVIOUS
<1>1. /\ n \in alive /\ results[n] # <<>> /\ Becomes(n, RunningState(id)) /\ results'[n] = Tail(results[n])
      /\ \A k \in Nodes \ {n} : results'[k] = results[k]
      /\ Posts({}, S) /\ UNCHANGED <<alive, view, news, managers, starts, actors>>
      BY ActorStartResultIs
<1> USE <1>1
<1>2. NewsOk(n) /\ Know(n) /\ StartsOnce(n) /\ Once(n) BY DEF LeaseInv
<1>3. starts[n] = 0 /\ Len(results[n]) = 1 /\ state[n].kind = "Starting" /\ state[n].nodes = managers[n]
      BY SMT, <1>2 DEF StartsOnce, Base, Types
<1>4. results[n] = <<id>> /\ results'[n] = <<>>
  <2>1. results[n] \in Seq(Nat) BY DEF Base, Types
  <2>2. \A s \in Seq(Nat) : Len(s) = 1 => s = <<Head(s)>> BY SMTT(30)
  <2>3. results'[n] \in Seq(Nat) /\ Len(results'[n]) = 0 BY SMTT(30), <1>3, <2>1
  <2>4. \A s \in Seq(Nat) : Len(s) = 0 => s = <<>> BY SMT
  <2>5. results'[n] = <<>> BY <2>3, <2>4
  <2>6. results[n] = <<id>> BY <1>3, <2>1, <2>2
  <2> QED BY <2>5, <2>6
<1>5. state'[n].kind = "Running" /\ state'[n].actor = id /\ \A k \in Nodes \ {n} : state'[k] = state[k]
      BY BecomesIs DEF Becomes
<1> USE <1>2, <1>3, <1>5
<1>6. \A x \in S : x.from = n /\ x.to # n /\ x.type = "SingletonStarted"
  <2>1. n \notin managers[n] BY DEF Know
  <2> QED BY SMT, <2>1, LetterIs DEF Sent
<1>7. Only(n) /\ Exchanges(n, {}, S) BY <1>6 DEF Only, Exchanges
<1>8. NewsOk(n)' BY <1>7, NewsSame
<1>9. Single' BY <1>6, SinglePosts
<1>10. ASSUME NEW k \in Nodes \ {n}
       PROVE  /\ Asked(n, k)' <=> Asked(n, k)
              /\ Pending(n, k)' <=> Pending(n, k)
              /\ Acked(n, k)' <=> Acked(n, k)
              /\ Asked(k, n)' <=> Asked(k, n)
              /\ Acked(k, n)' <=> Acked(k, n)
              /\ Counted(k, n)' <=> Counted(k, n)
  <2>1. Letter("RequestLease", n, k) \notin S /\ Letter("LeaseAck", n, k) \notin S BY <1>0
  <2>2. Moves(n, k, {}, S) BY <1>7, OwnPlaces
  <2>3. (Asked(n, k)' <=> Asked(n, k)) /\ (Acked(k, n)' <=> Acked(k, n)) BY <2>1, <2>2 DEF Moves
  <2>4. (Acked(n, k)' <=> Acked(n, k)) /\ (Asked(k, n)' <=> Asked(k, n)) BY <2>2 DEF Moves
  <2>5. (Pending(n, k)' <=> Pending(n, k)) /\ (Counted(k, n)' <=> Counted(k, n)) BY <2>2 DEF Moves
  <2> QED BY <2>3, <2>4, <2>5
<1>11. \A k \in Nodes : ~Pending(k, n) /\ ~Pending(k, n)' /\ ~Counted(n, k)' BY DEF Pending, Counted
<1>12. \A k \in Nodes : ~Asked(n, k) /\ ~Pending(n, k) /\ ~Acked(n, k) BY DEF Once, OnceFor, Counted
<1>13. Once(n)'
  <2>1. ~Asked(n, n)' /\ ~Acked(n, n)' BY <1>7, NothingOfItself
  <2>2. \A k \in Nodes : ~Asked(n, k)' /\ ~Pending(n, k)' /\ ~Acked(n, k)' BY <1>10, <1>11, <1>12, <2>1
  <2> QED BY <1>11, <2>2 DEF Once, OnceFor
<1>14. ASSUME NEW k \in alive \ {n} PROVE OnceFor(k, n)' /\ ~Granted(k, n)'
  <2>1. k \in Nodes \ {n} /\ OnceFor(k, n) /\ state'[k] = state[k] BY DEF Base, Types, LeaseInv, Once
  <2>2. OnceFor(k, n)' BY <1>10, <1>11, <2>1 DEF OnceFor
  <2>3. Granted(n, k) BY DEF Know, Granted, Counted
  <2>4. ~Granted(k, n) BY <2>3 DEF LeaseInv, Exclusive
  <2>5. ~Granted(k, n)' BY <1>10, <2>1, <2>4 DEF Granted
  <2> QED BY <2>2, <2>5
<1>15. Know(n)' /\ StartsOnce(n)' BY <1>4 DEF Know, StartsOnce
<1>16. Own(n)' BY <1>8, <1>13, <1>14, <1>15 DEF Own
<1>17. ASSUME NEW a \in actors, ~a.stop PROVE Runs(a)'
  <2>1. Runs(a) /\ a.node \in Nodes BY <1>17 DEF LeaseInv, Base, Types
  <2>2. CASE a.node = n
    <3>1. <<id>> = <<a.id>> BY <1>4, <2>1, <2>2 DEF Runs
    <3>2. id = a.id BY <3>1
    <3> QED BY <2>2, <3>2 DEF Runs
  <2>3. CASE a.node # n BY <2>1, <2>3 DEF Runs
  <2> QED BY <2>2, <2>3
<1> QED BY <1>7, <1>9, <1>16, <1>17, ManagerLease

\* LeaseAck: the acknowledgement is counted, and with the last one the actor starts.
LEMMA LeaseAckLease ==
    ASSUME Counting, Base, LeaseInv, NEW n \in Nodes, NEW m \in DOMAIN messages, LeaseAck(n, m), UNCHANGED scenario
    PROVE  LeaseInv'
<1> PICK x : x = m.from OBVIOUS
<1> PICK P : P = state[n].nodes \cup {x} OBVIOUS
<1>1. /\ n \in alive /\ m.to = n /\ m.type = "LeaseAck" /\ x \in Nodes
      /\ Posts({m}, {}) /\ UNCHANGED <<alive, view, news, managers, actors, results>>
      BY LeaseAckIs DEF Base
<1>2. m = Letter("LeaseAck", x, n)
  <2>1. m \in Letters BY DEF Base, Types, IsMail
  <2> QED BY <1>1, <2>1, LetterIs
<1>3. NewsOk(n) /\ Know(n) /\ StartsOnce(n) /\ Once(n) BY <1>1 DEF LeaseInv
<1> USE <1>1, <1>3
<1>4. Acked(n, x) BY <1>2 DEF Acked
<1>5. state[n].kind = "Starting" /\ x \in managers[n] /\ ~Counted(n, x) BY <1>4 DEF Once, OnceFor
<1>6. /\ Becomes(n, Starting(P))
      /\ Begins(n, IF Complete(n, Starting(P)) THEN starts[n] + 1 ELSE starts[n])
      BY <1>5, LeaseAckIs DEF Base
<1> USE <1>5
<1>7. starts[n] = 0 /\ results[n] = <<>>
  <2>1. state[n].nodes # managers[n] BY DEF Counted
  <2> QED BY SMT, <2>1 DEF StartsOnce, Base, Types
<1>8. /\ state'[n].kind = "Starting" /\ state'[n].nodes = P
      /\ \A k \in Nodes \ {n} : state'[k] = state[k] /\ starts'[k] = starts[k]
      BY SMTT(30), <1>6 DEF Becomes, Begins, Starting
<1> USE <1>7, <1>8
<1>9. P \subseteq managers[n]
  <2>1. \A k \in state[n].nodes : k \in Nodes BY DEF Base, Types, States
  <2> QED BY <2>1 DEF Once, OnceFor, Counted
<1>10. starts'[n] \in {0, 1} /\ (starts'[n] > 0 => P = managers[n])
  <2>1. managers[n] \in SUBSET Nodes /\ P \in SUBSET Nodes BY <1>9 DEF Base, Types
  <2>2. Complete(n, Starting(P)) => P = managers[n]
    <3>1. Complete(n, Starting(P)) => Cardinality(P) = Cardinality(managers[n]) BY DEF Complete, Starting
    <3> QED BY SMTT(30), <1>9, <2>1, <3>1 DEF Counting
  <2> QED BY SMTT(30), <1>6, <2>2 DEF Begins
<1>11. Only(n) /\ Exchanges(n, {m}, {}) BY DEF Only, Exchanges
<1>12. ~Asked(n, n) /\ ~Pending(n, n) /\ ~Acked(n, n) /\ ~Counted(n, n) /\ ~Asked(n, n)' /\ ~Acked(n, n)'
       BY <1>11, NothingOfItself
<1>13. ~Acked(n, x)'
  <2>1. messages[m] = 1 BY DEF LeaseInv, Single
  <2> QED BY <1>2, <2>1 DEF Posts, Acked
<1>14. ASSUME NEW k \in Nodes \ {n}
       PROVE  /\ Asked(n, k)' <=> Asked(n, k)
              /\ Pending(n, k)' <=> Pending(n, k)
              /\ Acked(n, k)' => Acked(n, k)
              /\ Asked(k, n)' => Asked(k, n)
              /\ Acked(k, n)' <=> Acked(k, n)
              /\ Counted(k, n)' <=> Counted(k, n)
  <2>1. Moves(n, k, {m}, {}) BY <1>11, OwnPlaces
  <2> QED BY <2>1 DEF Moves
<1>15. \A k \in Nodes : /\ Counted(n, k)' <=> Counted(n, k) \/ k = x
                        /\ ~Pending(k, n) /\ ~Pending(k, n)'
       BY DEF Counted, Pending
<1>16. ASSUME NEW k \in Nodes PROVE OnceFor(n, k)'
  <2>1. OnceFor(n, k) /\ OnceFor(n, x) BY DEF Once
  <2>2. CASE k = n BY <1>4, <1>12, <1>15, <2>2 DEF OnceFor
  <2>3. CASE k # n
    <3>1. k \in Nodes \ {n} BY <2>3
    <3> QED BY <1>4, <1>13, <1>14, <1>15, <2>1, <3>1 DEF OnceFor
  <2> QED BY <2>2, <2>3
<1>17. ASSUME NEW k \in alive \ {n} PROVE OnceFor(k, n)' /\ ~(Granted(n, k)' /\ Granted(k, n)')
  <2>1. k \in Nodes \ {n} /\ OnceFor(k, n) /\ state'[k] = state[k] BY DEF Base, Types, LeaseInv, Once
  <2>2. OnceFor(k, n)' BY <1>14, <1>15, <2>1, MovesOn
  <2>3. Granted(n, k)' => Granted(n, k) BY <1>4, <1>14, <1>15, <2>1 DEF Granted
  <2>4. Granted(k, n)' => Granted(k, n) BY <1>14, <2>1 DEF Granted
  <2>5. ~(Granted(n, k) /\ Granted(k, n)) BY DEF LeaseInv, Exclusive
  <2> QED BY <2>2, <2>3, <2>4, <2>5
<1>18. NewsOk(n)' BY <1>11, NewsSame
<1>19. Know(n)' BY DEF Know
<1>20. StartsOnce(n)' BY <1>10 DEF StartsOnce
<1>21. Own(n)' BY <1>16, <1>17, <1>18, <1>19, <1>20 DEF Own, Once
<1>22. Single' BY SingleTaken
<1>23. ASSUME NEW a \in actors, ~a.stop PROVE Runs(a)'
  <2>1. Runs(a) /\ a.node \in Nodes BY <1>23 DEF LeaseInv, Base, Types
  <2>2. <<>> # <<a.id>> OBVIOUS
  <2>3. a.node # n BY <2>1, <2>2 DEF Runs
  <2> QED BY <2>1, <2>3 DEF Runs
<1> QED BY <1>11, <1>21, <1>22, <1>23, ManagerLease

\* The request of x goes from the mail of n into Joining, or is answered.
TakesRequest(n, x, S) ==
    /\ Only(n) /\ Asked(x, n) /\ Exchanges(n, {Letter("RequestLease", x, n)}, S)
    /\ UNCHANGED <<managers, starts, results, news>>
    /\ state[n].kind # "Starting" /\ state'[n].kind \notin {"Starting", "Running"}
    /\ state'[n].kind = "Joining" <=> state[n].kind = "Joining"
    /\ state'[n].kind = "Joining" => S = {} /\ state'[n].nodes = {x}
    /\ \A y \in S : y.type # "RequestLease" /\ (y.type = "LeaseAck" => y.to = x /\ x \in alive)
    /\ \A a \in actors' : ~a.stop => Runs(a)'

\* The lease after it.
LEMMA RequestTaken ==
    ASSUME Base, LeaseInv, NEW n \in alive, NEW x \in Nodes, NEW S, TakesRequest(n, x, S)
    PROVE  LeaseInv'
<1>a. /\ Only(n) /\ Asked(x, n) /\ Exchanges(n, {Letter("RequestLease", x, n)}, S)
      /\ UNCHANGED <<managers, starts, results, news>>
      /\ state[n].kind # "Starting" /\ state'[n].kind \notin {"Starting", "Running"}
      /\ state'[n].kind = "Joining" <=> state[n].kind = "Joining"
      /\ state'[n].kind = "Joining" => S = {} /\ state'[n].nodes = {x}
      /\ \A y \in S : y.type # "RequestLease" /\ (y.type = "LeaseAck" => y.to = x /\ x \in alive)
      /\ \A a \in actors' : ~a.stop => Runs(a)'
      BY DEF TakesRequest
<1> USE <1>a
<1>0. n \in Nodes /\ alive' = alive /\ view' = view BY DEF Base, Types, Only
<1>1. NewsOk(n) /\ Know(n) /\ StartsOnce(n) BY DEF LeaseInv
<1> USE <1>0, <1>1
<1>2. x # n BY NothingOfItself
<1>3. ~Asked(x, n)'
  <2>1. messages[Letter("RequestLease", x, n)] = 1 BY AskedOnce
  <2> QED BY <2>1 DEF Exchanges, Posts, Asked
<1>4. ASSUME NEW k \in Nodes PROVE Pending(k, n)' => k = x /\ S = {} BY DEF Pending
<1>5. Once(n)' /\ \A k \in Nodes : ~Granted(n, k)' BY <1>2, <1>4, FromRest
<1>6. ASSUME NEW k \in alive \ {n} PROVE OnceFor(k, n)'
  <2>1. k \in Nodes \ {n} /\ OnceFor(k, n) /\ state'[k] = state[k] BY DEF Base, Types, LeaseInv, Once, Only
  <2>4. Moves(n, k, {Letter("RequestLease", x, n)}, S) BY <2>1, OwnPlaces
  <2>2. /\ Asked(k, n)' => Asked(k, n)
        /\ Acked(k, n)' <=> Acked(k, n) \/ Letter("LeaseAck", n, k) \in S
        /\ Counted(k, n)' <=> Counted(k, n)
        BY <2>4 DEF Moves
  <2>3. Letter("LeaseAck", n, k) \in S => k = x BY SMT, LetterIs
  <2> QED BY <1>3, <1>4, <2>1, <2>2, <2>3, MovesOn
<1>7. Know(n)' /\ StartsOnce(n)'
  <2>1. starts[n] = 0 /\ results[n] = <<>> BY AtRest
  <2> QED BY <2>1 DEF Know, StartsOnce
<1>8. NewsOk(n)' BY NewsSame
<1>9. alive \subseteq Nodes BY DEF Base, Types
<1>10. Own(n)' BY <1>5, <1>6, <1>7, <1>8, <1>9 DEF Own
<1>11. Single'
  <2>1. ASSUME NEW y \in S, y.type \in {"RequestLease", "LeaseAck"} PROVE y \notin DOMAIN messages
    <3>1. y.type = "LeaseAck" /\ y.to = x /\ x \in alive /\ y.from = n /\ y \in Letters
          BY <2>1 DEF Exchanges, Posts, IsMail
    <3>2. y = Letter("LeaseAck", n, x) BY <3>1, LetterIs
    <3>3. OnceFor(x, n) BY <3>1 DEF LeaseInv, Once
    <3> QED BY <3>2, <3>3 DEF OnceFor, Acked
  <2>2. Posts({Letter("RequestLease", x, n)}, S) BY DEF Exchanges
  <2> QED BY <2>1, <2>2, SinglePosts
<1> QED BY <1>10, <1>11, ManagerLease

\* RequestLease
LEMMA RequestLeaseLease ==
    ASSUME Base, LeaseInv, NEW n \in Nodes, NEW m \in DOMAIN messages, RequestLease(n, m), UNCHANGED scenario
    PROVE  LeaseInv'
<1> PICK x : x = m.from OBVIOUS
<1> PICK S : S = Sent(n, "LeaseAck", {x}) OBVIOUS
<1> PICK T : T = Sent(n, "SingletonStopped", managers[n]) OBVIOUS
<1>1. /\ n \in alive /\ m.to = n /\ m.type = "RequestLease" /\ x \in Nodes
      /\ UNCHANGED <<alive, view, news, managers, results, starts>>
      BY RequestLeaseIs DEF Base
<1>9. \/ state[n].kind = "Joining" /\ Becomes(n, Joining({x})) /\ Posts({m}, {}) /\ UNCHANGED actors
      \/ state[n].kind \in {"Idle", "Stopping"} /\ UNCHANGED <<state, actors>> /\ Posts({m}, S)
      \/ state[n].kind = "Running" /\ Becomes(n, Stopping(state[n].actor)) /\ Posts({m}, T) /\ actors' = Told(n)
      \/ state[n].kind = "Starting" /\ UNCHANGED <<state, actors>> /\ Posts({m}, {})
      BY RequestLeaseIs DEF Base
<1>2. m = Letter("RequestLease", x, n)
  <2>1. m \in Letters BY DEF Base, Types, IsMail
  <2> QED BY <1>1, <2>1, LetterIs
<1> USE <1>1, <1>2
<1>3. Asked(x, n) BY DEF Asked
<1>4. n \notin managers[n] BY DEF LeaseInv, Know
<1>5. CASE state[n].kind = "Joining"
  <2>1. Becomes(n, Joining({x})) /\ Posts({m}, {}) /\ UNCHANGED actors BY <1>5, <1>9
  <2>2. state'[n] = Joining({x}) /\ Only(n) BY <2>1 DEF Becomes, Only
  <2>6. Joining({x}).kind = "Joining" /\ Joining({x}).nodes = {x} BY DEF Joining
  <2>7. state'[n].kind = "Joining" /\ state'[n].nodes = {x} BY <2>2, <2>6
  <2> PICK Z : Z = {} OBVIOUS
  <2>3. Exchanges(n, {m}, Z) BY <2>1 DEF Exchanges
  <2>4. \A a \in actors' : ~a.stop => Runs(a)' BY <1>5, <2>1, <2>2, RestRuns
  <2>8. Only(n) /\ Exchanges(n, {Letter("RequestLease", x, n)}, Z) BY <2>2, <2>3
  <2>9. \A y \in Z : y.type # "RequestLease" /\ (y.type = "LeaseAck" => y.to = x /\ x \in alive) OBVIOUS
  <2>10. TakesRequest(n, x, Z) BY <1>3, <1>5, <2>4, <2>7, <2>8, <2>9 DEF TakesRequest
  <2> QED BY <2>10, RequestTaken
<1>6. CASE state[n].kind \in {"Idle", "Stopping"}
  <2>1. UNCHANGED <<state, actors>> /\ Posts({m}, S) BY <1>6, <1>9
  <2>2. Only(n) BY <2>1 DEF Only
  <2>3. \A y \in S : y.type = "LeaseAck" /\ y.to = x /\ x \in alive /\ y.from = n /\ y.to # n
        BY SMT, <1>4, LetterIs DEF Sent
  <2>4. Exchanges(n, {m}, S) BY <2>1, <2>3 DEF Exchanges
  <2>5. \A a \in actors' : ~a.stop => Runs(a)' BY <1>6, <2>1, <2>2, RestRuns
  <2>6. \A y \in S : y.type # "RequestLease" /\ (y.type = "LeaseAck" => y.to = x /\ x \in alive) BY <2>3
  <2>7. state'[n] = state[n] /\ state[n].kind \notin {"Joining", "Starting", "Running"} BY <1>6, <2>1
  <2>8. TakesRequest(n, x, S) BY <1>3, <2>2, <2>4, <2>5, <2>6, <2>7 DEF TakesRequest
  <2> QED BY <2>8, RequestTaken
<1>7. CASE state[n].kind = "Running"
  <2>1. Becomes(n, Stopping(state[n].actor)) /\ Posts({m}, T) /\ actors' = Told(n) BY <1>7, <1>9
  <2>2. Only(n) /\ state'[n].kind = "Stopping" BY <2>1, BecomesIs DEF Becomes, Only
  <2>3. \A y \in T : y.type = "SingletonStopped" /\ y.from = n /\ y.to # n BY SMT, <1>4, LetterIs DEF Sent
  <2>4. Exchanges(n, {m}, T) BY <2>1, <2>3 DEF Exchanges
  <2>5. results[n] = <<>> BY <1>7, AtRest
  <2>6. ASSUME NEW a \in actors', ~a.stop PROVE Runs(a)'
    <3>1. a \in actors /\ ~(a.node = n /\ a.id = state[n].actor) BY SMT, <2>1, <2>6 DEF Told
    <3>2. Runs(a) /\ a.node \in Nodes BY <2>6, <3>1 DEF LeaseInv, Base, Types
    <3>3. <<>> # <<a.id>> OBVIOUS
    <3>4. a.node # n BY <2>5, <3>1, <3>2, <3>3 DEF Runs
    <3> QED BY <2>2, <3>2, <3>4 DEF Runs, Only
  <2>7. TakesRequest(n, x, T) BY <1>3, <1>7, <2>2, <2>3, <2>4, <2>6 DEF TakesRequest
  <2> QED BY <2>7, RequestTaken
<1>8. CASE state[n].kind = "Starting"
  <2>1. UNCHANGED <<state, actors>> /\ Posts({m}, {}) BY <1>8, <1>9
  <2> USE <2>1
  <2>2. Only(n) /\ Exchanges(n, {m}, {}) BY DEF Only, Exchanges
  <2>3. \A k, l : (Asked(k, l)' => Asked(k, l)) /\ (Acked(k, l)' => Acked(k, l)) BY DEF Posts, Asked, Acked
  <2>4. \A k, l : (Pending(k, l)' <=> Pending(k, l)) /\ (Counted(k, l)' <=> Counted(k, l)) BY DEF Pending, Counted
  <2>5. ASSUME NEW k \in alive, NEW l \in Nodes PROVE OnceFor(k, l)'
    <3>1. OnceFor(k, l) BY DEF LeaseInv, Once
    <3> QED BY <2>3, <2>4, <3>1 DEF OnceFor
  <2>6. \A k, l : Granted(k, l)' => Granted(k, l) BY <2>3, <2>4 DEF Granted
  <2>7. \A k \in alive \ {n} : ~(Granted(n, k)' /\ Granted(k, n)') BY <2>6 DEF LeaseInv, Exclusive
  <2>8. NewsOk(n) /\ Know(n) /\ StartsOnce(n) BY DEF LeaseInv
  <2>9. Know(n)' /\ StartsOnce(n)' BY <2>8 DEF Know, StartsOnce
  <2>10. NewsOk(n)' BY <2>2, <2>8, NewsSame
  <2>11. Own(n)' BY <2>5, <2>7, <2>9, <2>10 DEF Own, Once
  <2>12. Single' BY SingleTaken
  <2>13. \A a \in actors' : ~a.stop => Runs(a)' BY DEF LeaseInv, Runs
  <2> QED BY <2>2, <2>11, <2>12, <2>13, ManagerLease
<1> QED BY <1>5, <1>6, <1>7, <1>8, <1>9

\* HandleNews
LEMMA NewsLease ==
    ASSUME Counting, Base, LeaseInv, NobodyJoined, NEW n \in Nodes, HandleNews(n), UNCHANGED scenario,
           starts'[n] > starts[n] => starts[n] = 0 /\ results[n] = <<>>
    PROVE  LeaseInv'
<1>1. n \in alive /\ news[n] # <<>> /\ news' = [news EXCEPT ![n] = Tail(@)] /\ UNCHANGED <<alive, view, results, actors>>
      BY DEF HandleNews, cluster, running
<1> PICK e : e = Head(news[n]) OBVIOUS
<1>2. NewsTaken(n) /\ 1 \in DOMAIN news[n] /\ e = news[n][1] /\ e \in Events BY <1>1, Takes DEF Base
<1>3. e.type # "NodeAdded" BY <1>1, <1>2 DEF LeaseInv, NewsOk, EventOk
<1>4. \/ e.type = "MemberUp" /\ OnMemberUp(n, e)
      \/ OnLeaderChanged(n, e)
      \/ e.type = "NodeRemoved" /\ OnNodeRemoved(n, e)
      BY <1>3 DEF HandleNews
<1> USE <1>1, <1>2
<1>5. CASE e.type = "MemberUp" /\ OnMemberUp(n, e) BY <1>5, MemberUpLease
<1>6. CASE OnLeaderChanged(n, e) BY <1>6, LeaderChangedLease
<1>7. CASE e.type = "NodeRemoved" /\ OnNodeRemoved(n, e) BY <1>7, NodeRemovedLease
<1> QED BY <1>4, <1>5, <1>6, <1>7

\* Every step, while nobody has joined and no node has started the actor twice.
LEMMA LeaseKept ==
    ASSUME Ordered, Counting, Base, LeaseInv, NobodyJoined, NobodyJoined', Next,
           \A k \in Nodes : starts'[k] > starts[k] => starts[k] = 0 /\ results[k] = <<>>
    PROVE  LeaseInv'
<1>0. UNCHANGED scenario BY DEF Next, History
<1> USE <1>0
<1>1. ASSUME NEW n \in Nodes PROVE ~Join(n) /\ \A m \in Nodes : ~Learn(n, m) BY NobodyNew
<1>2. ASSUME NEW n \in Nodes, Crash(n) PROVE LeaseInv' BY <1>2, CrashLease
<1>3. ASSUME NEW n \in Nodes, NEW r, Deliver(n, r) PROVE LeaseInv' BY <1>3, DeliverLease
<1>4. ASSUME NEW n \in Nodes, NEW m \in Nodes, Suspect(n, m) PROVE LeaseInv' BY <1>4, SuspectLease
<1>5. ASSUME NEW n \in Nodes, NEW m \in Nodes, Trust(n, m) PROVE LeaseInv' BY <1>5, TrustLease
<1>6. ASSUME NEW n \in Nodes, NEW m \in Nodes, Forget(n, m) PROVE LeaseInv' BY <1>6, ForgetLease
<1>7. ASSUME NEW a \in actors, ActorStopped(a) PROVE LeaseInv' BY <1>7, ActorStoppedLease
<1>8. ASSUME NEW n \in Nodes, Handle(n) PROVE LeaseInv'
  <2>1. CASE HandleNews(n) BY <2>1, NewsLease
  <2>2. CASE ActorStarted(n) BY <2>2, ActorStartedLease
  <2>3. CASE ActorStartResult(n) BY <2>3, ActorStartResultLease
  <2>4. ASSUME NEW m \in DOMAIN messages, RequestLease(n, m) PROVE LeaseInv' BY <2>4, RequestLeaseLease
  <2>5. ASSUME NEW m \in DOMAIN messages, LeaseAck(n, m) PROVE LeaseInv' BY <2>5, LeaseAckLease
  <2>6. ASSUME NEW m \in DOMAIN messages, SingletonStarted(n, m) \/ SingletonStopped(n, m) PROVE LeaseInv'
        BY <2>6, SingletonMessageLease
  <2> QED BY <1>8, <2>1, <2>2, <2>3, <2>4, <2>5, <2>6 DEF Handle, BagToSet
<1>9. CASE Environment BY <1>1, <1>2, <1>3, <1>4, <1>5, <1>9 DEF Environment
<1>10. CASE Detect BY <1>1, <1>4, <1>6, <1>10 DEF Detect
<1> QED BY <1>7, <1>8, <1>9, <1>10 DEF Next

\* Initially every running node has its MemberUp and its LeaderChanged to handle.
LEMMA InitNews ==
    ASSUME Ordered, Init
    PROVE  /\ alive \subseteq Nodes /\ news \in [Nodes -> Seq(Events)]
           /\ \A n \in Nodes \ alive : news[n] = <<>>
           /\ \A n \in alive : /\ \A i \in DOMAIN news[n] : news[n][i] \in {MemberUp(Min(alive), alive), LeaderChanged(Min(alive))}
                               /\ \A i, j \in DOMAIN news[n] : news[n][i] = news[n][j] => i = j
           /\ Min(alive) \in Nodes /\ Oldest(Min(alive))
<1>1. alive = scenario.members /\ alive \subseteq Nodes /\ alive # {} BY ClustersAssumption DEF Init
<1> PICK l : l = Min(alive) OBVIOUS
<1>2. l \in Nodes /\ \A y \in alive : l <= y BY <1>1 DEF Ordered
<1> PICK u : u = MemberUp(l, alive) OBVIOUS
<1> PICK c : c = LeaderChanged(l) OBVIOUS
<1>3. u \in Events /\ c \in Events BY SMT, <1>1, <1>2 DEF Events
<1>4. u # c
  <2>1. u.type = "MemberUp" /\ c.type = "LeaderChanged" BY DEF MemberUp, LeaderChanged
  <2> QED BY <2>1
<1>5. <<u>> \o <<c>> = <<u, c>> /\ <<c>> \o <<u>> = <<c, u>>
  <2>1. ASSUME NEW a \in Events, NEW b \in Events PROVE <<a>> \o <<b>> = <<a, b>>
    <3> PICK s : s = <<a>> \o <<b>> OBVIOUS
    <3>1. s \in Seq(Events) /\ Len(s) = 2 BY SMT
    <3>2. s[1] = a /\ s[2] = b BY SMT
    <3>3. \A t \in Seq(Events) : Len(t) = 2 => t = <<t[1], t[2]>> BY SMT
    <3> QED BY <3>1, <3>2, <3>3
  <2> QED BY <1>3, <2>1
<1>6. news \in [Nodes -> {<<>>, <<u, c>>, <<c, u>>}] /\ \A n \in Nodes : news[n] = <<>> <=> n \notin alive
      BY <1>5 DEF Init, Shuffle
<1>7. {<<>>, <<u, c>>, <<c, u>>} \subseteq Seq(Events) BY SMT, <1>3
<1>8. news \in [Nodes -> Seq(Events)] BY <1>6, <1>7
<1>9. ASSUME NEW n \in alive PROVE /\ \A i \in DOMAIN news[n] : news[n][i] \in {u, c}
                                   /\ \A i, j \in DOMAIN news[n] : news[n][i] = news[n][j] => i = j
  <2>1. news[n] = <<u, c>> \/ news[n] = <<c, u>> BY <1>1, <1>6
  <2>2. CASE news[n] = <<u, c>> BY SMTT(30), <1>4, <2>2
  <2>3. CASE news[n] = <<c, u>> BY SMT, <1>4, <2>3
  <2> QED BY <2>1, <2>2, <2>3
<1>10. \A n \in Nodes \ alive : news[n] = <<>> BY <1>6
<1> QED BY <1>1, <1>2, <1>8, <1>9, <1>10 DEF Oldest

\* Initially.
LEMMA InitIInv == ASSUME Ordered, Init PROVE IInv
<1>1. /\ alive \subseteq Nodes /\ news \in [Nodes -> Seq(Events)]
      /\ \A n \in Nodes \ alive : news[n] = <<>>
      /\ \A n \in alive : /\ \A i \in DOMAIN news[n] : news[n][i] \in {MemberUp(Min(alive), alive), LeaderChanged(Min(alive))}
                          /\ \A i, j \in DOMAIN news[n] : news[n][i] = news[n][j] => i = j
      /\ Min(alive) \in Nodes /\ Oldest(Min(alive))
      BY InitNews
<1> PICK l : l = Min(alive) OBVIOUS
<1>2. Joining({}) \in States /\ Joining({}).kind = "Joining" /\ Joining({}).nodes = {} BY StateIs
<1>3. DOMAIN messages = {} /\ IsMail(messages)
  <2>1. messages = [x \in {} |-> 1] BY DEF Init, EmptyBag, SetToBag
  <2>2. DOMAIN messages = {} BY <2>1
  <2>3. messages \in [DOMAIN messages -> Nat \ {0}] BY <2>1
  <2> QED BY <2>2, <2>3 DEF IsMail
<1>4. leader \in [Nodes -> Nat] /\ view \in [Nodes -> SUBSET Nodes] /\ suspects \in [Nodes -> SUBSET Nodes]
  <2>1. l \in Nat BY <1>1, NodesAssumption
  <2> QED BY <1>1, <2>1 DEF Init
<1>5. state \in [Nodes -> States] /\ managers \in [Nodes -> SUBSET Nodes] BY <1>2 DEF Init
<1>6. starts \in [Nodes -> Nat] /\ results \in [Nodes -> Seq(Nat)] BY SMT DEF Init
<1>7. Types BY <1>1, <1>3, <1>4, <1>5, <1>6 DEF Init, Types
<1>8. \A n \in Nodes : /\ state[n] = Joining({}) /\ managers[n] = {} /\ suspects[n] = {}
                       /\ starts[n] = 0 /\ results[n] = <<>>
      BY DEF Init
<1>9. alive = scenario.members /\ actors = {} /\ \A n \in Nodes : view[n] = IF n \in alive THEN alive ELSE {}
      BY DEF Init
<1>10. Presence BY <1>1, <1>2, <1>3, <1>8, <1>9 DEF Presence
<1> PICK u : u = MemberUp(l, alive) OBVIOUS
<1> PICK c : c = LeaderChanged(l) OBVIOUS
<1>11. u.type = "MemberUp" /\ u.leader = l /\ u.nodes = alive BY DEF MemberUp
<1>12. c.type = "LeaderChanged" /\ c.leader = l BY DEF LeaderChanged
<1>13. ASSUME NEW n \in alive PROVE \A i \in DOMAIN news[n] : news[n][i] \in {u, c} BY <1>1
<1>14. OldestLeads
  <2>1. ASSUME NEW n \in alive, Leads(n) PROVE Oldest(n)
    <3>1. n \in Nodes BY <1>1
    <3>2. PICK i \in DOMAIN news[n] : news[n][i].leader = n BY SMTT(30), <1>2, <1>8, <2>1, <3>1 DEF Leads
    <3>3. n = l BY <1>11, <1>12, <1>13, <3>2
    <3> QED BY <1>1, <3>3
  <2> QED BY <1>1, <1>8, <1>9, <2>1 DEF OldestLeads
<1>15. \A n, m \in Nodes : ~Asked(n, m) /\ ~Pending(n, m) /\ ~Acked(n, m) /\ ~Counted(n, m) /\ ~Granted(n, m)
       BY <1>2, <1>3, <1>8 DEF Asked, Pending, Acked, Counted, Granted
<1>16. ASSUME NEW n \in alive PROVE NewsOk(n)
  <2>1. \A e \in {u, c} : EventOk(n, e) BY <1>1, <1>2, <1>8, <1>9, <1>11, <1>12 DEF EventOk
  <2>2. \A e \in {u, c} : e.type = "MemberUp" => e = u BY <1>12
  <2> QED BY SMTT(30), <1>1, <1>13, <2>1, <2>2 DEF NewsOk
<1>17. ASSUME NEW n \in alive PROVE Know(n) /\ Once(n) /\ StartsOnce(n)
  <2>1. n \in Nodes BY <1>1
  <2>2. Know(n) BY <1>2, <1>8, <1>9, <2>1 DEF Know
  <2>3. Once(n) BY <1>15, <2>1 DEF Once, OnceFor
  <2>4. StartsOnce(n) BY SMTT(30), <1>8, <2>1 DEF StartsOnce
  <2> QED BY <2>2, <2>3, <2>4
<1>18. Single /\ Exclusive BY <1>1, <1>3, <1>15 DEF Single, Exclusive
<1>19. LeaseInv BY <1>9, <1>16, <1>17, <1>18 DEF LeaseInv
<1> QED BY <1>7, <1>10, <1>14, <1>19 DEF IInv, Base

\* Every step.
LEMMA NextIInv == ASSUME Ordered, Counting, IInv, [Next]_vars PROVE IInv'
<1>1. CASE Next
  <2>1. Base BY DEF IInv
  <2>2. Base' /\ \A k \in Nodes : view'[k] = view[k] \/ k \in alive' BY <1>1, <2>1, BaseKept
  <2>3. ASSUME NobodyJoined', twice' = {} PROVE LeaseInv'
    <3>1. /\ NobodyJoined /\ twice = {}
          /\ \A k \in Nodes : starts'[k] > starts[k] => starts[k] = 0 /\ results[k] = <<>>
          BY <1>1, <2>1, <2>2, <2>3, ConditionKept
    <3> QED BY <1>1, <2>1, <2>3, <3>1, LeaseKept DEF IInv
  <2> QED BY <2>2, <2>3 DEF IInv
<1>2. CASE UNCHANGED vars
  <2>1. /\ UNCHANGED <<alive, flaps, view, suspects, leader, news, state, managers, messages, starts, results>>
        /\ UNCHANGED <<actors, last_id, queue, scenario, twice>>
        BY <1>2 DEF vars, cluster, lease, running, proxies
  <2>2. Types' <=> Types BY <2>1 DEF Types
  <2>3. Presence' <=> Presence BY <2>1 DEF Presence
  <2>4. OldestLeads' <=> OldestLeads BY <2>1 DEF OldestLeads, Oldest, Leads
  <2>5. \A n : Know(n)' <=> Know(n) BY <2>1 DEF Know
  <2>6. \A n : NewsOk(n)' <=> NewsOk(n) BY SMT, <2>1 DEF NewsOk, EventOk, Silent, BagToSet
  <2>7. \A n, m : /\ Asked(n, m)' <=> Asked(n, m)
                  /\ Pending(n, m)' <=> Pending(n, m)
                  /\ Acked(n, m)' <=> Acked(n, m)
                  /\ Counted(n, m)' <=> Counted(n, m)
                  /\ Granted(n, m)' <=> Granted(n, m)
        BY <2>1, PlacesKept
  <2>8. \A n : Once(n)' <=> Once(n) BY SMTT(30), <2>1, <2>7 DEF Once, OnceFor
  <2>9. \A n : StartsOnce(n)' <=> StartsOnce(n) BY <2>1 DEF StartsOnce
  <2>10. (Single' <=> Single) /\ (Exclusive' <=> Exclusive) BY <2>1, <2>7 DEF Single, Exclusive
  <2>11. \A a : Runs(a)' <=> Runs(a) BY <2>1 DEF Runs
  <2>12. LeaseInv' <=> LeaseInv BY <2>1, <2>5, <2>6, <2>8, <2>9, <2>10, <2>11 DEF LeaseInv
  <2>13. NobodyJoined' <=> NobodyJoined BY <2>1 DEF NobodyJoined
  <2> QED BY <2>1, <2>2, <2>3, <2>4, <2>12, <2>13 DEF IInv, Base
<1> QED BY <1>1, <1>2

\* No two nodes run the singleton, under either condition.
LEMMA InvOneNode == ASSUME IInv PROVE OneNode
<1> SUFFICES ASSUME flaps = 0 \/ (NobodyJoined /\ twice = {}),
                    NEW a \in actors, NEW b \in actors, ~a.stop, ~b.stop
             PROVE  a.node = b.node
    BY DEF OneNode
<1>1. a.node \in alive /\ b.node \in alive /\ alive \subseteq Nodes BY DEF IInv, Base, Presence, Types
<1>2. CASE flaps = 0
  <2>1. a.node <= b.node /\ b.node <= a.node BY <1>1, <1>2 DEF IInv, Base, OldestLeads, Oldest
  <2>2. a.node \in Nat /\ b.node \in Nat BY <1>1, NodesAssumption
  <2> QED BY SMTT(30), <2>1, <2>2
<1>3. CASE NobodyJoined /\ twice = {}
  <2>1. LeaseInv BY <1>3 DEF IInv
  <2>2. Base BY DEF IInv
  <2>3. ASSUME NEW k \in alive, NEW m \in alive, k # m, NEW d \in actors, d.node = k, ~d.stop PROVE Granted(k, m)
    <3>1. Runs(d) /\ StartsOnce(k) /\ Know(k) BY <2>1, <2>3 DEF LeaseInv
    <3>2. CASE state[k].kind = "Running" BY <3>2 DEF Granted
    <3>3. CASE results[k] = <<d.id>>
      <4>1. <<d.id>> # <<>> OBVIOUS
      <4>2. state[k].kind = "Starting" /\ state[k].nodes = managers[k] BY <3>1, <3>3, <4>1 DEF StartsOnce
      <4> QED BY <2>3, <3>1, <4>2 DEF Know, Granted, Counted
    <3> QED BY <2>3, <3>1, <3>2, <3>3 DEF Runs
  <2>4. a.node # b.node => Granted(a.node, b.node) /\ Granted(b.node, a.node) BY <1>1, <2>3
  <2> QED BY <1>1, <2>1, <2>4 DEF LeaseInv, Exclusive
<1> QED BY <1>2, <1>3

\* A proxy that becomes Active sends what it has buffered; the others are as they were.
LEMMA ProxySends ==
    ASSUME Types, NEW n \in Nodes, NEW m, ProxyStarted(n, m)
    PROVE  \A k \in Nodes : queue[k] \subseteq queue'[k] \cup sent'
BY DEF ProxyStarted, Types

\* A buffered request stays in the queue, or is sent.
LEMMA RequestsStay == ASSUME Types, [Next]_vars PROVE \A k \in Nodes : queue[k] \subseteq queue'[k] \cup sent'
<1>1. CASE UNCHANGED queue BY <1>1
<1>2. ASSUME NEW n \in Nodes, NEW m, ProxyStarted(n, m) PROVE \A k \in Nodes : queue[k] \subseteq queue'[k] \cup sent'
      BY <1>2, ProxySends
<1>3. ASSUME NEW n \in Nodes, NEW r, Deliver(n, r) PROVE \A k \in Nodes : queue[k] \subseteq queue'[k]
  <2>1. queue \in [Nodes -> SUBSET Requests] BY DEF Types
  <2>2. queue' = queue \/ queue' = [queue EXCEPT ![n] = @ \cup {r}] BY <1>3 DEF Deliver
  <2> QED BY <2>1, <2>2
<1>4. CASE Environment
  <2>1. ASSUME NEW n \in Nodes, Join(n) \/ Crash(n) PROVE UNCHANGED queue BY <2>1 DEF Join, Crash, proxies
  <2>2. ASSUME NEW n \in Nodes, NEW m \in Nodes, Suspect(n, m) \/ Trust(n, m) PROVE UNCHANGED queue
        BY <2>2 DEF Suspect, Trust, proxies
  <2> QED BY <1>1, <1>3, <1>4, <2>1, <2>2 DEF Environment
<1>5. CASE Detect BY <1>1, <1>5 DEF Detect, Learn, Forget, Suspect, proxies
<1>6. ASSUME NEW n \in Nodes, Handle(n) PROVE \A k \in Nodes : queue[k] \subseteq queue'[k] \cup sent'
  <2>1. CASE HandleNews(n) \/ ActorStarted(n) BY <1>1, <2>1 DEF HandleNews, ActorStarted, proxies
  <2>2. CASE ActorStartResult(n) BY <1>2, <2>2 DEF ActorStartResult
  <2>3. ASSUME NEW m, SingletonStarted(n, m) PROVE \A k \in Nodes : queue[k] \subseteq queue'[k] \cup sent'
        BY <1>2, <2>3 DEF SingletonStarted
  <2>4. ASSUME NEW m, RequestLease(n, m) \/ LeaseAck(n, m) \/ SingletonStopped(n, m) PROVE UNCHANGED queue
        BY <2>4 DEF RequestLease, LeaseAck, SingletonStopped, ProxyStopping, proxies
  <2> QED BY <1>1, <1>6, <2>1, <2>2, <2>3, <2>4 DEF Handle
<1>7. ASSUME NEW a \in actors, ActorStopped(a) PROVE UNCHANGED queue BY <1>7 DEF ActorStopped, proxies
<1>8. CASE UNCHANGED vars BY <1>1, <1>8 DEF vars, proxies
<1> QED BY <1>1, <1>4, <1>5, <1>6, <1>7, <1>8 DEF Next

-----------------------------------------------------------------------------
(* The theorems, with the library's facts about numbers and finite sets. *)

INSTANCE FiniteSetTheorems
INSTANCE WellFoundedInduction

\* The least number of a set.
LEMMA MinIs ==
    ASSUME NEW S \in SUBSET Nat, S # {}
    PROVE  Min(S) \in S /\ \A y \in S : Min(S) <= y
<1>1. PICK R : R = OpToRel(<, Nat) OBVIOUS
<1>2. IsWellFoundedOn(R, Nat) BY <1>1, NatLessThanWellFounded
<1>3. \A x, y \in Nat : x < y => <<x, y>> \in R BY <1>1 DEF OpToRel
<1>4. PICK x \in S : \A y \in S : <<y, x>> \notin R BY <1>2, WFMin
<1>5. ASSUME NEW y \in S PROVE x <= y
  <2>1. x \in Nat /\ y \in Nat OBVIOUS
  <2>2. ~(y < x) BY <1>3, <1>4, <2>1
  <2> QED BY SMTT(30), <2>1, <2>2
<1> QED BY <1>5 DEF Min


\* What the steps use: NodesAssumption makes the nodes a finite set of numbers.
LEMMA FactsHold == Ordered /\ Counting
<1>1. Ordered
  <2>1. ASSUME NEW S \in SUBSET Nodes, S # {} PROVE Min(S) \in S /\ \A y \in S : Min(S) <= y
    <3>1. S \in SUBSET Nat BY NodesAssumption
    <3> QED BY <2>1, <3>1, MinIs
  <2> QED BY <2>1 DEF Ordered
<1>2. Counting
  <2>1. ASSUME NEW S \in SUBSET Nodes, NEW T \in SUBSET Nodes, S \subseteq T, Cardinality(S) = Cardinality(T) PROVE S = T
    <3>1. IsFiniteSet(T) BY NodesAssumption, FS_Subset
    <3> QED BY <2>1, <3>1, FS_Subset
  <2> QED BY <2>1 DEF Counting
<1> QED BY <1>1, <1>2

\* The state of the managers, the lease and the cluster is consistent in every
\* behaviour, for any nodes, initial clusters and interleaving of their steps.
THEOREM SingletonInvariance == Spec => []IInv
<1>1. Init => IInv BY FactsHold, InitIInv
<1>2. IInv /\ [Next]_vars => IInv' BY FactsHold, NextIInv
<1> QED BY <1>1, <1>2, PTL DEF Spec

\* No two nodes run the singleton while no running node is suspected; nor with
\* suspicions, if managers know each other from the beginning and none has
\* started the actor once more while start_actor was under way.
THEOREM OneNodeRuns == Spec => []OneNode
<1>1. IInv => OneNode BY InvOneNode
<1> QED BY <1>1, SingletonInvariance, PTL

\* No step of any node takes a request out of a proxy's queue without sending it
\* to a singleton actor.
THEOREM ProxiesKeepRequests == Spec => ProxyKeepsRequests
<1>1. IInv /\ [Next]_vars => [\A n \in Nodes : queue[n] \subseteq queue'[n] \cup sent']_vars
  <2>1. IInv => Types BY DEF IInv, Base
  <2> QED BY <2>1, RequestsStay
<1> QED BY <1>1, SingletonInvariance, PTL DEF Spec, ProxyKeepsRequests
=============================================================================
