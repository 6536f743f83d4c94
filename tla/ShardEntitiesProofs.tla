------------------------ MODULE ShardEntitiesProofs -------------------------
(***************************************************************************)
(* Proofs about ShardEntities: that an entity has one actor in every       *)
(* incarnation of its shard, and that it is in the journal before it runs, *)
(* for any entities, requests and scenarios and any number of restarts and *)
(* crashes.                                                                *)
(***************************************************************************)
EXTENDS ShardEntities, TLAPS

\* Few steps need arithmetic or sequences; those name the SMT solver.
USE Zenon

\* What start tasks and actors there are.
Started == actors \cup starts

\* They are of this incarnation of the shard or of an earlier one, ...
OfItsTime ==
    /\ incarnation \in Nat
    /\ \A a \in Started : a[2] \in Nat /\ a[2] <= incarnation

\* ... those of this one belong to entities that the shard knows, and whose
\* start it is not about to write to the journal, ...
Known ==
    /\ persisting # {} => shard = "up" /\ persisting \subseteq DOMAIN entities
    /\ shard = "up" => \A a \in Started : a[2] = incarnation =>
                           a[1] \in DOMAIN entities /\ a[1] \notin persisting

\* ... and an entity has one of either kind.
OneStart == \A a, b \in Started : a[1] = b[1] /\ a[2] = b[2] => a = b

IInv == OfItsTime /\ Known /\ OneStart /\ StartedIsPersisted

-----------------------------------------------------------------------------
(* The initial state: nothing has been started.                             *)
LEMMA InitIInv == Init => IInv
BY SMT DEF Init, IInv, Started, OfItsTime, Known, OneStart, StartedIsPersisted

(* A step that starts nothing keeps the invariant: one that leaves the      *)
(* shard's incarnation, its journal and the entities that it knows alone.   *)
LEMMA FewerKeep ==
    ASSUME IInv, Started' \subseteq Started,
           UNCHANGED <<persistent, journal, shard, incarnation, persisting>>,
           DOMAIN entities' = DOMAIN entities
    PROVE  IInv'
<1>1. OfItsTime' /\ OneStart' BY DEF IInv, OfItsTime, OneStart
<1>2. Known' BY DEF IInv, Known
<1>3. StartedIsPersisted' BY DEF IInv, StartedIsPersisted, Started
<1> QED BY <1>1, <1>2, <1>3 DEF IInv

(* One more start task, of an entity that has none in this incarnation.     *)
LEMMA OneMoreKeeps ==
    ASSUME IInv, shard = "up", NEW e, NEW n,
           \A a \in Started : a[2] = incarnation => a[1] # e,
           actors' = actors, starts' = starts \cup {<<e, incarnation, n>>},
           UNCHANGED <<persistent, shard, incarnation>>,
           persisting' = {}, DOMAIN entities' = DOMAIN entities \cup {e},
           journal \subseteq journal', persistent => e \in journal'
    PROVE  IInv'
<1> PICK b : b = <<e, incarnation, n>> OBVIOUS
<1>1. b[1] = e /\ b[2] = incarnation OBVIOUS
<1>2. Started' = Started \cup {b} BY DEF Started
<1>3. OfItsTime' BY SMT, <1>1, <1>2 DEF IInv, OfItsTime
<1>4. Known' BY <1>1, <1>2 DEF IInv, Known
<1>5. OneStart' BY SMT, <1>1, <1>2 DEF IInv, OneStart
<1>6. StartedIsPersisted' BY <1>1, <1>2 DEF IInv, StartedIsPersisted, Started
<1> QED BY <1>3, <1>4, <1>5, <1>6 DEF IInv

(* What NewActor makes is of the entity and of this incarnation.            *)
LEMMA NewActorIs ==
    ASSUME NEW e
    PROVE  \E n : NewActor(e) = <<e, incarnation, n>>
BY DEF NewActor

-----------------------------------------------------------------------------
(* The actions.                                                             *)

(* A request starts its entity only if the shard does not know it.          *)
LEMMA EntityRequestIInv ==
    ASSUME IInv, shard = "up", persisting = {}, NEW r, EntityRequest(r),
           UNCHANGED <<persistent, journal, shard, incarnation, actors>>
    PROVE  IInv'
<1> PICK e : e = kind[r].entity OBVIOUS
<1>1. CASE Buffer(r)
  <2>1. DOMAIN entities' = DOMAIN entities /\ starts' = starts /\ persisting' = persisting
        BY <1>1 DEF Buffer, tasks
  <2> QED BY <2>1, FewerKeep DEF Started
<1>2. CASE Direct(r) BY <1>2, FewerKeep DEF Direct, Started
<1>3. CASE /\ e \notin DOMAIN entities
           /\ entities' = Insert(entities, e, Entity("Starting", <<r>>, <<>>))
           /\ StartEntity(e)
  <2>1. DOMAIN entities' = DOMAIN entities \cup {e} BY <1>3 DEF Insert
  <2>2. \A a \in Started : a[2] = incarnation => a[1] # e BY <1>3 DEF IInv, Known
  <2>3. CASE persistent
    <3>1. persisting' = {e} /\ starts' = starts BY <1>3, <2>3 DEF StartEntity
    <3>2. Started' = Started BY <3>1 DEF Started
    <3>3. OfItsTime' /\ OneStart' /\ StartedIsPersisted'
          BY <3>2 DEF IInv, OfItsTime, OneStart, StartedIsPersisted, Started
    <3>4. Known' BY <3>1, <3>2, <2>1, <2>2 DEF IInv, Known
    <3> QED BY <3>3, <3>4 DEF IInv
  <2>4. CASE ~persistent
    <3>1. PICK n : NewActor(e) = <<e, incarnation, n>> BY NewActorIs
    <3>2. persisting' = {} /\ starts' = starts \cup {<<e, incarnation, n>>}
          BY <1>3, <2>4, <3>1 DEF StartEntity
    <3> QED BY <2>1, <2>2, <2>4, <3>2, OneMoreKeeps
  <2> QED BY <2>3, <2>4
<1>4. CASE UNCHANGED <<entities, children, persisting, tasks>>
      BY <1>4, FewerKeep DEF Started, tasks
<1> QED BY <1>1, <1>2, <1>3, <1>4 DEF EntityRequest

(* A message to the shard.                                                  *)
LEMMA HandleIInv == IInv /\ Handle => IInv'
<1> SUFFICES ASSUME IInv, Handle PROVE IInv' OBVIOUS
<1> PICK m : m = Head(mailbox) OBVIOUS
<1>0. /\ shard = "up" /\ persisting = {}
      /\ UNCHANGED <<persistent, journal, shard, incarnation>>
      BY DEF Handle, input
<1>1. CASE EntityRequest(m.of) /\ UNCHANGED <<running, failed>>
      BY <1>0, <1>1, EntityRequestIInv DEF running
<1>2. CASE EntityStarted(m.of)
  <2>1. DOMAIN entities' = DOMAIN entities BY <1>2 DEF EntityStarted
  <2> QED BY <1>0, <1>2, <2>1, FewerKeep DEF EntityStarted, Started
<1>3. CASE EntityStartFailed(m.of)
      BY <1>0, <1>3, FewerKeep DEF EntityStartFailed, Started, tasks, running
<1>4. CASE ChildTerminated(m.of)
      BY <1>0, <1>4, FewerKeep DEF ChildTerminated, Started, tasks, running
<1> QED BY <1>1, <1>2, <1>3, <1>4 DEF Handle

(* The start of an entity is written to the journal, and then begins.       *)
LEMMA PersistIInv == IInv /\ Persist => IInv'
<1> SUFFICES ASSUME IInv, Persist PROVE IInv' OBVIOUS
<1> USE DEF Persist, input, running
<1> DEFINE New == {NewActor(e) : e \in persisting}
<1>a. \A e : NewActor(e)[1] = e /\ NewActor(e)[2] = incarnation
  <2> TAKE e
  <2> PICK n : NewActor(e) = <<e, incarnation, n>> BY NewActorIs
  <2> QED BY SMT
<1>0. \A b \in New : b[1] \in persisting /\ b[2] = incarnation BY <1>a
<1>1. Started' = Started \cup New BY DEF Started
<1>2. shard = "up" /\ persisting \subseteq DOMAIN entities BY DEF IInv, Known
<1>3. \A a \in Started : a[2] = incarnation => a[1] \notin persisting BY <1>2 DEF IInv, Known
<1>4. \A b, c \in New : b[1] = c[1] => b = c BY SMT, <1>a
<1> HIDE DEF New
<1>5. OfItsTime' BY SMT, <1>0, <1>1 DEF IInv, OfItsTime
<1>6. Known' BY <1>0, <1>1, <1>2 DEF IInv, Known
<1>7. OneStart' BY SMT, <1>0, <1>1, <1>3, <1>4 DEF IInv, OneStart
<1>8. StartedIsPersisted'
  <2>1. \A a \in New : a[1] \in journal' BY <1>0
  <2> QED BY <1>1, <2>1 DEF IInv, StartedIsPersisted, Started
<1> QED BY <1>5, <1>6, <1>7, <1>8 DEF IInv

(* Recovery starts the entities of the journal, once each, and as the       *)
(* first of the new incarnation.                                            *)
LEMMA StartIInv == IInv /\ Start => IInv'
<1> SUFFICES ASSUME IInv, Start PROVE IInv' OBVIOUS
<1> USE DEF Start, input, running
<1> DEFINE New == {<<e, incarnation + 1, 0>> : e \in journal}
<1>0. \A b \in New : b[1] \in journal /\ b[2] = incarnation + 1 BY SMT
<1>1. Started' = Started \cup New BY DEF Started
<1>2. persisting = {} /\ persisting' = {} BY DEF IInv, Known
<1>3. \A a \in Started : a[2] \in Nat /\ a[2] <= incarnation BY DEF IInv, OfItsTime
<1>4. \A b, c \in New : b[1] = c[1] => b = c BY SMT
<1>5. incarnation \in Nat BY DEF IInv, OfItsTime
<1>6. DOMAIN entities' = journal OBVIOUS
<1> HIDE DEF New
<1>7. OfItsTime' BY SMT, <1>0, <1>1, <1>3, <1>5 DEF OfItsTime
<1>8. Known' BY SMT, <1>0, <1>1, <1>2, <1>3, <1>5, <1>6 DEF Known
<1>9. OneStart' BY SMT, <1>0, <1>1, <1>3, <1>4, <1>5 DEF IInv, OneStart
<1>10. StartedIsPersisted' BY <1>0, <1>1 DEF IInv, StartedIsPersisted, Started
<1> QED BY <1>7, <1>8, <1>9, <1>10 DEF IInv

(* The tasks: an actor is created from its start task, and both end.        *)
LEMMA TaskIInv ==
    ASSUME IInv,
           \/ \E a \in starts : Create(a) \/ CreateFails(a) \/ Created(a)
           \/ \E a \in actors : EntityStops(a)
           \/ \E d \in direct : Serve(d)
           \/ \E r \in Requests : NotifyOrigin(r)
    PROVE  IInv'
<1> USE DEF input, shard_state, running, tasks
<1>1. ASSUME NEW a \in starts, Create(a) PROVE IInv'
      BY <1>1, FewerKeep DEF Create, Started
<1>2. ASSUME NEW a \in starts, CreateFails(a) PROVE IInv'
      BY <1>2, FewerKeep DEF CreateFails, Started
<1>3. ASSUME NEW a \in starts, Created(a) PROVE IInv'
      BY <1>3, FewerKeep DEF Created, Started
<1>4. ASSUME NEW a \in actors, EntityStops(a) PROVE IInv'
      BY <1>4, FewerKeep DEF EntityStops, Started
<1>5. ASSUME NEW d \in direct, Serve(d) PROVE IInv'
      BY <1>5, FewerKeep DEF Serve, Started
<1>6. ASSUME NEW r \in Requests, NotifyOrigin(r) PROVE IInv'
      BY <1>6, FewerKeep DEF NotifyOrigin, Started
<1> QED BY <1>1, <1>2, <1>3, <1>4, <1>5, <1>6

(* A shard that goes down forgets its entities; a crash ends their actors,  *)
(* a stop leaves the tasks and actors of this incarnation behind.           *)
LEMMA DownIInv == IInv /\ (HandleStop \/ Crash) => IInv'
<1> SUFFICES ASSUME IInv, HandleStop \/ Crash PROVE IInv' OBVIOUS
<1>1. shard' = "down" /\ persisting' = {} /\ incarnation' = incarnation /\ persistent' = persistent
      BY DEF HandleStop, Crash, input
<1>2. journal \subseteq journal' BY DEF HandleStop, Crash
<1>3. Started' \subseteq Started BY DEF HandleStop, Crash, Started, tasks
<1>4. OfItsTime' /\ OneStart' BY <1>1, <1>3 DEF IInv, OfItsTime, OneStart
<1>5. Known' BY <1>1 DEF Known
<1>6. StartedIsPersisted' BY <1>1, <1>2, <1>3 DEF IInv, StartedIsPersisted, Started
<1> QED BY <1>4, <1>5, <1>6 DEF IInv

(* The invariant is inductive.                                              *)
LEMMA NextIInv == IInv /\ [Next]_vars => IInv'
<1> SUFFICES ASSUME IInv, [Next]_vars PROVE IInv' OBVIOUS
<1> USE DEF input, shard_state, running, tasks
<1>1. CASE StopShard BY <1>1, FewerKeep DEF StopShard, Started
<1>2. ASSUME NEW r \in Requests, Send(r) PROVE IInv' BY <1>2, FewerKeep DEF Send, Started
<1>3. ASSUME NEW a \in stops, EntityStops(a) PROVE IInv' BY <1>3, TaskIInv DEF EntityStops
<1>4. CASE UNCHANGED vars BY <1>4, FewerKeep DEF vars, Started
<1> HIDE DEF input, shard_state, running, tasks
<1> QED BY <1>1, <1>2, <1>3, <1>4, HandleIInv, PersistIInv, StartIInv, TaskIInv, DownIInv
        DEF Next, TaskStep

-----------------------------------------------------------------------------
(* The theorems.                                                            *)

(* The invariant holds in every reachable state.                            *)
THEOREM EntitiesInvariance == Spec => []IInv
BY InitIInv, NextIInv, PTL DEF Spec

(* An entity runs at most once in an incarnation of its shard: a request    *)
(* starts an entity only if it is not in the shard's map, and recovery is   *)
(* the first to start any.                                                  *)
THEOREM EntitiesRunOnce == Spec => []OneActorPerEntity
<1>1. IInv => OneActorPerEntity BY DEF IInv, OneStart, Started, OneActorPerEntity
<1> QED BY <1>1, EntitiesInvariance, PTL

(* With persistent entities no actor runs, and no task to start one exists, *)
(* before the entity is in the shard's journal, whatever restarts, crashes  *)
(* and interrupted writes came before.                                      *)
THEOREM EntitiesAreRecorded == Spec => []StartedIsPersisted
<1>1. IInv => StartedIsPersisted BY DEF IInv
<1> QED BY <1>1, EntitiesInvariance, PTL

-----------------------------------------------------------------------------
(* Requests to entities implement Calls: where a request can be.            *)

IsRequest(m) == m.type = "EntityRequest"
InMailbox == {mailbox[i].of : i \in {i \in DOMAIN mailbox : IsRequest(mailbox[i])}}
InBuffers == UNION {Range(entities[e].buffer) : e \in DOMAIN entities}
InTasks == {d[1] : d \in direct}

InPlace == InMailbox \cup InBuffers \cup InTasks

(* The mailbox: a request is in it once, and a start that has succeeded is  *)
(* of an entity that the shard knows.                                       *)
MailboxOk ==
    /\ \E S : mailbox \in Seq(S)
    /\ \A i \in DOMAIN mailbox :
         /\ IsRequest(mailbox[i]) => mailbox[i].of \in Requests
         /\ mailbox[i].type = "EntityStartResult" => mailbox[i].of[1] \in DOMAIN entities
    /\ \A i, j \in DOMAIN mailbox :
         IsRequest(mailbox[i]) /\ IsRequest(mailbox[j]) /\ mailbox[i].of = mailbox[j].of => i = j

(* A request is in the mailbox, or buffered for its entity, or has a task   *)
(* of its own: in one place only, ...                                       *)
PlacesOk ==
    /\ \A e \in DOMAIN entities : entities[e].buffer \in Seq(Requests)
    /\ \A d \in direct : d[1] \in Requests
    /\ \A e \in DOMAIN entities : \A r \in Range(entities[e].buffer) : kind[r].entity = e
    /\ \A c, d \in direct : c[1] = d[1] => c = d
    /\ InMailbox \cap InBuffers = {} /\ InMailbox \cap InTasks = {} /\ InBuffers \cap InTasks = {}

(* ... and nobody has answered it.                                          *)
Unanswered(r) == outcome[r] = "waiting" /\ channel[r] = "none"

AnswersOk ==
    /\ outcome \in [Requests -> {"unsent", "waiting", "ok", "err"}]
    /\ channel \in [Requests -> {"none", "ok", "err"}]
    /\ \A r \in InPlace : Unanswered(r)
    /\ \A r \in Requests : outcome[r] = "unsent" => channel[r] = "none"

CInv == MailboxOk /\ PlacesOk /\ AnswersOk

-----------------------------------------------------------------------------
(* The mailbox, entry by entry.                                             *)

\* The entries of a sequence after an append are the old ones and the new one.
LEMMA AppendEntries ==
    ASSUME NEW S, NEW s \in Seq(S), NEW x
    PROVE  /\ \E T : Append(s, x) \in Seq(T)
           /\ DOMAIN Append(s, x) = DOMAIN s \cup {Len(s) + 1}
           /\ Len(s) + 1 \notin DOMAIN s
           /\ \A i \in DOMAIN s : Append(s, x)[i] = s[i]
           /\ Append(s, x)[Len(s) + 1] = x
<1> PICK T : T = S \cup {x} OBVIOUS
<1>1. s \in Seq(T) /\ x \in T BY SMT
<1>2. Append(s, x) \in Seq(T) BY SMT, <1>1
<1> QED BY SMT, <1>2

\* The entries of a tail are the old ones, one place earlier.
LEMMA TailEntries ==
    ASSUME NEW S, NEW s \in Seq(S), s # <<>>
    PROVE  /\ Tail(s) \in Seq(S)
           /\ 1 \in DOMAIN s /\ Head(s) = s[1]
           /\ \A i \in DOMAIN Tail(s) : i + 1 \in DOMAIN s /\ i + 1 # 1 /\ Tail(s)[i] = s[i + 1]
           /\ \A i, j \in DOMAIN Tail(s) : i + 1 = j + 1 => i = j
           /\ \A i \in DOMAIN s : i = 1 \/ \E j \in DOMAIN Tail(s) : i = j + 1
<1>1. \A i \in DOMAIN s : i = 1 \/ (i - 1 \in DOMAIN Tail(s) /\ i = (i - 1) + 1) BY SMT
<1> QED BY SMT, <1>1

(* The members of a sequence to which one is added.                         *)
LEMMA AppendMembers ==
    ASSUME NEW S, NEW s \in Seq(S), NEW x \in S
    PROVE  Append(s, x) \in Seq(S) /\ Range(Append(s, x)) = Range(s) \cup {x}
<1>1. /\ Append(s, x) \in Seq(S)
      /\ DOMAIN Append(s, x) = DOMAIN s \cup {Len(s) + 1}
      /\ \A i \in DOMAIN s : Append(s, x)[i] = s[i]
      /\ Append(s, x)[Len(s) + 1] = x
      BY SMT
<1> QED BY <1>1 DEF Range

(* A message that is no request arrives.                                    *)
LEMMA MailboxNotified ==
    ASSUME MailboxOk, NEW m, ~IsRequest(m), m.type = "EntityStartResult" => m.of[1] \in DOMAIN entities,
           mailbox' \in {mailbox, Append(mailbox, m)}, DOMAIN entities' = DOMAIN entities
    PROVE  MailboxOk' /\ InMailbox' = InMailbox
<1>0. PICK S : mailbox \in Seq(S) BY DEF MailboxOk
<1>1. /\ \E T : mailbox' \in Seq(T)
      /\ DOMAIN mailbox \subseteq DOMAIN mailbox'
      /\ \A i \in DOMAIN mailbox : mailbox'[i] = mailbox[i]
      /\ \A i \in DOMAIN mailbox' : i \in DOMAIN mailbox \/ mailbox'[i] = m
  <2>1. \E T : Append(mailbox, m) \in Seq(T) BY <1>0, AppendEntries, Zenon
  <2>2. /\ DOMAIN Append(mailbox, m) = DOMAIN mailbox \cup {Len(mailbox) + 1}
        /\ \A i \in DOMAIN mailbox : Append(mailbox, m)[i] = mailbox[i]
        /\ Append(mailbox, m)[Len(mailbox) + 1] = m
        BY <1>0, AppendEntries, Zenon
  <2>3. \E T : mailbox' \in Seq(T) BY <1>0, <2>1, Zenon
  <2> QED BY <2>2, <2>3
<1>2. MailboxOk' BY <1>1 DEF MailboxOk
<1>3. InMailbox' = InMailbox BY <1>1 DEF InMailbox
<1> QED BY <1>2, <1>3

(* A request arrives that is not in the mailbox yet.                        *)
LEMMA MailboxRequested ==
    ASSUME MailboxOk, NEW m, IsRequest(m), m.of \in Requests \ InMailbox,
           mailbox' = Append(mailbox, m), DOMAIN entities' = DOMAIN entities
    PROVE  MailboxOk' /\ InMailbox' = InMailbox \cup {m.of}
<1>0. PICK S : mailbox \in Seq(S) BY DEF MailboxOk
<1>1. PICK n : n = Len(mailbox) + 1 OBVIOUS
<1>2. /\ \E T : mailbox' \in Seq(T)
      /\ DOMAIN mailbox' = DOMAIN mailbox \cup {n} /\ n \notin DOMAIN mailbox
      /\ \A i \in DOMAIN mailbox : mailbox'[i] = mailbox[i]
      /\ mailbox'[n] = m
  <2>1. \E T : Append(mailbox, m) \in Seq(T) BY <1>0, AppendEntries, Zenon
  <2>2. /\ DOMAIN Append(mailbox, m) = DOMAIN mailbox \cup {Len(mailbox) + 1}
        /\ Len(mailbox) + 1 \notin DOMAIN mailbox
        /\ \A i \in DOMAIN mailbox : Append(mailbox, m)[i] = mailbox[i]
        /\ Append(mailbox, m)[Len(mailbox) + 1] = m
        BY <1>0, AppendEntries, Zenon
  <2>3. \E T : mailbox' \in Seq(T) BY <2>1, Zenon
  <2> QED BY <1>1, <2>2, <2>3
<1>3. \A i \in DOMAIN mailbox : IsRequest(mailbox[i]) => mailbox[i].of # m.of BY DEF InMailbox
<1>4. MailboxOk'
  <2>1. \A i, j \in DOMAIN mailbox' :
           IsRequest(mailbox'[i]) /\ IsRequest(mailbox'[j]) /\ mailbox'[i].of = mailbox'[j].of => i = j
        BY SMT, <1>2, <1>3 DEF MailboxOk
  <2> QED BY <1>2, <2>1 DEF MailboxOk, IsRequest
<1>5. InMailbox' = InMailbox \cup {m.of} BY SMT, <1>2 DEF InMailbox
<1> QED BY <1>4, <1>5

(* The first message is taken.                                              *)
LEMMA MailboxTaken ==
    ASSUME MailboxOk, mailbox # <<>>, mailbox' = Tail(mailbox), NEW h, h = Head(mailbox),
           DOMAIN entities \subseteq DOMAIN entities'
    PROVE  /\ MailboxOk'
           /\ InMailbox' = IF IsRequest(h) THEN InMailbox \ {h.of} ELSE InMailbox
           /\ IsRequest(h) => h.of \in Requests \cap InMailbox
           /\ h.type = "EntityStartResult" => h.of[1] \in DOMAIN entities
<1>0. PICK S : mailbox \in Seq(S) BY DEF MailboxOk
<1>1. /\ mailbox' \in Seq(S)
      /\ 1 \in DOMAIN mailbox /\ h = mailbox[1]
      /\ \A i \in DOMAIN mailbox' :
             i + 1 \in DOMAIN mailbox /\ i + 1 # 1 /\ mailbox'[i] = mailbox[i + 1]
      /\ \A i, j \in DOMAIN mailbox' : i + 1 = j + 1 => i = j
      /\ \A i \in DOMAIN mailbox : i = 1 \/ \E j \in DOMAIN mailbox' : i = j + 1
      BY SMT, <1>0, TailEntries
<1>2. MailboxOk'
  <2>1. \A i \in DOMAIN mailbox' :
         /\ IsRequest(mailbox'[i]) => mailbox'[i].of \in Requests
         /\ mailbox'[i].type = "EntityStartResult" => mailbox'[i].of[1] \in DOMAIN entities'
        BY SMT, <1>1 DEF MailboxOk
  <2>2. ASSUME NEW i \in DOMAIN mailbox', NEW j \in DOMAIN mailbox',
               IsRequest(mailbox'[i]), IsRequest(mailbox'[j]), mailbox'[i].of = mailbox'[j].of
        PROVE  i = j
    <3>1. i + 1 = j + 1 BY SMT, <1>1, <2>2 DEF MailboxOk
    <3> QED BY <1>1, <3>1
  <2> QED BY <1>1, <2>1, <2>2 DEF MailboxOk, IsRequest
<1>3. \A r : r \in InMailbox' <=> \E i \in DOMAIN mailbox : i # 1 /\ IsRequest(mailbox[i]) /\ mailbox[i].of = r
  <2>1. \A r : r \in InMailbox' <=> \E i \in DOMAIN mailbox' : IsRequest(mailbox'[i]) /\ mailbox'[i].of = r
        BY DEF InMailbox, IsRequest
  <2> QED BY SMT, <1>1, <2>1
<1>4. \A r : r \in InMailbox <=> \E i \in DOMAIN mailbox : IsRequest(mailbox[i]) /\ mailbox[i].of = r
      BY DEF InMailbox
<1>5. IsRequest(h) => \A i \in DOMAIN mailbox : i # 1 /\ IsRequest(mailbox[i]) => mailbox[i].of # h.of
      BY <1>1 DEF MailboxOk
<1>6. InMailbox' = IF IsRequest(h) THEN InMailbox \ {h.of} ELSE InMailbox
  <2>1. CASE IsRequest(h)
    <3>1. \A r : r \in InMailbox' <=> r \in InMailbox /\ r # h.of BY SMT, <1>1, <1>3, <1>4, <1>5, <2>1
    <3> QED BY <2>1, <3>1
  <2>2. CASE ~IsRequest(h)
    <3>1. \A r : r \in InMailbox' <=> r \in InMailbox BY SMT, <1>1, <1>3, <1>4, <2>2
    <3> QED BY <2>2, <3>1
  <2> QED BY <2>1, <2>2
<1>7. IsRequest(h) => h.of \in Requests \cap InMailbox BY SMT, <1>1, <1>4 DEF MailboxOk
<1>8. h.type = "EntityStartResult" => h.of[1] \in DOMAIN entities BY <1>1 DEF MailboxOk
<1> QED BY <1>2, <1>6, <1>7, <1>8

-----------------------------------------------------------------------------
(* Places and answers.                                                      *)

(* Whatever is in place is a request.                                       *)
LEMMA InPlaceRequests ==
    ASSUME MailboxOk, PlacesOk
    PROVE  InPlace \subseteq Requests
<1>1. InMailbox \subseteq Requests BY DEF MailboxOk, InMailbox
<1>2. InTasks \subseteq Requests BY DEF PlacesOk, InTasks
<1>3. InBuffers \subseteq Requests
  <2>1. \A e \in DOMAIN entities : Range(entities[e].buffer) \subseteq Requests BY SMT DEF PlacesOk, Range
  <2> QED BY <2>1 DEF InBuffers
<1> QED BY <1>1, <1>2, <1>3 DEF InPlace

(* Nobody is answered, and nothing new is in place.                         *)
LEMMA AnswersKept ==
    ASSUME AnswersOk, InPlace' \subseteq InPlace, UNCHANGED <<channel, outcome>>
    PROVE  AnswersOk'
BY DEF AnswersOk, Unanswered

(* Requests that are in place are answered, and leave it.                   *)
LEMMA AnswersGiven ==
    ASSUME AnswersOk, NEW S, S \subseteq InPlace, InPlace \subseteq Requests,
           NEW result \in {"ok", "err"}, Answer(S, result),
           InPlace' \subseteq InPlace \ S
    PROVE  AnswersOk'
<1>1. \A r \in S : r \in Requests /\ outcome[r] = "waiting" BY DEF AnswersOk, Unanswered
<1>2. /\ outcome' \in [Requests -> {"unsent", "waiting", "ok", "err"}]
      /\ channel' \in [Requests -> {"none", "ok", "err"}]
      BY DEF AnswersOk, Answer
<1>3. \A r \in Requests : r \notin S => outcome'[r] = outcome[r] /\ channel'[r] = channel[r]
      BY DEF Answer
<1>4. \A r \in S : outcome'[r] # "unsent" BY <1>1 DEF Answer
<1>5. \A r \in InPlace' : Unanswered(r)'
  <2> SUFFICES ASSUME NEW r \in InPlace' PROVE Unanswered(r)' OBVIOUS
  <2>1. r \in InPlace /\ r \in Requests /\ r \notin S OBVIOUS
  <2>2. Unanswered(r) BY <2>1 DEF AnswersOk
  <2> QED BY <1>3, <2>1, <2>2 DEF Unanswered
<1> QED BY <1>2, <1>3, <1>4, <1>5 DEF AnswersOk

(* A step of another part: only a message that is no request may arrive.    *)
LEMMA OtherKeeps ==
    ASSUME CInv, NEW m, ~IsRequest(m), m.type = "EntityStartResult" => m.of[1] \in DOMAIN entities,
           mailbox' \in {mailbox, Append(mailbox, m)},
           UNCHANGED <<kind, entities, direct, channel, outcome>>
    PROVE  CInv'
<1>1. MailboxOk' /\ InMailbox' = InMailbox BY MailboxNotified DEF CInv
<1>2. InBuffers' = InBuffers /\ InTasks' = InTasks BY DEF InBuffers, InTasks
<1>3. PlacesOk' BY <1>1, <1>2 DEF CInv, PlacesOk
<1>4. AnswersOk' BY <1>1, <1>2, AnswersKept DEF CInv, InPlace
<1> QED BY <1>1, <1>3, <1>4 DEF CInv

-----------------------------------------------------------------------------
(* The actions.                                                             *)

(* A request leaves the mailbox for the buffer of its entity.               *)
LEMMA BufferedKeeps ==
    ASSUME CInv, mailbox # <<>>, mailbox' = Tail(mailbox),
           NEW r, IsRequest(Head(mailbox)), r = Head(mailbox).of, NEW e, e = kind[r].entity,
           DOMAIN entities' = DOMAIN entities \cup {e},
           entities'[e].buffer \in Seq(Requests),
           Range(entities'[e].buffer) =
               {r} \cup IF e \in DOMAIN entities THEN Range(entities[e].buffer) ELSE {},
           \A x \in DOMAIN entities : x # e => entities'[x] = entities[x],
           UNCHANGED <<kind, direct, channel, outcome>>
    PROVE  CInv'
<1>1. MailboxOk' /\ InMailbox' = InMailbox \ {r} /\ r \in InMailbox BY MailboxTaken DEF CInv
<1>2. InTasks' = InTasks BY DEF InTasks
<1>3. InBuffers' = InBuffers \cup {r}
  <2>1. ASSUME NEW x \in DOMAIN entities
        PROVE  Range(entities[x].buffer) \subseteq Range(entities'[x].buffer)
    <3>1. CASE x = e BY <3>1
    <3>2. CASE x # e
      <4>1. entities'[x] = entities[x] BY <3>2
      <4> QED BY <4>1
    <3> QED BY <3>1, <3>2
  <2>2. ASSUME NEW x \in DOMAIN entities', NEW y \in Range(entities'[x].buffer)
        PROVE  y = r \/ (x \in DOMAIN entities /\ y \in Range(entities[x].buffer))
    <3>1. CASE x = e BY <3>1
    <3>2. CASE x # e
      <4>1. x \in DOMAIN entities /\ entities'[x] = entities[x] BY <3>2
      <4> QED BY <4>1
    <3> QED BY <3>1, <3>2
  <2>3. r \in Range(entities'[e].buffer) /\ e \in DOMAIN entities' OBVIOUS
  <2>4. \A z : z \in InBuffers <=> \E x \in DOMAIN entities : z \in Range(entities[x].buffer)
        BY SMT DEF InBuffers
  <2>5. \A z : z \in InBuffers' <=> \E x \in DOMAIN entities' : z \in Range(entities'[x].buffer)
        BY SMT DEF InBuffers
  <2>6. \A z \in InBuffers \cup {r} : z \in InBuffers' BY ZenonT(30), <2>1, <2>3, <2>4, <2>5
  <2>7. \A z \in InBuffers' : z \in InBuffers \cup {r} BY <2>2, <2>4, <2>5
  <2> QED BY <2>6, <2>7
<1>4. PlacesOk'
  <2>1. \A x \in DOMAIN entities' : entities'[x].buffer \in Seq(Requests) BY DEF CInv, PlacesOk
  <2>2. \A x \in DOMAIN entities' : \A y \in Range(entities'[x].buffer) : kind[y].entity = x
        BY DEF CInv, PlacesOk
  <2> QED BY SMT, <1>1, <1>2, <1>3, <2>1, <2>2 DEF CInv, PlacesOk
<1>5. AnswersOk' BY <1>1, <1>2, <1>3, AnswersKept DEF CInv, InPlace
<1> QED BY <1>1, <1>4, <1>5 DEF CInv

\* Receiving a request keeps every unanswered request in one place.
LEMMA EntityRequestCInv ==
    ASSUME CInv, mailbox # <<>>, mailbox' = Tail(mailbox),
           NEW r, IsRequest(Head(mailbox)), r = Head(mailbox).of, EntityRequest(r), kind' = kind
    PROVE  CInv'
<1> PICK e : e = kind[r].entity OBVIOUS
<1>0. r \in Requests \cap InMailbox BY MailboxTaken DEF CInv, EntityRequest, Buffer, Direct, Insert
<1>1. CASE e \in DOMAIN entities /\ Buffer(r)
  <2> PICK b \in Seq(Requests) : b = entities[e].buffer BY <1>1 DEF CInv, PlacesOk
  <2>1. Append(b, r) \in Seq(Requests) /\ Range(Append(b, r)) = Range(b) \cup {r} BY SMT, <1>0, AppendMembers
  <2>2. /\ DOMAIN entities' = DOMAIN entities
        /\ entities'[e].buffer = Append(b, r)
        /\ \A x \in DOMAIN entities : x # e => entities'[x] = entities[x]
        /\ UNCHANGED <<direct, channel, outcome>>
        BY <1>1 DEF Buffer, Entity, tasks, answers
  <2>3. DOMAIN entities' = DOMAIN entities \cup {e} BY <1>1, <2>2
  <2>4. Range(entities'[e].buffer) =
            {r} \cup IF e \in DOMAIN entities THEN Range(entities[e].buffer) ELSE {}
        BY <1>1, <2>1, <2>2
  <2>5. entities'[e].buffer \in Seq(Requests) BY <2>1, <2>2
  <2> QED BY ZenonT(30), <2>2, <2>3, <2>4, <2>5, BufferedKeeps
<1>2. CASE Direct(r)
  <2> PICK a : a = entities[e].actor OBVIOUS
  <2>1. direct' = direct \cup {<<r, a>>} /\ UNCHANGED <<entities, channel, outcome>>
        BY <1>2 DEF Direct, answers
  <2>2. MailboxOk' /\ InMailbox' = InMailbox \ {r} BY <2>1, MailboxTaken DEF CInv
  <2>3. InTasks' = InTasks \cup {r} /\ InBuffers' = InBuffers
    <3>1. \A d : d \in direct' <=> d \in direct \/ d = <<r, a>> BY <2>1
    <3>2. <<r, a>>[1] = r OBVIOUS
    <3>3. \A x : x \in InTasks' <=> x \in InTasks \/ x = r BY <3>1, <3>2 DEF InTasks
    <3> QED BY <2>1, <3>3 DEF InBuffers
  <2>4. r \notin InTasks BY <1>0 DEF CInv, PlacesOk
  <2>5. \A c, d \in direct' : c[1] = d[1] => c = d
    <3>1. \A c, d \in direct : c[1] = d[1] => c = d BY DEF CInv, PlacesOk
    <3>2. \A c \in direct : c[1] # r BY <2>4 DEF InTasks
    <3>3. <<r, a>>[1] = r OBVIOUS
    <3>4. \A c \in direct' : c \in direct \/ c = <<r, a>> BY <2>1
    <3> QED BY <3>1, <3>2, <3>3, <3>4
  <2>6. PlacesOk'
    <3>1. <<r, a>>[1] = r OBVIOUS
    <3>2. \A d \in direct' : d[1] \in Requests BY <1>0, <2>1, <3>1 DEF CInv, PlacesOk
    <3> QED BY ZenonT(30), <1>0, <2>1, <2>2, <2>3, <2>5, <3>2 DEF CInv, PlacesOk
  <2>7. AnswersOk' BY <1>0, <2>1, <2>2, <2>3, AnswersKept DEF CInv, InPlace
  <2> QED BY <2>2, <2>6, <2>7 DEF CInv
<1>3. CASE /\ e \notin DOMAIN entities
           /\ entities' = Insert(entities, e, Entity("Starting", <<r>>, <<>>))
           /\ UNCHANGED <<direct, answers>>
  <2>1. DOMAIN entities' = DOMAIN entities \cup {e} BY <1>3 DEF Insert
  <2>2. entities'[e].buffer = <<r>> BY <1>3 DEF Insert, Entity
  <2>3. \A x \in DOMAIN entities : x # e => entities'[x] = entities[x] BY <1>3 DEF Insert
  <2>4. <<r>> \in Seq(Requests) /\ Range(<<r>>) = {r} BY SMT, <1>0 DEF Range
  <2>5. Range(entities'[e].buffer) =
            {r} \cup IF e \in DOMAIN entities THEN Range(entities[e].buffer) ELSE {}
        BY <1>3, <2>2, <2>4
  <2>6. entities'[e].buffer \in Seq(Requests) BY <2>2, <2>4
  <2>7. UNCHANGED <<direct, channel, outcome>> BY <1>3 DEF answers
  <2> QED BY <2>1, <2>3, <2>5, <2>6, <2>7, BufferedKeeps
<1>4. CASE Answer({r}, "err") /\ UNCHANGED <<entities, tasks>>
  <2>1. UNCHANGED <<entities, direct>> BY <1>4 DEF tasks
  <2>2. MailboxOk' /\ InMailbox' = InMailbox \ {r} BY <2>1, MailboxTaken DEF CInv
  <2>3. InTasks' = InTasks /\ InBuffers' = InBuffers BY <2>1 DEF InTasks, InBuffers
  <2>4. PlacesOk' BY <2>1, <2>2, <2>3 DEF CInv, PlacesOk
  <2>5. r \notin InTasks /\ r \notin InBuffers BY <1>0 DEF CInv, PlacesOk
  <2>6. InPlace \subseteq Requests BY InPlaceRequests DEF CInv
  <2>7. {r} \subseteq InPlace /\ InPlace' \subseteq InPlace \ {r} BY <1>0, <2>2, <2>3, <2>5 DEF InPlace
  <2>8. AnswersOk' BY <1>4, <2>6, <2>7, AnswersGiven DEF CInv
  <2> QED BY <2>2, <2>4, <2>8 DEF CInv
<1> QED BY <1>1, <1>2, <1>3, <1>4 DEF EntityRequest

(* The buffered requests of an entity get tasks of their own.               *)
LEMMA EntityStartedCInv ==
    ASSUME CInv, mailbox # <<>>, mailbox' = Tail(mailbox), NEW a, a = Head(mailbox).of,
           Head(mailbox).type = "EntityStartResult", EntityStarted(a), kind' = kind
    PROVE  CInv'
<1> PICK e : e = a[1] OBVIOUS
<1> PICK B : B = Range(entities[e].buffer) OBVIOUS
<1>0. /\ entities' = [entities EXCEPT ![e] = Entity("Active", <<>>, a)]
      /\ direct' = direct \cup {<<r, a>> : r \in B}
      /\ UNCHANGED <<channel, outcome>>
      BY DEF EntityStarted, answers
<1>1. DOMAIN entities' = DOMAIN entities BY <1>0
<1>2. MailboxOk' /\ InMailbox' = InMailbox /\ e \in DOMAIN entities
      BY <1>1, MailboxTaken DEF CInv, IsRequest
<1>3. /\ entities'[e].buffer = <<>>
      /\ \A x \in DOMAIN entities : x # e => entities'[x] = entities[x]
      BY <1>0, <1>2 DEF Entity
<1>4. Range(<<>>) = {} /\ <<>> \in Seq(Requests) BY SMT DEF Range
<1>5. B \subseteq InBuffers BY <1>2 DEF InBuffers
<1>6. InBuffers' = InBuffers \ B
  <2>1. \A x, y \in DOMAIN entities : x # y =>
            Range(entities[x].buffer) \cap Range(entities[y].buffer) = {}
        BY DEF CInv, PlacesOk
  <2>2. \A r : r \in InBuffers' <=> \E x \in DOMAIN entities : x # e /\ r \in Range(entities[x].buffer)
        BY <1>1, <1>3, <1>4 DEF InBuffers
  <2>3. \A r : r \in InBuffers <=> \E x \in DOMAIN entities : r \in Range(entities[x].buffer)
        BY DEF InBuffers
  <2> QED BY <1>2, <2>1, <2>2, <2>3
<1>7. InTasks' = InTasks \cup B
  <2>1. \A d : d \in direct' <=> d \in direct \/ \E r \in B : d = <<r, a>> BY <1>0
  <2>2. \A r : <<r, a>>[1] = r OBVIOUS
  <2>3. /\ \A x : x \in InTasks' <=> \E d \in direct' : x = d[1]
        /\ \A x : x \in InTasks <=> \E d \in direct : x = d[1]
        BY DEF InTasks
  <2>4. ASSUME NEW x \in InTasks' PROVE x \in InTasks \cup B
    <3>1. PICK d \in direct' : x = d[1] BY <2>3, <2>4
    <3>2. CASE d \in direct BY <2>3, <3>1, <3>2
    <3>3. CASE \E r \in B : d = <<r, a>> BY <2>2, <3>1, <3>3
    <3> QED BY <2>1, <3>2, <3>3
  <2>5. ASSUME NEW x \in InTasks \cup B PROVE x \in InTasks'
    <3>1. CASE x \in InTasks BY <2>1, <2>3, <3>1
    <3>2. CASE x \in B
      <4>1. <<x, a>> \in direct' /\ <<x, a>>[1] = x BY <2>1, <3>2
      <4> QED BY <2>3, <4>1
    <3> QED BY <2>5, <3>1, <3>2
  <2> QED BY <2>4, <2>5
<1>8. \A c, d \in direct' : c[1] = d[1] => c = d
  <2>1. B \cap InTasks = {} BY <1>5 DEF CInv, PlacesOk
  <2>2. \A d \in direct : d[1] \notin B BY <2>1 DEF InTasks
  <2>3. \A c, d \in direct : c[1] = d[1] => c = d BY DEF CInv, PlacesOk
  <2>4. \A d \in direct' : d \in direct \/ (d[1] \in B /\ d = <<d[1], a>>) BY SMT, <1>0
  <2> QED BY <2>2, <2>3, <2>4
<1>9. PlacesOk'
  <2>1. \A x \in DOMAIN entities' : entities'[x].buffer \in Seq(Requests)
        BY <1>1, <1>3, <1>4 DEF CInv, PlacesOk
  <2>2. \A x \in DOMAIN entities' : \A r \in Range(entities'[x].buffer) : kind[r].entity = x
        BY <1>1, <1>3, <1>4 DEF CInv, PlacesOk
  <2>3. \A d \in direct' : d[1] \in Requests
    <3>1. InPlace \subseteq Requests BY InPlaceRequests DEF CInv
    <3>2. B \subseteq Requests BY <1>5, <3>1 DEF InPlace
    <3> QED BY SMT, <1>0, <3>2 DEF CInv, PlacesOk
  <2> QED BY <1>2, <1>5, <1>6, <1>7, <1>8, <2>1, <2>2, <2>3 DEF CInv, PlacesOk
<1>10. AnswersOk' BY <1>0, <1>2, <1>5, <1>6, <1>7, AnswersKept DEF CInv, InPlace
<1> QED BY <1>2, <1>9, <1>10 DEF CInv

(* What has no effect on requests.                                          *)
LEMMA HandleCInv == ASSUME CInv, Handle PROVE CInv'
<1> PICK m : m = Head(mailbox) OBVIOUS
<1>0. mailbox # <<>> /\ mailbox' = Tail(mailbox) /\ kind' = kind BY DEF Handle, input
<1>1. CASE m.type = "EntityRequest" /\ EntityRequest(m.of)
      BY <1>0, <1>1, EntityRequestCInv DEF IsRequest
<1>2. CASE m.type = "EntityStartResult" /\ EntityStarted(m.of)
      BY <1>0, <1>2, EntityStartedCInv
<1>3. CASE m.type \in {"EntityStartErr", "Terminated"} /\ UNCHANGED <<entities, tasks, answers>>
  <2>1. UNCHANGED <<entities, direct, channel, outcome>> BY <1>3 DEF tasks, answers
  <2>2. MailboxOk' /\ InMailbox' = InMailbox BY <1>0, <1>3, <2>1, MailboxTaken DEF CInv, IsRequest
  <2>3. InTasks' = InTasks /\ InBuffers' = InBuffers BY <2>1 DEF InTasks, InBuffers
  <2>4. PlacesOk' BY <1>0, <2>1, <2>2, <2>3 DEF CInv, PlacesOk
  <2>5. AnswersOk' BY <2>1, <2>2, <2>3, AnswersKept DEF CInv, InPlace
  <2> QED BY <2>2, <2>4, <2>5 DEF CInv
<1> QED BY <1>1, <1>2, <1>3 DEF Handle, EntityStartFailed, ChildTerminated

(* The mailbox and the buffers are emptied.                                 *)
LEMMA NothingHeld ==
    ASSUME mailbox' = <<>>, \A e \in DOMAIN entities' : entities'[e].buffer = <<>>, kind' = kind,
           PlacesOk, direct' \subseteq direct
    PROVE  MailboxOk' /\ PlacesOk' /\ InMailbox' = {} /\ InBuffers' = {} /\ InTasks' \subseteq InTasks
<1>0. DOMAIN mailbox' = {} /\ \E S : mailbox' \in Seq(S)
  <2>1. <<>> \in Seq({}) BY SMT
  <2> QED BY SMT, <2>1
<1>1. MailboxOk' BY <1>0 DEF MailboxOk
<1>2. InMailbox' = {} BY <1>0 DEF InMailbox
<1>3. Range(<<>>) = {} /\ <<>> \in Seq(Requests) BY SMT DEF Range
<1>4. InBuffers' = {} BY <1>3 DEF InBuffers
<1>5. InTasks' \subseteq InTasks BY DEF InTasks
<1>6. PlacesOk' BY <1>2, <1>3, <1>4 DEF PlacesOk
<1> QED BY <1>1, <1>2, <1>4, <1>5, <1>6

(* What a shard that is stopped held is refused.                            *)
LEMMA StopHeld ==
    {m.of : m \in {m \in Range(mailbox) : m.type = "EntityRequest"}} = InMailbox
BY DEF Range, InMailbox, IsRequest

\* The stop of the shard keeps every unanswered request in one place.
LEMMA HandleStopCInv == ASSUME CInv, HandleStop PROVE CInv'
<1> PICK S : S = InMailbox \cup InBuffers OBVIOUS
<1>0. /\ mailbox' = <<>> /\ entities' = <<>> /\ direct' = direct /\ kind' = kind
      /\ Answer(S, "err")
      BY StopHeld DEF HandleStop, tasks, input, InBuffers
<1>1. DOMAIN entities' = {} BY SMT, <1>0
<1>2. MailboxOk' /\ PlacesOk' /\ InMailbox' = {} /\ InBuffers' = {} /\ InTasks' \subseteq InTasks
      BY <1>0, <1>1, NothingHeld DEF CInv
<1>3. S \subseteq InPlace BY DEF InPlace
<1>4. InPlace' \subseteq InPlace \ S BY <1>2 DEF CInv, PlacesOk, InPlace
<1>5. InPlace \subseteq Requests BY InPlaceRequests DEF CInv
<1>6. AnswersOk' BY <1>0, <1>3, <1>4, <1>5, AnswersGiven DEF CInv
<1> QED BY <1>2, <1>6 DEF CInv

\* A start of the shard, or a crash, keeps every unanswered request in one place.
LEMMA StartCrashCInv == ASSUME CInv, Start \/ Crash PROVE CInv'
<1>0. /\ mailbox' = <<>> /\ direct' \subseteq direct /\ kind' = kind /\ UNCHANGED <<channel, outcome>>
      BY DEF Start, Crash, input, answers
<1>1. \A e \in DOMAIN entities' : entities'[e].buffer = <<>>
  <2>1. CASE Start BY <2>1 DEF Start, Entity
  <2>2. CASE Crash
    <3>1. DOMAIN entities' = {} BY SMT, <2>2 DEF Crash
    <3> QED BY <3>1
  <2> QED BY <2>1, <2>2
<1>2. MailboxOk' /\ PlacesOk' /\ InMailbox' = {} /\ InBuffers' = {} /\ InTasks' \subseteq InTasks
      BY <1>0, <1>1, NothingHeld DEF CInv
<1>3. AnswersOk' BY <1>0, <1>2, AnswersKept DEF CInv, InPlace
<1> QED BY <1>2, <1>3 DEF CInv

(* A request is made, served, and its result passed on.                     *)
LEMMA SendCInv == ASSUME CInv, NEW r \in Requests, Send(r) PROVE CInv'
<1> PICK m : m = [type |-> "EntityRequest", of |-> r] OBVIOUS
<1>0. /\ outcome[r] = "unsent" /\ outcome' = [outcome EXCEPT ![r] = "waiting"]
      /\ mailbox' = Append(mailbox, m)
      /\ UNCHANGED <<kind, entities, direct, channel>>
      BY DEF Send, input, tasks
<1>1. IsRequest(m) /\ m.of = r BY DEF IsRequest
<1>2. r \notin InPlace /\ channel[r] = "none" BY <1>0 DEF CInv, AnswersOk, Unanswered
<1>3. MailboxOk' /\ InMailbox' = InMailbox \cup {r}
      BY <1>0, <1>1, <1>2, MailboxRequested DEF CInv, InPlace
<1>4. InTasks' = InTasks /\ InBuffers' = InBuffers BY <1>0 DEF InTasks, InBuffers
<1>5. PlacesOk' BY SMT, <1>0, <1>2, <1>3, <1>4 DEF CInv, PlacesOk, InPlace
<1>6. InPlace' = InPlace \cup {r} BY <1>3, <1>4 DEF InPlace
<1>7. InPlace \subseteq Requests BY InPlaceRequests DEF CInv
<1>8. AnswersOk' BY <1>0, <1>2, <1>6, <1>7 DEF CInv, AnswersOk, Unanswered
<1> QED BY <1>3, <1>5, <1>8 DEF CInv

\* Serving a request keeps every unanswered request in one place.
LEMMA ServeCInv == ASSUME CInv, NEW d \in direct, Serve(d) PROVE CInv'
<1> PICK result \in {"ok", "err"} : result = IF d[2] \in actors THEN "ok" ELSE "err" OBVIOUS
<1> PICK r : r = d[1] OBVIOUS
<1>0. /\ direct' = direct \ {d} /\ Answer({r}, result)
      /\ UNCHANGED <<kind, mailbox, entities>>
      BY DEF Serve, input, shard_state
<1>1. InMailbox' = InMailbox /\ InBuffers' = InBuffers BY <1>0 DEF InMailbox, InBuffers
<1>2. InTasks' = InTasks \ {r} /\ r \in InTasks
  <2>1. \A c \in direct : c[1] = r => c = d BY DEF CInv, PlacesOk
  <2> QED BY <1>0, <2>1 DEF InTasks
<1>3. MailboxOk' BY <1>0 DEF CInv, MailboxOk
<1>4. PlacesOk' BY <1>0, <1>1, <1>2 DEF CInv, PlacesOk
<1>5. InPlace \subseteq Requests BY InPlaceRequests DEF CInv
<1>6. {r} \subseteq InPlace /\ InPlace' \subseteq InPlace \ {r}
      BY <1>1, <1>2 DEF CInv, PlacesOk, InPlace
<1>7. AnswersOk' BY <1>0, <1>5, <1>6, AnswersGiven DEF CInv
<1> QED BY <1>3, <1>4, <1>7 DEF CInv

\* Notifying the origin keeps every unanswered request in one place.
LEMMA NotifyOriginCInv == ASSUME CInv, NEW r \in Requests, NotifyOrigin(r) PROVE CInv'
<1>0. /\ channel[r] # "none" /\ outcome' = [outcome EXCEPT ![r] = channel[r]]
      /\ UNCHANGED <<kind, mailbox, entities, direct, channel>>
      BY DEF NotifyOrigin, input, shard_state, tasks
<1>1. InMailbox' = InMailbox /\ InBuffers' = InBuffers /\ InTasks' = InTasks
      BY <1>0 DEF InMailbox, InBuffers, InTasks
<1>2. MailboxOk' BY <1>0 DEF CInv, MailboxOk
<1>3. PlacesOk' BY <1>0, <1>1 DEF CInv, PlacesOk
<1>4. r \notin InPlace BY <1>0 DEF CInv, AnswersOk, Unanswered
<1>5. InPlace' = InPlace /\ InPlace \subseteq Requests BY <1>1, InPlaceRequests DEF CInv, InPlace
<1>6. channel[r] \in {"ok", "err"} BY <1>0 DEF CInv, AnswersOk
<1>7. AnswersOk' BY <1>0, <1>4, <1>5, <1>6 DEF CInv, AnswersOk, Unanswered
<1> QED BY <1>2, <1>3, <1>7 DEF CInv

\* Every unanswered request is in one place initially.
LEMMA InitCInv == Init => CInv
<1> SUFFICES ASSUME Init PROVE CInv OBVIOUS
<1>0. DOMAIN mailbox = {} /\ DOMAIN entities = {} /\ direct = {} BY SMT DEF Init
<1>1. \E S : mailbox \in Seq(S)
  <2>1. <<>> \in Seq({}) BY SMT
  <2> QED BY <2>1 DEF Init
<1>2. InMailbox = {} /\ InBuffers = {} /\ InTasks = {} BY <1>0 DEF InMailbox, InBuffers, InTasks
<1>3. MailboxOk BY <1>0, <1>1 DEF MailboxOk
<1>4. PlacesOk BY <1>0, <1>2 DEF PlacesOk
<1>5. AnswersOk BY <1>2 DEF Init, AnswersOk, InPlace
<1> QED BY <1>3, <1>4, <1>5 DEF CInv

(* A start task tells the shard of an actor of its incarnation, which is of *)
(* an entity that it knows.                                                 *)
LEMMA NotifyCInv ==
    ASSUME CInv, NEW i, NEW type \in {"EntityStartErr", "EntityStartResult", "Terminated"}, NEW of,
           Notify(i, type, of),
           type = "EntityStartResult" /\ shard = "up" /\ i = incarnation => of[1] \in DOMAIN entities,
           UNCHANGED <<kind, entities, direct, channel, outcome>>
    PROVE  CInv'
<1> PICK m : m = [type |-> type, of |-> of] OBVIOUS
<1> PICK n : n = [type |-> "Stop", of |-> {}] OBVIOUS
<1>1. ~IsRequest(m) /\ m.type = type /\ m.of = of BY DEF IsRequest
<1>2. ~IsRequest(n) /\ n.type = "Stop" BY DEF IsRequest
<1>3. CASE shard = "up" /\ i = incarnation
  <2>1. mailbox' = Append(mailbox, m) BY <1>3 DEF Notify
  <2> QED BY <1>1, <1>3, <2>1, OtherKeeps
<1>4. CASE ~(shard = "up" /\ i = incarnation)
  <2>1. mailbox' = mailbox BY <1>4 DEF Notify
  <2> QED BY <1>2, <2>1, OtherKeeps
<1> QED BY <1>3, <1>4

\* Steps that leave the requests where they are keep CInv.
LEMMA QuietCInv ==
    ASSUME CInv, UNCHANGED <<kind, mailbox, entities, direct, channel, outcome>>
    PROVE  CInv'
<1> PICK n : n = [type |-> "Stop", of |-> {}] OBVIOUS
<1>1. ~IsRequest(n) /\ n.type = "Stop" BY DEF IsRequest
<1> QED BY <1>1, OtherKeeps

\* Every step keeps every unanswered request in one place.
LEMMA NextCInv == IInv /\ CInv /\ [Next]_vars => CInv'
<1> SUFFICES ASSUME IInv, CInv, [Next]_vars PROVE CInv' OBVIOUS
<1> USE DEF input, shard_state, tasks, running, answers
<1>1. CASE Persist BY <1>1, QuietCInv DEF Persist
<1>2. ASSUME NEW a \in starts, Create(a) PROVE CInv' BY <1>2, QuietCInv DEF Create
<1>3. ASSUME NEW a \in starts, CreateFails(a) PROVE CInv' BY <1>3, NotifyCInv DEF CreateFails
<1>4. ASSUME NEW a \in starts, Created(a) PROVE CInv'
  <2>1. shard = "up" /\ a[2] = incarnation => a[1] \in DOMAIN entities BY DEF IInv, Known, Started
  <2> QED BY <1>4, <2>1, NotifyCInv DEF Created
<1>5. ASSUME NEW a, EntityStops(a) PROVE CInv' BY <1>5, NotifyCInv DEF EntityStops
<1>6. CASE StopShard
  <2> PICK n : n = [type |-> "Stop", of |-> {}] OBVIOUS
  <2>1. ~IsRequest(n) /\ n.type = "Stop" BY DEF IsRequest
  <2> QED BY <1>6, <2>1, OtherKeeps DEF StopShard
<1>7. CASE UNCHANGED vars BY <1>7, QuietCInv DEF vars
<1> HIDE DEF input, shard_state, tasks, running, answers
<1> QED BY <1>1, <1>2, <1>3, <1>4, <1>5, <1>6, <1>7, HandleCInv, HandleStopCInv, StartCrashCInv,
           SendCInv, ServeCInv, NotifyOriginCInv DEF Next, TaskStep

-----------------------------------------------------------------------------
(* The steps of Calls.                                                      *)

\* A step that answers nobody leaves the variables of Calls alone.
LEMMA SilentStep == ASSUME CInv, outcome' = outcome PROVE Caller!Next
<1>1. Caller!Reply({})
  <2>1. outcome' = [r \in Requests |-> IF r \in {} THEN "ok" ELSE outcome[r]] BY DEF CInv, AnswersOk
  <2> QED BY <2>1 DEF Caller!Reply, Caller!Become
<1>2. Caller!Fate BY DEF Caller!Fate
<1> QED BY <1>1, <1>2 DEF Caller!Next

(* Those of S whose callers wait at this node get the answer themselves.    *)
LEMMA AnswerStep ==
    ASSUME CInv, NEW S \in SUBSET InPlace, NEW result \in {"ok", "err"}, Answer(S, result),
           result = "err" => \A r \in S : Refusable(r)
    PROVE  Caller!Next
<1> PICK T : T = {r \in S : ~kind[r].remote} OBVIOUS
<1>0. T \in SUBSET Requests BY InPlaceRequests DEF CInv
<1>1. outcome' = [r \in Requests |-> IF r \in T THEN result ELSE outcome[r]] BY DEF Answer
<1>2. \A r \in T : outcome[r] = "waiting" BY DEF CInv, AnswersOk, Unanswered
<1>3. Caller!Fate BY DEF Caller!Fate
<1>4. CASE result = "ok"
  <2>1. Caller!Reply(T) BY <1>1, <1>2, <1>4 DEF Caller!Reply, Caller!Become
  <2> QED BY <1>0, <1>3, <2>1 DEF Caller!Next
<1>5. CASE result = "err"
  <2>1. T \subseteq {r \in Requests : Refusable(r)} BY <1>0, <1>5
  <2>2. Caller!Refuse(T) BY <1>1, <1>2, <1>5, <2>1 DEF Caller!Refuse, Caller!Become
  <2> QED BY <1>0, <1>3, <2>2 DEF Caller!Next
<1> QED BY <1>4, <1>5

\* Passing a request to the shard is a send of Calls.
LEMMA SendStep == ASSUME CInv, NEW r \in Requests, Send(r) PROVE Caller!Next
<1>1. outcome' = [x \in Requests |-> IF x \in {r} THEN "waiting" ELSE outcome[x]]
      BY DEF Send, CInv, AnswersOk
<1>2. Caller!Send(r) BY <1>1 DEF Send, Caller!Send, Caller!Become
<1>3. Caller!Fate BY DEF Caller!Fate
<1> QED BY <1>2, <1>3 DEF Caller!Next

(* The result of a remote request, for its caller.                          *)
LEMMA NotifyOriginStep == ASSUME CInv, NEW r \in Requests, NotifyOrigin(r) PROVE Caller!Next
<1>1. channel[r] \in {"ok", "err"} /\ outcome[r] = "waiting" BY DEF NotifyOrigin, CInv, AnswersOk
<1>2. outcome' = [x \in Requests |-> IF x \in {r} THEN channel[r] ELSE outcome[x]]
      BY DEF NotifyOrigin, CInv, AnswersOk
<1>3. Caller!Fate BY DEF Caller!Fate
<1>4. CASE channel[r] = "ok"
  <2>1. Caller!Reply({r}) BY <1>1, <1>2, <1>4 DEF Caller!Reply, Caller!Become
  <2> QED BY <1>3, <2>1 DEF Caller!Next
<1>5. CASE channel[r] = "err"
  <2>1. {r} \subseteq {x \in Requests : Refusable(x)} BY <1>5 DEF Refusable
  <2>2. Caller!Refuse({r}) BY <1>1, <1>2, <1>5, <2>1 DEF Caller!Refuse, Caller!Become
  <2> QED BY <1>3, <2>2 DEF Caller!Next
<1> QED BY <1>1, <1>4, <1>5

(* The shard refuses a request that it cannot serve, and all that it holds  *)
(* when it is stopped; a task refuses one whose actor is gone.              *)
LEMMA HandleStep == ASSUME CInv, Handle PROVE Caller!Next
<1> PICK r : r = Head(mailbox).of OBVIOUS
<1>0. outcome' = outcome => Caller!Next BY SilentStep
<1>1. CASE Head(mailbox).type = "EntityRequest" /\ EntityRequest(r)
  <2>1. CASE outcome' = outcome BY <1>0, <2>1
  <2>2. CASE /\ kind[r].supported => kind[r].entity \notin DOMAIN entities /\ ~kind[r].recipe
             /\ Answer({r}, "err") /\ UNCHANGED entities
    <3>1. Refusable(r) BY <2>2 DEF Refusable
    <3>2. mailbox # <<>> /\ mailbox' = Tail(mailbox) BY DEF Handle
    <3>3. {r} \in SUBSET InPlace
      <4>1. r \in InMailbox BY <1>1, <2>2, <3>2, MailboxTaken DEF CInv, IsRequest
      <4> QED BY <4>1 DEF InPlace
    <3> QED BY <2>2, <3>1, <3>3, AnswerStep
  <2> QED BY <1>1, <2>1, <2>2 DEF EntityRequest, Buffer, Direct, answers
<1> QED BY <1>0, <1>1 DEF Handle, EntityStarted, EntityStartFailed, ChildTerminated, answers

\* The stop of the shard refuses, for Calls, every request that it still held.
LEMMA HandleStopStep == ASSUME CInv, HandleStop PROVE Caller!Next
<1> PICK S : S = InMailbox \cup InBuffers OBVIOUS
<1>1. Answer(S, "err") BY StopHeld DEF HandleStop, InBuffers
<1>2. S \in SUBSET InPlace BY DEF InPlace
<1>3. \E m \in Range(mailbox) : m.type = "Stop"
  <2>1. mailbox # <<>> /\ Head(mailbox).type = "Stop" BY DEF HandleStop
  <2>2. PICK T : mailbox \in Seq(T) BY DEF CInv, MailboxOk
  <2>3. 1 \in DOMAIN mailbox /\ Head(mailbox) = mailbox[1] BY <2>1, <2>2, TailEntries
  <2> QED BY <2>1, <2>3 DEF Range
<1>4. \A r \in S : Refusable(r) BY <1>3 DEF Refusable
<1> QED BY <1>1, <1>2, <1>4, AnswerStep

\* Serving a request is an answer of Calls.
LEMMA ServeStep == ASSUME CInv, NEW d \in direct, Serve(d) PROVE Caller!Next
<1> PICK result \in {"ok", "err"} : result = IF d[2] \in actors THEN "ok" ELSE "err" OBVIOUS
<1> PICK r : r = d[1] OBVIOUS
<1>1. Answer({r}, result) BY DEF Serve
<1>2. {r} \in SUBSET InPlace BY DEF InPlace, InTasks
<1>3. result = "err" => Refusable(r) BY DEF Refusable
<1> QED BY <1>1, <1>2, <1>3, AnswerStep

\* Every step is a step of Calls, or leaves its variables alone.
LEMMA NextIsCalls == CInv /\ [Next]_vars => [Caller!Next]_(Caller!vars)
<1> SUFFICES ASSUME CInv, [Next]_vars PROVE Caller!Next OBVIOUS
<1>0. outcome' = outcome => Caller!Next BY SilentStep
<1> USE DEF answers
<1>1. ASSUME Persist \/ Start \/ StopShard \/ Crash PROVE Caller!Next
      BY <1>0, <1>1 DEF Persist, Start, StopShard, Crash
<1>2. ASSUME NEW a, Create(a) \/ CreateFails(a) \/ Created(a) \/ EntityStops(a) PROVE Caller!Next
      BY <1>0, <1>2 DEF Create, CreateFails, Created, EntityStops
<1>3. CASE UNCHANGED vars BY <1>0, <1>3 DEF vars
<1> HIDE DEF answers
<1> QED BY <1>1, <1>2, <1>3, HandleStep, HandleStopStep, ServeStep, SendStep, NotifyOriginStep
        DEF Next, TaskStep

(* Every request to an entity is made once and gets at most one answer, and *)
(* it is refused only for one of the reasons of Refusable: ShardEntities    *)
(* implements the safety of Calls, although a request moves between the     *)
(* shard's mailbox, an entity's buffer and tasks while the shard restarts   *)
(* and its node crashes.                                                    *)
THEOREM EntityCallsAreSafe == Spec => Caller!Init /\ [][Caller!Next]_(Caller!vars)
<1>1. Init => Caller!Init BY DEF Init, Caller!Init
<1> QED BY <1>1, InitCInv, NextCInv, NextIsCalls, EntitiesInvariance, PTL DEF Spec
=============================================================================
