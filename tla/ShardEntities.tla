--------------------------- MODULE ShardEntities ----------------------------
(***************************************************************************)
(* One shard and its entities (sharding/shard): a request for an entity    *)
(* that the shard does not know starts it, requests that arrive meanwhile  *)
(* are buffered, and the others go straight to the entity's actor.  With   *)
(* persistent entities the shard notes every start in its journal, and     *)
(* starts those entities again whenever it is itself started.              *)
(*                                                                         *)
(* The shard is an actor with a mailbox.  The start of an entity, a        *)
(* request to one, and the answer to a remote request are tasks of their   *)
(* own.  The shard may be stopped and started again (an incarnation), and  *)
(* its node may crash.                                                     *)
(***************************************************************************)
EXTENDS Naturals, Sequences, FiniteSets, Functions

CONSTANTS
    Entities,
    Requests,
    Scenarios,         \* the kinds of requests of an instance: functions from Requests
                       \* to [entity, recipe, remote, supported]
    MaxIncarnations,   \* bounds the starts of the shard
    MaxStops           \* bounds the entities that stop of themselves

VARIABLES
    kind,         \* one of Scenarios, fixed from the start
    persistent,   \* persistent_entities, fixed from the start
    journal,      \* the entities with a StartEntity in the shard's journal
    shard,        \* down | up
    incarnation,
    mailbox,
    persisting,   \* the entity whose StartEntity the shard is writing, at most one
    entities,     \* entity -> [state, buffer, actor]
    children,     \* entity -> the actor that the shard supervises for it
    starts,       \* the tasks of start_entity
    actors,       \* the entity actors that run
    stops,        \* those told to stop
    direct,       \* the tasks of handle_direct: <<request, actor>>
    channel,      \* request -> the result for the task that answers a remote request
    outcome,      \* request -> unsent | waiting | ok | err, as the caller sees it
    failed,       \* the entities that could not be started in this incarnation
    lost,         \* the requests that went down with a node
    stopped       \* the actors that stopped of themselves

input == <<kind, persistent>>
shard_state == <<shard, incarnation, mailbox, persisting, entities, children>>
tasks == <<starts, direct>>
running == <<actors, stops, stopped>>
answers == <<channel, outcome, lost>>
vars == <<input, journal, shard_state, tasks, running, answers, failed>>

(* HashMap::insert.                                                         *)
Insert(f, key, value) == [k \in DOMAIN f \cup {key} |-> IF k = key THEN value ELSE f[k]]

Entity(state, buffer, actor) == [state |-> state, buffer |-> buffer, actor |-> actor]

(* Every actor of an entity is told apart by the shard's incarnation and    *)
(* by how many came before it.                                              *)
NewActor(e) ==
    <<e, incarnation, Cardinality({a \in actors \cup starts \cup stopped : a[1] = e /\ a[2] = incarnation})>>

Init ==
    /\ kind \in Scenarios /\ persistent \in BOOLEAN
    /\ journal = {} /\ shard = "down" /\ incarnation = 0 /\ mailbox = <<>> /\ persisting = {}
    /\ entities = <<>> /\ children = <<>>
    /\ starts = {} /\ actors = {} /\ stops = {} /\ direct = {}
    /\ channel = [r \in Requests |-> "none"] /\ outcome = [r \in Requests |-> "unsent"]
    /\ failed = {} /\ lost = {} /\ stopped = {}

-----------------------------------------------------------------------------
(* The answer of a remote request goes to the task that waits for it; for   *)
(* both a channel that is dropped is an error.                              *)
Answer(S, result) ==
    /\ channel' = [r \in Requests |-> IF r \in S /\ kind[r].remote THEN result ELSE channel[r]]
    /\ outcome' = [r \in Requests |-> IF r \in S /\ ~kind[r].remote THEN result ELSE outcome[r]]
    /\ UNCHANGED lost

(* Entity::request.                                                         *)
Buffer(r) ==
    LET e == kind[r].entity
    IN /\ entities[e].state = "Starting"
       /\ entities' = [entities EXCEPT ![e] = Entity("Starting", Append(@.buffer, r), @.actor)]
       /\ UNCHANGED <<children, persisting, tasks, answers>>

Direct(r) ==
    LET e == kind[r].entity
    IN /\ entities[e].state = "Active"
       /\ direct' = direct \cup {<<r, entities[e].actor>>}
       /\ UNCHANGED <<entities, children, persisting, starts, answers>>

(* start_entity: the journal first, for an entity that was not recovered    *)
(* from it; then the task.                                                  *)
StartEntity(e) ==
    IF persistent THEN persisting' = {e} /\ UNCHANGED starts
    ELSE starts' = starts \cup {NewActor(e)} /\ UNCHANGED persisting

MutantEntityRequest(r) ==
    LET e == kind[r].entity
    IN \/ /\ kind[r].supported /\ e \in DOMAIN entities
          /\ Direct(r)
       \/ /\ kind[r].supported /\ kind[r].recipe
          /\ e \in DOMAIN entities => entities[e].state = "Starting"
          /\ entities' = Insert(entities, e, Entity("Starting",
                (IF e \in DOMAIN entities THEN entities[e].buffer ELSE <<>>) \o <<r>>, <<>>))
          /\ StartEntity(e)
          /\ UNCHANGED <<children, direct, answers>>
       \/ /\ kind[r].supported => e \notin DOMAIN entities /\ ~kind[r].recipe
          /\ Answer({r}, "err")
          /\ UNCHANGED <<entities, children, persisting, tasks>>

EntityRequest(r) ==
    LET e == kind[r].entity
    IN \/ /\ kind[r].supported /\ e \in DOMAIN entities
          /\ Buffer(r) \/ Direct(r)
       \/ /\ kind[r].supported /\ e \notin DOMAIN entities /\ kind[r].recipe
          /\ entities' = Insert(entities, e, Entity("Starting", <<r>>, <<>>))
          /\ StartEntity(e)
          /\ UNCHANGED <<children, direct, answers>>
       \/ /\ kind[r].supported => e \notin DOMAIN entities /\ ~kind[r].recipe
          /\ Answer({r}, "err")
          /\ UNCHANGED <<entities, children, persisting, tasks>>

MutantBufferKept(a) ==
    LET e == a[1]
    IN /\ children' = Insert(children, e, a)
       /\ entities' = [entities EXCEPT ![e].state = "Active", ![e].actor = a]
       /\ UNCHANGED <<persisting, direct, starts, answers, actors, stops, stopped, failed>>

(* EntityStartResult, Ok: the requests that were buffered go to the actor.  *)
EntityStarted(a) ==
    LET e == a[1]
    IN /\ children' = Insert(children, e, a)
       /\ entities' = [entities EXCEPT ![e] = Entity("Active", <<>>, a)]
       /\ direct' = direct \cup {<<r, a>> : r \in Range(entities[e].buffer)}
       /\ UNCHANGED <<persisting, starts, answers, actors, stops, stopped, failed>>

(* EntityStartResult, Err: nothing but a line in the log.                   *)
EntityStartFailed(e) ==
    /\ failed' = failed \cup {e}
    /\ UNCHANGED <<entities, children, persisting, tasks, answers, running>>

(* Terminated, from a child: it is no longer supervised, and still Active.  *)
ChildTerminated(e) ==
    /\ children' = Restrict(children, DOMAIN children \ {e})
    /\ UNCHANGED <<entities, persisting, tasks, answers, running, failed>>

-----------------------------------------------------------------------------
(* The shard's start: recovery from the journal, and post_recovery.         *)

MutantStart ==
    /\ shard = "down" /\ incarnation < MaxIncarnations
    /\ shard' = "up" /\ incarnation' = incarnation + 1
    /\ entities' = [e \in journal |-> Entity("Starting", <<>>, <<>>)]
    /\ children' = <<>> /\ mailbox' = <<>> /\ failed' = {}
    /\ UNCHANGED <<input, journal, persisting, running, answers, tasks>>

Start ==
    /\ shard = "down" /\ incarnation < MaxIncarnations
    /\ shard' = "up" /\ incarnation' = incarnation + 1
    /\ entities' = [e \in journal |-> Entity("Starting", <<>>, <<>>)]
    /\ starts' = starts \cup {<<e, incarnation + 1, 0>> : e \in journal}
    /\ children' = <<>> /\ mailbox' = <<>> /\ failed' = {}
    /\ UNCHANGED <<input, journal, persisting, running, answers, direct>>

(* The shard's journal is written; its policy is to try until it is.        *)
MutantPersist ==
    /\ persisting # {}
    /\ starts' = starts \cup {NewActor(e) : e \in persisting}
    /\ journal' \in {journal, journal \cup persisting} /\ persisting' = {}
    /\ UNCHANGED <<input, shard, incarnation, mailbox, entities, children, direct, running, answers, failed>>

Persist ==
    /\ persisting # {}
    /\ journal' = journal \cup persisting /\ persisting' = {}
    /\ starts' = starts \cup {NewActor(e) : e \in persisting}
    /\ UNCHANGED <<input, shard, incarnation, mailbox, entities, children, direct, running, answers, failed>>

(* A message of the mailbox; none is taken while a start is written.        *)
Handle ==
    /\ shard = "up" /\ persisting = {} /\ mailbox # <<>>
    /\ mailbox' = Tail(mailbox)
    /\ LET m == Head(mailbox)
       IN \/ m.type = "EntityRequest" /\ EntityRequest(m.of) /\ UNCHANGED <<running, failed>>
          \/ m.type = "EntityStartResult" /\ EntityStarted(m.of)
          \/ m.type = "EntityStartErr" /\ EntityStartFailed(m.of)
          \/ m.type = "Terminated" /\ ChildTerminated(m.of)
    /\ UNCHANGED <<input, journal, shard, incarnation>>

(* Stop: what the shard holds is dropped, and its children are told to      *)
(* stop; that they did is not waited for.  Tasks go on.                     *)
HandleStop ==
    /\ shard = "up" /\ persisting = {} /\ mailbox # <<>> /\ Head(mailbox).type = "Stop"
    /\ shard' = "down" /\ mailbox' = <<>> /\ entities' = <<>> /\ children' = <<>>
    /\ stops' = stops \cup (Range(children) \cap actors)
    /\ Answer({m.of : m \in {m \in Range(mailbox) : m.type = "EntityRequest"}}
                \cup UNION {Range(entities[e].buffer) : e \in DOMAIN entities}, "err")
    /\ UNCHANGED <<input, journal, incarnation, persisting, tasks, actors, stopped, failed>>

(* The host tells the shard to stop: it is rebalanced, or the node leaves.  *)
StopShard ==
    /\ shard = "up" /\ incarnation < MaxIncarnations
    /\ ~\E m \in Range(mailbox) : m.type = "Stop"
    /\ mailbox' = Append(mailbox, [type |-> "Stop", of |-> {}])
    /\ UNCHANGED <<input, journal, shard, incarnation, persisting, entities, children,
                   tasks, running, answers, failed>>

(* The host passes a request on: an EntityRequest of this node, or a        *)
(* RemoteEntityRequest.                                                     *)
Send(r) ==
    /\ shard = "up" /\ outcome[r] = "unsent"
    /\ outcome' = [outcome EXCEPT ![r] = "waiting"]
    /\ mailbox' = Append(mailbox, [type |-> "EntityRequest", of |-> r])
    /\ UNCHANGED <<input, journal, shard, incarnation, persisting, entities, children,
                   tasks, running, channel, lost, failed>>

-----------------------------------------------------------------------------
(* A message to the shard of an incarnation; lost if that is gone.          *)
Notify(i, type, of) ==
    mailbox' = IF shard = "up" /\ i = incarnation
               THEN Append(mailbox, [type |-> type, of |-> of]) ELSE mailbox

(* A start task: ActorHandler::create starts the actor ...                  *)
Create(a) ==
    /\ a \in starts \ actors
    /\ actors' = actors \cup {a}
    /\ UNCHANGED <<input, journal, shard_state, tasks, stops, stopped, answers, failed>>

(* ... or fails: no such recipe, or the actor's start failed.               *)
CreateFails(a) ==
    /\ a \in starts \ actors
    /\ starts' = starts \ {a}
    /\ Notify(a[2], "EntityStartErr", a[1])
    /\ UNCHANGED <<input, journal, shard, incarnation, persisting, entities, children, direct,
                   running, answers, failed>>

Created(a) ==
    /\ a \in starts /\ a \in actors \cup stopped
    /\ starts' = starts \ {a}
    /\ Notify(a[2], "EntityStartResult", a)
    /\ UNCHANGED <<input, journal, shard, incarnation, persisting, entities, children, direct,
                   running, answers, failed>>

(* An entity's actor stops, of itself or as told, and tells its shard.      *)
EntityStops(a) ==
    /\ a \in actors /\ (a \in stops \/ Cardinality(stopped) < MaxStops)
    /\ actors' = actors \ {a} /\ stops' = stops \ {a}
    /\ stopped' = IF a \in stops THEN stopped ELSE stopped \cup {a}
    /\ Notify(a[2], "Terminated", a[1])
    /\ UNCHANGED <<input, journal, shard, incarnation, persisting, entities, children, tasks,
                   answers, failed>>

(* handle_direct: an actor that is gone answers nothing, which is an error. *)
Serve(d) ==
    /\ d \in direct
    /\ direct' = direct \ {d}
    /\ Answer({d[1]}, IF d[2] \in actors THEN "ok" ELSE "err")
    /\ UNCHANGED <<input, journal, shard_state, starts, running, failed>>

(* The task that waits for the result of a remote request.                  *)
NotifyOrigin(r) ==
    /\ channel[r] # "none" /\ outcome[r] = "waiting"
    /\ outcome' = [outcome EXCEPT ![r] = channel[r]]
    /\ UNCHANGED <<input, journal, shard_state, tasks, running, channel, lost, failed>>

(* The node crashes, perhaps just after a write to the journal.             *)
Crash ==
    /\ shard = "up" /\ incarnation < MaxIncarnations
    /\ journal' \in {journal, journal \cup persisting}
    /\ shard' = "down" /\ mailbox' = <<>> /\ persisting' = {} /\ entities' = <<>> /\ children' = <<>>
    /\ starts' = {} /\ direct' = {} /\ actors' = {} /\ stops' = {} /\ stopped' = {}
    /\ failed' = {} /\ lost' = lost \cup {r \in Requests : outcome[r] = "waiting"}
    /\ UNCHANGED <<input, incarnation, channel, outcome>>

TaskStep ==
    \/ Handle \/ HandleStop \/ Persist
    \/ \E a \in starts : Create(a) \/ CreateFails(a) \/ Created(a)
    \/ \E a \in stops : EntityStops(a)
    \/ \E d \in direct : Serve(d)
    \/ \E r \in Requests \ lost : NotifyOrigin(r)

Next ==
    \/ TaskStep \/ Start \/ StopShard \/ Crash
    \/ \E r \in Requests : Send(r)
    \/ \E a \in actors \ stops : EntityStops(a)

(* Every task that can go on does, and so does the shard.                   *)
Spec == Init /\ [][Next]_vars /\ WF_vars(TaskStep)

-----------------------------------------------------------------------------
(* Properties.                                                              *)

(* An entity runs at most once in an incarnation of its shard, whatever the *)
(* order of requests, start tasks and failures.                             *)
OneActorPerEntity ==
    \A a, b \in actors : a[1] = b[1] /\ a[2] = b[2] => a = b

(* With persistent entities, an entity is in the journal before its actor   *)
(* runs: a request that was answered is never for an entity that a restart  *)
(* of the shard, or a crash of the node, would forget.                      *)
StartedIsPersisted ==
    persistent => \A a \in actors \cup starts : a[1] \in journal

(* Every entity in the journal is started again with the shard: it becomes  *)
(* Active unless its start fails or the shard goes down again.              *)
RecoveredEntitiesStart ==
    \A e \in Entities :
        e \in journal /\ shard = "up" ~>
            shard = "down" \/ e \in failed \/ (e \in DOMAIN entities /\ entities[e].state = "Active")

(* Requests to entities as their callers see them: refused only if there is *)
(* no handler or no recipe for them, if the entity has stopped or if the    *)
(* shard has been told to stop; and answered unless the entity could not be *)
(* started or the node crashed.                                             *)
Refusable(r) ==
    \/ ~kind[r].supported
    \/ ~kind[r].recipe /\ kind[r].entity \notin DOMAIN entities
    \/ \E a \in stopped : a[1] = kind[r].entity
    \/ shard = "down" \/ \E m \in Range(mailbox) : m.type = "Stop"
    \/ \E d \in direct : d[1] = r /\ d[2] \notin actors
    \/ channel[r] = "err"

Caller == INSTANCE Calls WITH
    impaired <- {r \in Requests : Refusable(r)},
    cut_off <- {r \in Requests : r \in lost \/ kind[r].entity \in failed}

(* Every request to an entity is answered once, and by the entity if it     *)
(* runs: EntityRequest implements Calls.                                    *)
EntityCallsAreAnswered == Caller!Spec
=============================================================================
